--------------------------- MODULE PhysicalMemory ---------------------------
(***************************************************************************)
(* The physical memory of tp3 and its backing store (src/tp3/src/pm.c):    *)
(* operators on the array pm_memory `m`, the file `s` and the bitmap `b`   *)
(* of the frames in use.                                                   *)
(***************************************************************************)
EXTENDS Integers

CONSTANTS NumFrames,   \* NUM_FRAMES
          PageSize     \* PAGE_FRAME_SIZE

Frames == 0 .. NumFrames - 1
PhysicalAddresses == 0 .. NumFrames * PageSize - 1

\* find_free_frame_number; frames are never given back.
FreeFrames(b) == {f \in Frames : ~b[f]}
FreeFrame(b) == CHOOSE f \in FreeFrames(b) : \A g \in FreeFrames(b) : f <= g

\* pm_download_page: the frame gets the contents of the page.
Download(m, s, page, frame) ==
    [a \in PhysicalAddresses |->
        IF a \div PageSize = frame THEN s[page * PageSize + (a % PageSize)] ELSE m[a]]

\* Fault: the two arguments are exchanged.
BackupExchanged(m, s, page, frame) ==
    [a \in DOMAIN s |->
        IF a \div PageSize = frame THEN m[page * PageSize + (a % PageSize)] ELSE s[a]]

\* pm_backup_page: the page in the file gets the contents of the frame.
Backup(m, s, page, frame) ==
    [a \in DOMAIN s |->
        IF a \div PageSize = page THEN m[frame * PageSize + (a % PageSize)] ELSE s[a]]
=============================================================================
