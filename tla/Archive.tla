-------------------------------- MODULE Archive --------------------------------
(* What a download promises to the build that asked for it: the archive is    *)
(* absent or complete, never in between; once it is there it stays; and who   *)
(* is told that the download succeeded finds it complete.                     *)
VARIABLES archive,      \* what the download directory holds
          told          \* the last download asked for has succeeded

Init == archive = "absent" /\ told = FALSE

\* The download succeeds: all of the archive arrives at once, or was there.
Succeed == archive' = "complete" /\ told' = TRUE

\* Another download is asked for.
Retry == archive' = archive /\ told' = FALSE

Next == Succeed \/ Retry

Spec == Init /\ [][Next]_<<archive, told>>
================================================================================
