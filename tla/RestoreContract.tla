-------------------------- MODULE RestoreContract --------------------------
(***************************************************************************)
(* What a user may rely on when data is restored, without files, archives  *)
(* or locks: the server shows the data of before or the complete data of   *)
(* an archive.  Only a replacement that is cut off, or that can neither be *)
(* finished nor undone, breaks the data; broken data may be shown after a  *)
(* restart, and only then, until another archive is restored or users      *)
(* happen to write what was promised.  Nothing is promised for a file      *)
(* that somebody writes while a restore is under way and does not see it.  *)
(***************************************************************************)
CONSTANTS
    Datas,        \* what may be promised of the data
    Written(_),   \* what may be promised when one file, or the database, was written
    Less(_)       \* what is left of a promise without one of the files

VARIABLES
    mode,   \* is the data shown, being replaced, or broken
    shown   \* the data that was promised last

vars == <<mode, shown>>

\* "mending" replaces data that was broken before; "torn" is broken and shown.
Modes == {"up", "down", "replacing", "broken", "torn", "mending"}

Init == mode = "up" /\ shown \in Datas

\* Files are written also while the server is stopped.
Write == mode \in {"up", "down"} /\ shown' \in Written(shown) /\ UNCHANGED mode

Mended(m) == CASE m = "torn" -> "up" [] m = "broken" -> "down"
               [] m = "mending" -> "replacing" [] OTHER -> m

\* The work of the users makes of broken data what was promised to them.
Mend == mode \in {"torn", "broken"} /\ mode' = Mended(mode) /\ UNCHANGED shown

\* The server stops, or starts, and nothing is lost.
StopOrStart ==
    /\ \/ mode = "up" /\ mode' = "down"
       \/ mode = "down" /\ mode' = "up"
    /\ UNCHANGED shown

Begin ==
    /\ \/ mode \in {"up", "down"} /\ mode' = "replacing"
       \/ mode \in {"torn", "broken"} /\ mode' = "mending"
    /\ UNCHANGED shown

\* Somebody writes a file for which a restore that is under way comes too early.
WriteLate == mode' \in {mode, Mended(mode)} /\ shown' \in Less(shown)

Complete ==
    /\ mode \in {"replacing", "mending"} /\ mode' \in {"up", "down"}
    /\ shown' \in Datas

\* Rolled back: the users find what they had.
GiveBack ==
    /\ \/ mode = "replacing" /\ mode' \in {"up", "down"}
       \/ mode = "mending" /\ mode' \in {"torn", "broken"}
    /\ UNCHANGED shown

\* Neither finished nor undone: nothing is shown.
Break ==
    /\ mode \in {"replacing", "mending"} /\ mode' = "broken"
    /\ UNCHANGED shown

\* A restart over what is left: complete after all, or not.
StopBroken == mode = "torn" /\ mode' = "broken" /\ UNCHANGED shown
ShowBroken == mode = "broken" /\ mode' = "torn" /\ UNCHANGED shown
Salvage == mode = "broken" /\ mode' = "up" /\ shown' \in Datas

Next == Write \/ Mend \/ StopOrStart \/ Begin \/ WriteLate \/ Complete \/ GiveBack
        \/ Break \/ StopBroken \/ ShowBroken \/ Salvage

Spec == Init /\ [][Next]_vars
=============================================================================
