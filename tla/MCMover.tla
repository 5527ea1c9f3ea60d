------------------------------- MODULE MCMover -------------------------------
(* Small instances of Mover: an inbox, two homes and a folder that is not  *)
(* managed; a message has a file in the inbox, and perhaps a second one at *)
(* a home, or where the mover leaves it alone.                             *)
EXTENDS Mover, TLC

CONSTANTS m1, p1, p2, inbox, archive, trash, work

MCMsgs == {m1}
MCMovers == {p1, p2}
MCFolders == {inbox, archive, trash, work}
MCTargets == {archive, trash}

MCInit == /\ Init
          /\ \A f \in disk : f.uid /\ ~f.seen
          /\ \A m \in Msgs : {f.folder : f \in Of(m, disk)}
                               \in {{inbox}, {inbox, archive}, {inbox, work}}

MCSymmetry == Permutations(MCMovers)

MCSpec == MCInit /\ [][Next]_vars
=============================================================================
