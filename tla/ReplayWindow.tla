---------------------------- MODULE ReplayWindow ----------------------------
(***************************************************************************)
(* The replay window of framed admission (trackone-ingest/src/replay.rs):  *)
(* the counters of one device accepted within window_size of the highest.  *)
(* An Option is a set of at most one element.                              *)
(***************************************************************************)
EXTENDS Naturals

SnapshotVersion == 1

\* ReplayWindow::new: a caller that kept only the high-water mark.
NewWindow(window_size, highest) ==
    [window_size |-> window_size, highest |-> highest, seen |-> highest]

\* saturating_sub
Lower(highest, window_size) == IF highest < window_size THEN 0 ELSE highest - window_size

Snapshot(window, namespace) ==
    IF namespace = "" THEN {} ELSE {[version |-> SnapshotVersion, namespace |-> namespace,
                                     window_size |-> window.window_size,
                                     highest |-> window.highest, seen |-> window.seen]}

\* ReplayWindow::from_snapshot; {} is a refusal.
FromSnapshot(namespace, snapshot) ==
    LET seen == snapshot.seen \cup snapshot.highest
    IN  IF /\ namespace # "" /\ snapshot.namespace = namespace
           /\ snapshot.version = SnapshotVersion /\ snapshot.window_size # 0
           /\ snapshot.highest = {} => seen = {}
           /\ \A h \in snapshot.highest, fc \in seen :
                 Lower(h, snapshot.window_size) <= fc /\ fc <= h
        THEN {[window_size |-> snapshot.window_size, highest |-> snapshot.highest, seen |-> seen]}
        ELSE {}

\* The counters the window accepts.
Fresh(window, fc) ==
    \A h \in window.highest :
        /\ fc \notin window.seen
        /\ fc < h => h - fc <= window.window_size
        /\ fc > h => fc - h <= window.window_size

\* Fault: the lowest counter of the window is forgotten.
RetainStrictly(window, fc) ==
    {s \in window.seen : s > Lower(fc, window.window_size)}

\* What stays remembered when fc becomes the highest.
Retain(window, fc) ==
    {s \in window.seen : s >= Lower(fc, window.window_size)}

\* check_and_update; {} is a rejection, as duplicate or out_of_window.
CheckAndUpdate(window, fc) ==
    IF ~Fresh(window, fc) THEN {}
    ELSE {IF \A h \in window.highest : fc > h
          THEN [window EXCEPT !.highest = {fc}, !.seen = Retain(window, fc) \cup {fc}]
          ELSE [window EXCEPT !.seen = window.seen \cup {fc}]}
=============================================================================
