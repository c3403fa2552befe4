------------------------------ MODULE MCFrames ------------------------------
(***************************************************************************)
(* Frames with two pods that share a routing suffix, salt and key, so that *)
(* only the identity inside the fact tells them apart.                     *)
(***************************************************************************)
EXTENDS Frames

p1 == "p1"
p2 == "p2"
MCPods == {p1, p2}
MCDevId == [p \in MCPods |-> 1]
MCSalt == [p \in MCPods |-> "salt"]
MCKey == [p \in MCPods |-> "key"]

Env(start, end, value, min, max, mean, count, quality) ==
    [start |-> start, end |-> end, value |-> value, min |-> min, max |-> max, mean |-> mean,
     count |-> count, quality |-> quality]

Payload(env, size) == [env |-> env, size |-> size]

Instant == Env(1, 1, {5}, {}, {}, {}, {1}, {})
Summary == Env(1, 2, {}, {3}, {5}, {4}, {2}, {})

\* Two payloads that can be sent, and one for each way to be refused.
MCPayloads ==
    {Payload({Instant}, 2), Payload({}, 1), Payload({Summary}, 4), Payload({Summary}, 3)}
        \cup {Payload({env}, 1) : env \in
                {[Instant EXCEPT !.end = 0], [Instant EXCEPT !.end = 2],
                 [Instant EXCEPT !.quality = {NaN}], [Instant EXCEPT !.value = {NaN}],
                 [Instant EXCEPT !.mean = {5}], [Instant EXCEPT !.count = {2}],
                 [Summary EXCEPT !.max = {}], [Summary EXCEPT !.count = {0}],
                 [Summary EXCEPT !.min = {NaN}], [Summary EXCEPT !.mean = {6}]}}

Foreign(fact) ==
    LET nonce == FramedNonce("salt", fact.fc, "far")
    IN  [dev_id |-> 1, msg_type |-> MsgType, fc |-> fact.fc, flags |-> 0, nonce |-> nonce,
         tag |-> TagLen, ct |-> Seal("key", nonce, FramedAad(1, MsgType, 0), fact)]

\* A frame of the other pod, and one whose fact does not match its kind.
MCElsewhere ==
    {Foreign(MakeFact(p2, 1, Payload({Instant}, 2))),
     Foreign([MakeFact(p2, 0, Payload({Instant}, 2)) EXCEPT !.kind = "health"])}
=============================================================================
