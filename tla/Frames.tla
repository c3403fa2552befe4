------------------------------- MODULE Frames -------------------------------
(***************************************************************************)
(* Framed telemetry from emission to admission: a pod's counter, nonce and *)
(* encryption (trackone-pod-fw/src/pod.rs and nonce.rs), a channel that    *)
(* loses, repeats, reorders and damages frames, and the gateway's          *)
(* admission with its replay window (trackone-ingest).                     *)
(*                                                                         *)
(* The board application and the admission process are callers outside     *)
(* the repository.  They follow what the crates ask of them: a board whose *)
(* tail is fresh at every boot may save its counter late or never, one     *)
(* whose tail is stable saves the counter before it transmits; the         *)
(* admission process saves the window's snapshot together with the fact.   *)
(***************************************************************************)
EXTENDS ReplayWindow, Bags, Sequences

CONSTANTS
    Pods,           \* full identities
    Me,             \* the pod whose emission is followed
    DevId,          \* the routing suffix of each identity
    Salt, Key,      \* provisioned material
    Payloads,       \* [env, size], see ValidFact
    NaN,            \* stands for the values that are not finite
    MaxFc,          \* u32::MAX
    MaxFactLen, Capacity, MaxCiphertext, TagLen,
    Tails,          \* the tails a fresh-tail board may draw
    OldTail,        \* the tail of a stable board
    WindowSize,
    Elsewhere       \* frames of other pods, in the air from the start

VARIABLES
    discipline,     \* fresh | stable: how the board picks its tail
    phase,          \* off | new | ready: the pod
    next_fc,        \* Pod::next_fc
    tail,           \* CounterNonce24::tail8
    drawn,          \* tails used so far
    stored,         \* the counter in non-volatile storage, an Option of an Option
    hand,           \* the frame emitted and not yet transmitted
    air,            \* every frame ever transmitted
    high_water,     \* what an older gateway kept of each device
    window,         \* in memory, per device; {} while the gateway is down
    snapshot,       \* durable, per device
    inhand,         \* the fact accepted and not yet saved
    ledger          \* durable bag of [device, fact]

podVars == <<discipline, phase, next_fc, tail, drawn, stored, hand>>
gatewayVars == <<high_water, window, snapshot, inhand, ledger>>
vars == <<podVars, air, gatewayVars>>

MsgType == 1        \* FRAMED_FACT_MSG_TYPE
-----------------------------------------------------------------------------
(* Facts (trackone-core/src/types.rs). *)

Finite(option) == NaN \notin option

\* EnvFact::validate: an instant or a summary.
ValidEnv(env) ==
    /\ env.start <= env.end
    /\ Finite(env.quality)
    /\ \/ /\ env.value # {} /\ Finite(env.value)
          /\ env.start = env.end
          /\ env.min = {} /\ env.max = {} /\ env.mean = {}
          /\ env.count \subseteq {1}
       \/ /\ env.value = {}
          /\ env.min # {} /\ env.max # {} /\ env.mean # {} /\ env.count # {}
          /\ 0 \notin env.count
          /\ Finite(env.min) /\ Finite(env.max) /\ Finite(env.mean)
          /\ \A low \in env.min, mid \in env.mean, high \in env.max : low <= mid /\ mid <= high

\* Fact::validate; a custom payload has no env.
ValidFact(fact) ==
    IF fact.payload.env = {} THEN fact.kind \in {"pipeline", "health", "custom"}
    ELSE fact.kind = "env" /\ \A env \in fact.payload.env : ValidEnv(env)

\* make_fact
MakeFact(pod, fc, payload) ==
    [pod_id |-> pod, fc |-> fc, payload |-> payload,
     kind |-> IF payload.env = {} THEN "custom" ELSE "env"]
-----------------------------------------------------------------------------
(* Nonce, associated data and cipher. *)

FramedNonce(salt, fc, t) == <<salt, fc, t>>

FramedAad(dev_id, msg_type, flags) == <<dev_id, msg_type, flags>>

\* XChaCha20-Poly1305: opens only under the key, nonce and data it was sealed with.
Seal(key, nonce, aad, fact) ==
    [key |-> key, nonce |-> nonce, aad |-> aad, fact |-> fact, size |-> fact.payload.size]

Opens(ct, key, nonce, aad) == ct.key = key /\ ct.nonce = nonce /\ ct.aad = aad

\* encrypt_fact, and the split into header, ciphertext and tag the transport makes.
EncryptFact(pod, nonce, fact) ==
    IF ValidFact(fact) /\ fact.payload.size <= MaxFactLen
         /\ fact.payload.size + TagLen <= Capacity
    THEN {[dev_id |-> DevId[pod], msg_type |-> MsgType, fc |-> fact.fc, flags |-> 0,
           nonce |-> nonce, tag |-> TagLen,
           ct |-> Seal(Key[pod], nonce, FramedAad(DevId[pod], MsgType, 0), fact)]}
    ELSE {}
-----------------------------------------------------------------------------
(* The pod. *)

\* Fault: durable state older than the pod's own is taken.
RestoreRegressing(restored) == restored

\* restore_next_frame_counter: what next_fc is afterwards.
Restored(restored) ==
    IF next_fc = {} \/ \E r \in restored, c \in next_fc : r < c THEN next_fc ELSE restored

\* Pod::new; a board with a durable counter does not emit before restoring it.
Boot ==
    /\ phase = "off"
    /\ \/ discipline = "fresh" /\ tail' \in Tails \ drawn /\ drawn' = drawn \cup {tail'}
       \/ discipline = "stable" /\ UNCHANGED <<tail, drawn>>
    /\ phase' = IF stored = {} THEN "ready" ELSE "new"
    /\ next_fc' = {0}
    /\ UNCHANGED <<discipline, stored, hand, air, gatewayVars>>

\* At boot, or once more at any later time.
Restore ==
    /\ phase # "off"
    /\ \E restored \in stored : next_fc' = Restored(restored)
    /\ phase' = "ready"
    /\ UNCHANGED <<discipline, tail, drawn, stored, hand, air, gatewayVars>>

\* CounterNonce24::nonce_for_frame
NonceForFrame(fc) == IF fc > MaxFc THEN {} ELSE {FramedNonce(Salt[Me], fc, tail)}

\* emit_payload and emit_fact: the counter moves on only if there is a frame.
EmitFact(fact) ==
    /\ \A fc \in next_fc : fact.fc = fc
    /\ hand' = UNION {EncryptFact(Me, nonce, fact) : nonce \in NonceForFrame(fact.fc)}
    /\ hand' # {}
    /\ next_fc' = IF fact.fc = MaxFc THEN {} ELSE {fact.fc + 1}

EmitPayload ==
    /\ phase = "ready" /\ hand = {}
    /\ \E fc \in next_fc, payload \in Payloads : EmitFact(MakeFact(Me, fc, payload))
    /\ UNCHANGED <<discipline, phase, tail, drawn, stored, air, gatewayVars>>

Save ==
    /\ phase = "ready"
    /\ stored' = {next_fc}
    /\ UNCHANGED <<discipline, phase, next_fc, tail, drawn, hand, air, gatewayVars>>

Transmit ==
    /\ phase = "ready" /\ hand # {}
    /\ discipline = "stable" => stored = {next_fc}
    /\ air' = air \cup hand
    /\ hand' = {}
    /\ UNCHANGED <<discipline, phase, next_fc, tail, drawn, stored, gatewayVars>>

\* Power is lost or the watchdog bites.
Reset ==
    /\ phase # "off"
    /\ phase' = "off" /\ hand' = {} /\ next_fc' = {}
    /\ UNCHANGED <<discipline, tail, drawn, stored, air, gatewayVars>>

Pod == Boot \/ Restore \/ EmitPayload \/ Save \/ Transmit \/ Reset
-----------------------------------------------------------------------------
(* The channel and the gateway. *)

\* What a damaged frame may look like.
Damaged(frame) ==
    {[frame EXCEPT !.dev_id = DevId[p]] : p \in Pods}
        \cup {[frame EXCEPT !.fc = fc] : fc \in 0 .. MaxFc}
        \cup {[frame EXCEPT !.nonce = FramedNonce(Salt[p], fc, frame.nonce[3])] :
                 p \in Pods, fc \in 0 .. MaxFc}
        \cup {[frame EXCEPT !.nonce = <<>>], [frame EXCEPT !.flags = 1],
              [frame EXCEPT !.msg_type = 0], [frame EXCEPT !.tag = 0],
              [frame EXCEPT !.ct.key = "none"], [frame EXCEPT !.ct.size = 0],
              [frame EXCEPT !.ct.size = MaxCiphertext + 1]}

\* validate_nonce_prefix
ValidNoncePrefix(nonce, salt, fc) ==
    Len(nonce) = 3 /\ nonce[1] = salt /\ nonce[2] = fc

\* validate_fact_binding
FactBinding(fact, device, fc) == fact.pod_id = device /\ fact.fc = fc

\* validate_and_decrypt: the fact, or {} for a rejection.
ValidateAndDecrypt(frame, device) ==
    IF /\ frame.tag = TagLen
       /\ frame.ct.size # 0 /\ frame.ct.size <= MaxCiphertext
       /\ frame.flags = 0 /\ frame.msg_type = MsgType
       /\ DevId[device] = frame.dev_id
       /\ ValidNoncePrefix(frame.nonce, Salt[device], frame.fc)
       /\ Opens(frame.ct, Key[device], frame.nonce,
                FramedAad(frame.dev_id, frame.msg_type, frame.flags))
       /\ ValidFact(frame.ct.fact)
       /\ FactBinding(frame.ct.fact, device, frame.fc)
    THEN {frame.ct.fact}
    ELSE {}

\* A frame arrives, perhaps damaged, perhaps again, and is tried against a device.
Receive ==
    /\ window # {} /\ inhand = {}
    /\ \E sent \in air, device \in Pods, w \in window : \E frame \in Damaged(sent) :
         \E fact \in ValidateAndDecrypt(frame, device) :
           \E updated \in CheckAndUpdate(w[device], fact.fc) :
             /\ window' = {[w EXCEPT ![device] = updated]}
             /\ inhand' = {[device |-> device, fact |-> fact]}
    /\ UNCHANGED <<podVars, air, high_water, snapshot, ledger>>

\* The fact and the window that contains it become durable together.
Commit ==
    /\ \E entry \in inhand, w \in window :
         /\ ledger' = ledger (+) SetToBag({entry})
         /\ snapshot' = [snapshot EXCEPT ![entry.device] =
                            Snapshot(w[entry.device], "epoch")]
    /\ inhand' = {}
    /\ UNCHANGED <<podVars, air, high_water, window>>

Crash ==
    /\ window # {}
    /\ window' = {} /\ inhand' = {}
    /\ UNCHANGED <<podVars, air, high_water, snapshot, ledger>>

Windows(device) ==
    IF snapshot[device] = {} THEN {NewWindow(WindowSize, high_water[device])}
    ELSE UNION {FromSnapshot("epoch", s) : s \in snapshot[device]}

\* Every window is restored, or the gateway does not start.
Start ==
    /\ window = {}
    /\ \A device \in Pods : Windows(device) # {}
    /\ window' = {[device \in Pods |-> CHOOSE w \in Windows(device) : TRUE]}
    /\ UNCHANGED <<podVars, air, high_water, snapshot, inhand, ledger>>

Gateway == Receive \/ Commit \/ Crash \/ Start
-----------------------------------------------------------------------------
\* A deployment that is new, or one where an older gateway accepted counter 0.
Init ==
    /\ discipline \in {"fresh", "stable"}
    /\ phase = "off" /\ next_fc = {} /\ hand = {}
    /\ tail = OldTail /\ drawn = {}
    /\ window = {} /\ inhand = {}
    /\ snapshot = [device \in Pods |-> {}]
    /\ \/ /\ stored = {} /\ air = Elsewhere /\ ledger = EmptyBag
          /\ high_water = [device \in Pods |-> {}]
       \/ \E payload \in Payloads :
            \E frame \in EncryptFact(Me, FramedNonce(Salt[Me], 0, OldTail), MakeFact(Me, 0, payload)) :
              /\ stored = {{1}} /\ air = Elsewhere \cup {frame}
              /\ ledger = SetToBag({[device |-> Me, fact |-> frame.ct.fact]})
              /\ high_water = [device \in Pods |-> IF device = Me THEN {0} ELSE {}]

Next == Pod \/ Gateway

Spec == Init /\ [][Next]_vars
-----------------------------------------------------------------------------
(***************************************************************************)
(* Whatever the channel repeats, reorders, damages or misroutes, and       *)
(* whenever pod and gateway restart, a device has at most one admitted     *)
(* fact per counter, and that fact is one the device with this full        *)
(* identity transmitted (validate_and_decrypt, check_and_update and the    *)
(* snapshots together).                                                    *)
(***************************************************************************)
AdmittedOnceAsSent ==
    /\ \A e \in BagToSet(ledger) :
         /\ CopiesIn(e, ledger) = 1
         /\ e.fact.pod_id = e.device
         /\ \E frame \in air : frame.ct.fact = e.fact
    /\ \A e, f \in BagToSet(ledger) : e.device = f.device /\ e.fact.fc = f.fact.fc => e = f

(***************************************************************************)
(* Two frames in the air under one key and one nonce are the same frame,   *)
(* whenever the pod lost power between encrypting, saving its counter and  *)
(* transmitting, and through exhaustion of the counter (emit_fact and      *)
(* restore_next_frame_counter).                                            *)
(***************************************************************************)
NonceSealsOneFact ==
    \A f, g \in air : f.ct.key = g.ct.key /\ f.nonce = g.nonce => f.ct = g.ct
=============================================================================
