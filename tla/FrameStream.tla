---------------------------- MODULE FrameStream ----------------------------
(***************************************************************************)
(* One transmission heard by the accounting of FrameLoss: a hotspot sends  *)
(* a header, whole superframes of voice and a terminator; the network      *)
(* loses frames in bursts of at most MaxBurst.  Stray frames, of any kind  *)
(* and at any moment, stand for those it repeats or delivers out of turn.  *)
(* It tells what LostSequences counts from what was really lost.           *)
(***************************************************************************)
EXTENDS FrameLoss

CONSTANTS
    Superframes,  \* bound: superframes (six voice frames) of the transmission
    MaxBurst,     \* bound: frames lost in a row
    MaxStrays     \* bound: frames heard out of turn

ASSUME StreamAssumption ==
    /\ Superframes \in Nat /\ MaxBurst \in Nat /\ MaxStrays \in Nat
    /\ MaxFrames >= 6 * Superframes + 2 + MaxStrays

VARIABLES
    pos,      \* frames sent
    dropped,  \* frames the network lost
    burst,    \* frames lost since the last one heard
    strays    \* frames heard out of turn

streamVars == <<pos, dropped, burst, strays>>

Length == 6 * Superframes + 2

\* Frame k of the transmission.
FrameAt(k) ==
    IF k = 0 THEN [type |-> "DataSync", seq |-> VoiceHead]
    ELSE IF k = Length - 1 THEN [type |-> "DataSync", seq |-> VoiceTerm]
    ELSE [type |-> IF k % 6 = 1 THEN "VoiceSync" ELSE "Voice", seq |-> (k - 1) % 6]

Deliver ==
    /\ pos < Length
    /\ Hear(FrameAt(pos))
    /\ pos' = pos + 1
    /\ burst' = 0
    /\ UNCHANGED <<dropped, strays>>

Lose ==
    /\ pos < Length
    /\ burst < MaxBurst
    /\ pos' = pos + 1
    /\ burst' = burst + 1
    /\ dropped' = dropped + 1
    /\ UNCHANGED <<counters, strays>>

Stray ==
    /\ strays < MaxStrays
    /\ \E f \in Frame : Hear(f)
    /\ strays' = strays + 1
    /\ UNCHANGED <<pos, dropped, burst>>

\* The terminator, or the call's timer when the terminator was lost.
HangUp ==
    /\ pos = Length
    /\ frames > 0
    /\ EndCallTail
    /\ UNCHANGED streamVars

StreamInit == CountersInit /\ pos = 0 /\ dropped = 0 /\ burst = 0 /\ strays = 0

StreamNext == Deliver \/ Lose \/ Stray \/ HangUp

StreamSpec == StreamInit /\ [][StreamNext]_<<counters, streamVars>>

----------------------------------------------------------------------------
(* Properties. *)

StreamTypeOK ==
    /\ CountersTypeOK
    /\ pos \in 0..Length
    /\ dropped \in 0..pos
    /\ burst \in 0..MaxBurst
    /\ strays \in 0..MaxStrays

\* When frames keep their order, are lost one at a time and the header is not
\* among them, the call is never charged with more frames than were lost:
\* neither by the gaps that updateCall sees nor by the ones EndCall presumes.
NeverOvercharged == hasHeader /\ strays = 0 => lost <= dropped

\* TotalPackets is then the sum of what was heard and what is charged as lost,
\* so that Loss is at most the real ratio.
TotalIsHeardAndLost ==
    hasHeader /\ strays = 0 => total = frames + lost

\* The inductive invariant when no two frames are lost in a row.  LastFrameNum is
\* the number of the last frame heard, whose place is pos - burst - 1, ...
Number(k) == IF k = 0 \/ k = Length - 1 THEN 5 ELSE (k - 1) % 6

\* ... and a frame is charged for after the frame that follows it.
InStep ==
    strays = 0 /\ hasHeader =>
        /\ pos - burst >= 1
        /\ open => /\ last = Number(pos - burst - 1)
                   /\ lost + burst <= dropped
                   /\ hasTerm <=> pos - burst = Length
        /\ ~open => lost <= dropped
        /\ total = frames + lost

\* Nothing has been heard before the header.
BeforeHeader ==
    strays = 0 /\ pos = 0 =>
        /\ last = 5 /\ ~hasTerm /\ ~hasHeader
        /\ lost = 0 /\ total = 0 /\ frames = 0 /\ burst = 0

StreamInv == AccountingInv /\ StreamTypeOK /\ InStep /\ BeforeHeader

\* A gap behind LastFrameNum is a lost packet (call_tracker.go:333).  (Violated:
\* the frame after a sync is exempt, LastFrameNum being 0.)
EveryLossCounted == ~open /\ strays = 0 => lost >= dropped

\* A frame is charged with the frames lost since the frame before it
\* (call_tracker.go:284).  (Violated: each sync without a header is charged again.)
MissingHeaderChargedOnce == ~hasHeader /\ strays = 0 => lost <= dropped

\* A call that has no term lost that packet (call_tracker.go:435).  (Violated:
\* the terminator's data type 2 is taken for a repeated voice frame 2.)
TerminatorRecorded == pos = Length /\ burst = 0 /\ strays = 0 => hasTerm
=============================================================================
