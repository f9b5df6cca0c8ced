----------------------------- MODULE FrameLoss -----------------------------
(***************************************************************************)
(* The packet accounting of one tracked call: what CallTracker.updateCall  *)
(* and the tail of CallTracker.EndCall (internal/dmr/call_tracker.go) do   *)
(* to LastFrameNum, TotalPackets, LostSequences, HasHeader and HasTerm.    *)
(* The frames are any that the DMRD handler takes for voice, in any order  *)
(* and any number of times: the network between a hotspot and the server   *)
(* is UDP, and the handler starts one goroutine per packet.                *)
(***************************************************************************)
EXTENDS Integers

CONSTANTS
    Modulus,    \* number of values of a Go uint (2^64 in the program)
    MaxFrames   \* bound: frames heard during one call

ASSUME NumericAssumption ==
    /\ MaxFrames \in Nat
    /\ Modulus \in Nat
    /\ Modulus > 7 * MaxFrames + 6

VARIABLES
    last,       \* call.LastFrameNum
    hasHeader,  \* call.HasHeader
    hasTerm,    \* call.HasTerm
    total,      \* call.TotalPackets
    lost,       \* call.LostSequences
    open,       \* EndCall has not yet closed the call
    frames      \* frames heard so far, for the bound only

counters == <<last, hasHeader, hasTerm, total, lost, open, frames>>

----------------------------------------------------------------------------
(* Frames. *)

VoiceHead == 1
VoiceTerm == 2

\* The frames of which isVoice holds, with the four bits of DTypeOrVSeq.
Frame ==
    [type : {"Voice", "VoiceSync"}, seq : 0..15]
        \cup [type : {"DataSync"}, seq : {VoiceHead, VoiceTerm}]

IsHeader(f)     == f.type = "DataSync" /\ f.seq = VoiceHead
IsTerminator(f) == f.type = "DataSync" /\ f.seq = VoiceTerm
IsSync(f)       == f.type = "VoiceSync" /\ f.seq = 0
IsVoice(f)      == f.type = "Voice" /\ f.seq \in 1..4
IsLastVoice(f)  == f.type = "Voice" /\ f.seq = 5

\* The result of a uint operation that leaves 0..Modulus-1 by less than Modulus.
Wrap(n) ==
    IF n < 0 THEN n + Modulus ELSE IF n >= Modulus THEN n - Modulus ELSE n

----------------------------------------------------------------------------
(* One packet: updateCall. *)

\* The frame number is compared whatever the frame's type.
Repeated(f) == last # 0 /\ last = f.seq

\* A frame that is counted, with the `gap' frames presumed lost before it.
Count(gap) ==
    /\ lost' = Wrap(lost + gap)
    /\ total' = Wrap(total + 1 + gap)

\* Mutant of VoiceGap: the operands of the difference swapped.
VoiceGapSwapped(n) ==
    IF last = 5 THEN IF n = 1 THEN 1 ELSE n - 1
    ELSE IF last # 0 /\ last # n - 1 THEN Wrap(last - n - 1) ELSE 0

\* Frames presumed lost before a voice frame 1..4.
VoiceGap(n) ==
    IF last = 5 THEN IF n = 1 THEN 1 ELSE n - 1
    ELSE IF last # 0 /\ last # n - 1 THEN Wrap(n - last - 1) ELSE 0

\* LastPacketTime was set a few statements ago, so more than 60ms can only have
\* passed if the goroutine lost the processor in between.
Duplicate(f) ==
    /\ Repeated(f)
    /\ \/ total' = Wrap(total + 1) /\ lost' = lost
       \/ total' = Wrap(total + 6) /\ lost' = Wrap(lost + 1)
    /\ UNCHANGED <<last, hasHeader, hasTerm>>

Header(f) ==
    /\ ~Repeated(f)
    /\ IsHeader(f)
    /\ hasHeader' = TRUE
    /\ total' = Wrap(total + 1)
    /\ UNCHANGED <<last, hasTerm, lost>>

VoiceSync(f) ==
    /\ ~Repeated(f)
    /\ IsSync(f)
    /\ Count((IF hasHeader THEN 0 ELSE 1) + (5 - last))
    /\ last' = 0
    /\ UNCHANGED <<hasHeader, hasTerm>>

Voice(f) ==
    /\ ~Repeated(f)
    /\ IsVoice(f)
    /\ Count(VoiceGap(f.seq))
    /\ last' = f.seq
    /\ UNCHANGED <<hasHeader, hasTerm>>

\* Mutant of LastVoice: counts on to a seventh frame.
LastVoiceNext(f) ==
    /\ ~Repeated(f)
    /\ IsLastVoice(f)
    /\ Count(4 - last)
    /\ last' = f.seq + 1
    /\ UNCHANGED <<hasHeader, hasTerm>>

LastVoice(f) ==
    /\ ~Repeated(f)
    /\ IsLastVoice(f)
    /\ Count(4 - last)
    /\ last' = 5
    /\ UNCHANGED <<hasHeader, hasTerm>>

\* Mutant of Terminator: not counted itself.
TerminatorUncounted(f) ==
    /\ ~Repeated(f)
    /\ IsTerminator(f)
    /\ lost' = Wrap(lost + 5 - last)
    /\ total' = Wrap(total + 5 - last)
    /\ last' = 5
    /\ hasTerm' = TRUE
    /\ UNCHANGED hasHeader

Terminator(f) ==
    /\ ~Repeated(f)
    /\ IsTerminator(f)
    /\ Count(5 - last)
    /\ last' = 5
    /\ hasTerm' = TRUE
    /\ UNCHANGED hasHeader

\* Voice frames with another sequence number match no branch.
Unmatched(f) ==
    /\ ~Repeated(f)
    /\ ~(IsHeader(f) \/ IsSync(f) \/ IsVoice(f) \/ IsLastVoice(f) \/ IsTerminator(f))
    /\ UNCHANGED <<last, hasHeader, hasTerm, total, lost>>

\* One frame after the other: updateCall and EndCall lock nothing, and goroutines that
\* are at work on one call at the same time (call_tracker.go:333-348, 377-380, 436-455)
\* are out of scope here.  CallTracker has them, without the counts.
Hear(f) ==
    /\ open
    /\ frames < MaxFrames
    /\ frames' = frames + 1
    /\ UNCHANGED open
    /\ \/ Duplicate(f)
       \/ Header(f)
       \/ VoiceSync(f)
       \/ Voice(f)
       \/ LastVoice(f)
       \/ Terminator(f)
       \/ Unmatched(f)

----------------------------------------------------------------------------
(* The end of the call: EndCall from the terminator or the timer. *)

\* Mutant of EndGap: the terminator always presumed lost.
EndGapAlways == 1 + (5 - last)

\* Frames EndCall presumes lost: the terminator, and the rest of the superframe.
EndGap == (IF hasTerm THEN 0 ELSE 1) + (5 - last)

\* The divisor of call.Loss in EndCall.
Divisor == Wrap(total + EndGap)

EndCallTail ==
    /\ open
    /\ open' = FALSE
    /\ lost' = Wrap(lost + EndGap)
    /\ total' = Divisor
    /\ UNCHANGED <<last, hasHeader, hasTerm, frames>>

----------------------------------------------------------------------------
\* The call as StartCall creates it.
CountersInit ==
    /\ last = 5
    /\ hasHeader = FALSE
    /\ hasTerm = FALSE
    /\ total = 0
    /\ lost = 0
    /\ open = TRUE
    /\ frames = 0

CountersNext == (\E f \in Frame : Hear(f)) \/ EndCallTail

CountersSpec == CountersInit /\ [][CountersNext]_counters

----------------------------------------------------------------------------
(* Properties. *)

\* Every field keeps the range of its Go type (LastFrameNum only takes 0..5).
CountersTypeOK ==
    /\ last \in 0..5
    /\ hasHeader \in BOOLEAN
    /\ hasTerm \in BOOLEAN
    /\ total \in 0..(Modulus - 1)
    /\ lost \in 0..(Modulus - 1)
    /\ open \in BOOLEAN
    /\ frames \in 0..MaxFrames

\* EndCall divides the uint LostSequences by the uint TotalPackets, which panics
\* on zero.  No sequence of frames, reordered or repeated as it may be, leads to
\* a zero divisor, although TotalPackets itself can return to zero during a call.
DivisorNeverZero == open => Divisor # 0

\* TotalPackets is at most seven per frame heard (and six for EndCall): the
\* wrapped differences that reordered frames add to it cancel out and never make
\* TotalPackets itself wrap.
TotalNeverWraps == total <= 7 * frames + 6

\* TotalPackets counts the lost frames as well as those heard, so LostSequences
\* cannot exceed it and Loss is a ratio.  (Violated: the difference of a voice
\* frame number and a later LastFrameNum wraps around.)
LossIsARatio == lost <= total

\* The inductive invariant: a lower bound of TotalPackets for every position in
\* the superframe.  A step back from LastFrameNum 4 to 1 takes three off
\* TotalPackets, so only the sum with the position is stable.
TotalBound ==
    /\ last = 0 => total >= 2
    /\ last \in 1..4 => total >= last - 1
    /\ hasTerm /\ last = 5 => total >= 1
    /\ hasHeader /\ last = 5 => total >= 1
    /\ open => total <= 7 * frames

AccountingInv == CountersTypeOK /\ TotalNeverWraps /\ TotalBound
=============================================================================
