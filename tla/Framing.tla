------------------------------- MODULE Framing -------------------------------
(***************************************************************************)
(* The frame codec of quish-proto/src/lib.rs and the buffer its two        *)
(* readers keep.  A byte is a number; a frame is a big-endian length       *)
(* prefix and a body.  Two digits to a base stand for the four bytes of a  *)
(* u32: a prefix can still arrive in pieces, and can still name a length   *)
(* above the cap.  The postcard encoding inside a body is not opened.      *)
(***************************************************************************)
EXTENDS Integers, Sequences

CONSTANTS
  Base,       \* a length is two digits to this base
  MaxFrameLen \* MAX_FRAME_LEN

ASSUME FramingAssumption ==
  Base \in Nat \ {0} /\ MaxFrameLen \in Nat /\ MaxFrameLen < Base * Base

LenPrefix == 2

\* encode, whose callers keep to the cap.
encode(body) == <<Len(body) \div Base, Len(body) % Base>> \o body

\* The number in the prefix.
parse_len(buf) == buf[1] * Base + buf[2]

\* take_frame returns Some: a whole frame is buffered.
HasFrame(buf) ==
  /\ Len(buf) >= LenPrefix
  /\ parse_len(buf) <= MaxFrameLen
  /\ Len(buf) >= LenPrefix + parse_len(buf)

\* take_frame returns Err: the prefix exceeds the cap.
TooLarge(buf) == Len(buf) >= LenPrefix /\ parse_len(buf) > MaxFrameLen

\* The body take_frame splits off.
frame_body(buf) == SubSeq(buf, LenPrefix + 1, LenPrefix + parse_len(buf))

\* Mutant: the body is copied out and only the prefix dropped.
Mut_frame_rest(buf) == SubSeq(buf, LenPrefix + 1, Len(buf))

\* The tail it leaves.
frame_rest(buf) == SubSeq(buf, LenPrefix + parse_len(buf) + 1, Len(buf))
=============================================================================
