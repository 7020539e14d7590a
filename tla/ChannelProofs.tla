---------------------------- MODULE ChannelProofs ----------------------------
(***************************************************************************)
(* For every number of outputs, every length of input and every capacity   *)
(* of the four queues: a client that has the exit status has all of the    *)
(* output; while the client is there and the connection is up the process  *)
(* sees the end of its input only after all of it; and a client that has   *)
(* sent all of its input loses the exit status only to a lost connection   *)
(* or to a local output that cannot be written.                            *)
(***************************************************************************)
EXTENDS Channel, SequenceTheorems, TLAPS

-----------------------------------------------------------------------------
(* Types                                                                   *)

\* The constants as the leaves below use them.
LEMMA Constants ==
  /\ MaxInput \in Nat /\ MaxSignals \in Nat
  /\ FrameCap \in Nat /\ StdinCap \in Nat /\ OutCap \in Nat /\ DownCap \in Nat /\ SigCap \in Nat
  /\ "in" \notin Outputs /\ "exit" \notin Outputs /\ "none" \notin Outputs
BY ChannelAssumption

\* A queue with room stays within its capacity.
LEMMA Pushed ==
  ASSUME NEW S, NEW s \in Seq(S), NEW e \in S, NEW cap \in Nat, Len(s) < cap
  PROVE  Append(s, e) \in Seq(S) /\ Len(Append(s, e)) <= cap
BY AppendProperties, LenProperties

\* What is left of a stream that was torn down.
LEMMA PrefixTyped ==
  ASSUME NEW S, NEW s \in Seq(S), NEW t \in Prefixes(s)
  PROVE  /\ t \in Seq(S) /\ Len(t) <= Len(s) /\ Len(t) \in Nat /\ Len(s) \in Nat
         /\ \A k \in 1..Len(t) : t[k] = s[k]
<1>1. PICK n \in 0..Len(s) : t = SubSeq(s, 1, n)
  BY DEF Prefixes
<1>2. Len(s) \in Nat /\ \A k \in 1..n : s[k] \in S
  BY <1>1, LenProperties, ElementOfSeq
<1>3. /\ t \in Seq(S) /\ Len(t) = n
      /\ \A k \in 1..n : t[k] = s[k]
  BY <1>1, <1>2
<1> QED
  BY <1>1, <1>2, <1>3

\* What the pump holds while it waits for a write.
HeldItem ==
  /\ pump = "client" => p_item \in Frames
  /\ pump \in {"stdin", "sig"} => p_item \in InFrames

\* Type correctness of both pumps, the stream and the process.
THEOREM ChannelTyped == ChannelSpec => [](ChannelTypeOK /\ HeldItem)
<1> USE Constants DEF terminal_vars, stream_vars, pump_vars, child_vars
<1>1. ChannelInit => ChannelTypeOK /\ HeldItem
  BY DEF ChannelInit, ChannelTypeOK, HeldItem, Items, PumpStates
<1>2. ChannelTypeOK /\ HeldItem /\ [ChannelNext]_channel_vars => ChannelTypeOK' /\ HeldItem'
  <2> SUFFICES ASSUME ChannelTypeOK, HeldItem, [ChannelNext]_channel_vars
               PROVE  ChannelTypeOK' /\ HeldItem'
    OBVIOUS
  <2>1. CASE ClientTakesStdin
    BY <2>1 DEF ChannelTypeOK, HeldItem, ClientTakesStdin, Items
  <2>2. CASE ClientStdinEof
    BY <2>2 DEF ChannelTypeOK, HeldItem, ClientStdinEof
  <2>3. CASE TerminalSends
    BY <2>3 DEF ChannelTypeOK, HeldItem, TerminalSends
  <2>4. CASE TerminalSendFails
    BY <2>4 DEF ChannelTypeOK, HeldItem, TerminalSendFails
  <2>5. CASE ClientReceives
    <3>1. Head(down) \in Frames \cup {ExitFrame} /\ Tail(down) \in Seq(Frames \cup {ExitFrame})
          /\ Len(Tail(down)) <= DownCap
      BY <2>5 DEF ChannelTypeOK, ClientReceives
    <3>2. got' \in [Outputs -> Seq(Items)]
      <4>1. CASE Head(down) = ExitFrame
        BY <2>5, <4>1 DEF ChannelTypeOK, ClientReceives
      <4>2. CASE Head(down) # ExitFrame
        <5>1. Head(down).kind \in Outputs /\ Head(down).chunk \in Items
          BY <3>1, <4>2 DEF Frames
        <5>2. got' = [got EXCEPT ![Head(down).kind] = Append(@, Head(down).chunk)]
          BY <2>5, <4>2 DEF ClientReceives
        <5> QED
          BY <5>1, <5>2 DEF ChannelTypeOK
      <4> QED
        BY <4>1, <4>2
    <3>3. terminal' \in {"select", "sending", "exited", "killed"}
          /\ ending' \in {"none", "status", "lost", "error", "broken"}
      BY <2>5 DEF ChannelTypeOK, ClientReceives
    <3> QED
      BY <2>5, <3>1, <3>2, <3>3 DEF ChannelTypeOK, HeldItem, ClientReceives
  <2>6. CASE ClientLosesStream
    BY <2>6 DEF ChannelTypeOK, HeldItem, ClientLosesStream
  <2>7. CASE ClientSignal
    BY <2>7 DEF ChannelTypeOK, HeldItem, ClientSignal, Items
  <2>8. CASE TerminalKilled \/ ClientWriteFails
    <3>1. up' \in Seq(Items) /\ Len(up') <= FrameCap
      BY <2>8, PrefixTyped DEF ChannelTypeOK, TerminalKilled, ClientWriteFails
    <3>2. down' \in Seq(Frames \cup {ExitFrame}) /\ Len(down') <= DownCap
      <4>1. down' = <<>>
        BY <2>8 DEF TerminalKilled, ClientWriteFails
      <4> QED
        BY <4>1, EmptySeq
    <3>3. CASE TerminalKilled
      BY <3>1, <3>2, <3>3 DEF ChannelTypeOK, HeldItem, TerminalKilled
    <3>4. CASE ClientWriteFails
      BY <3>1, <3>2, <3>4 DEF ChannelTypeOK, HeldItem, ClientWriteFails
    <3> QED
      BY <2>8, <3>3, <3>4
  <2>9. CASE PumpTakesFrame
    <3>1. Head(up) \in Items /\ Tail(up) \in Seq(Items) /\ Len(Tail(up)) <= FrameCap
      BY <2>9 DEF ChannelTypeOK, PumpTakesFrame
    <3> QED
      BY <2>9, <3>1 DEF ChannelTypeOK, HeldItem, PumpTakesFrame, InFrames, PumpStates
  <2>10. CASE PumpFramesEnd
    BY <2>10 DEF ChannelTypeOK, HeldItem, PumpFramesEnd
  <2>11. CASE PumpWritesStdin
    <3>1. p_item.chunk \in Items
      BY <2>11 DEF HeldItem, InFrames, PumpWritesStdin
    <3>2. stdin' \in Seq(Items) /\ Len(stdin') <= StdinCap
      <4>1. \/ stdin' = stdin
            \/ stdin' = Append(stdin, p_item.chunk) /\ Len(stdin) < StdinCap
        BY <2>11 DEF PumpWritesStdin
      <4>2. stdin \in Seq(Items) /\ Len(stdin) <= StdinCap
        BY DEF ChannelTypeOK
      <4>3. Len(stdin) < StdinCap => /\ Append(stdin, p_item.chunk) \in Seq(Items)
                                  /\ Len(Append(stdin, p_item.chunk)) <= StdinCap
        BY <3>1, <4>2, Pushed
      <4> QED
        BY <4>1, <4>2, <4>3
    <3> QED
      BY <2>11, <3>2 DEF ChannelTypeOK, HeldItem, PumpWritesStdin, PumpStates
  <2>12. CASE PumpQueuesSignal
    BY <2>12 DEF ChannelTypeOK, HeldItem, PumpQueuesSignal, PumpStates
  <2>13. CASE PumpSends
    <3>1. p_item \in Frames
      BY <2>13 DEF HeldItem, PumpSends
    <3>2. down' \in Seq(Frames \cup {ExitFrame}) /\ Len(down') <= DownCap
      <4>1. \/ down' = down
            \/ down' = Append(down, p_item) /\ Len(down) < DownCap
        BY <2>13 DEF PumpSends
      <4>2. down \in Seq(Frames \cup {ExitFrame}) /\ Len(down) <= DownCap
        BY DEF ChannelTypeOK
      <4>3. Len(down) < DownCap => /\ Append(down, p_item) \in Seq(Frames \cup {ExitFrame})
                                   /\ Len(Append(down, p_item)) <= DownCap
        BY <3>1, <4>2, Pushed
      <4> QED
        BY <4>1, <4>2, <4>3
    <3> QED
      BY <2>13, <3>2 DEF ChannelTypeOK, HeldItem, PumpSends, PumpStates
  <2>14. CASE Finish
    <3>1. down' \in Seq(Frames \cup {ExitFrame}) /\ Len(down') <= DownCap
      <4>1. \/ down' = down
            \/ down' = Append(down, ExitFrame) /\ Len(down) < DownCap
        BY <2>14 DEF Finish
      <4>2. down \in Seq(Frames \cup {ExitFrame}) /\ Len(down) <= DownCap
        BY DEF ChannelTypeOK
      <4>3. Len(down) < DownCap => /\ Append(down, ExitFrame) \in Seq(Frames \cup {ExitFrame})
                                   /\ Len(Append(down, ExitFrame)) <= DownCap
        BY <4>2, Pushed
      <4> QED
        BY <4>1, <4>2, <4>3
    <3> QED
      BY <2>14, <3>1 DEF ChannelTypeOK, HeldItem, Finish, PumpStates
  <2>15. ASSUME NEW o \in Outputs, PumpTakesOutput(o) PROVE ChannelTypeOK' /\ HeldItem'
    <3>1. /\ Head(out[o]) \in Items /\ Tail(out[o]) \in Seq(Items)
          /\ Len(Tail(out[o])) <= OutCap
      BY <2>15 DEF ChannelTypeOK, PumpTakesOutput
    <3>2. /\ out' \in [Outputs -> Seq(Items)]
          /\ \A q \in Outputs : Len(out'[q]) <= OutCap
      BY <2>15, <3>1 DEF ChannelTypeOK, PumpTakesOutput
    <3>3. p_item' \in Frames
      BY <2>15, <3>1 DEF PumpTakesOutput, Frames
    <3> QED
      BY <2>15, <3>2, <3>3 DEF ChannelTypeOK, HeldItem, PumpTakesOutput, PumpStates
  <2>16. ASSUME NEW o \in Outputs, PumpOutputEnds(o) PROVE ChannelTypeOK' /\ HeldItem'
    BY <2>16 DEF ChannelTypeOK, HeldItem, PumpOutputEnds, PumpStates
  <2>17. CASE DrainSignal
    BY <2>17 DEF ChannelTypeOK, HeldItem, DrainSignal
  <2>18. CASE ConnectionLost
    <3>1. up' \in Seq(Items) /\ Len(up') <= FrameCap
      BY <2>18, PrefixTyped DEF ChannelTypeOK, ConnectionLost
    <3>2. down' \in Seq(Frames \cup {ExitFrame}) /\ Len(down') <= DownCap
      BY <2>18, PrefixTyped DEF ChannelTypeOK, ConnectionLost
    <3> QED
      BY <2>18, <3>1, <3>2 DEF ChannelTypeOK, HeldItem, ConnectionLost
  <2>19. ASSUME NEW o \in Outputs, ChildCopies(o) PROVE ChannelTypeOK' /\ HeldItem'
    <3>1. Head(stdin) \in Items /\ Tail(stdin) \in Seq(Items) /\ Len(Tail(stdin)) <= StdinCap
      BY <2>19 DEF ChannelTypeOK, ChildCopies
    <3>2. /\ out' \in [Outputs -> Seq(Items)]
          /\ \A q \in Outputs : Len(out'[q]) <= OutCap
      BY <2>19, <3>1 DEF ChannelTypeOK, ChildCopies
    <3>3. produced' \in [Outputs -> Seq(Items)] /\ eaten' \in Seq(Items)
      BY <2>19, <3>1 DEF ChannelTypeOK, ChildCopies
    <3> QED
      BY <2>19, <3>1, <3>2, <3>3 DEF ChannelTypeOK, HeldItem, ChildCopies
  <2>20. CASE ChildEof \/ ChildDies
    <3>1. stdin' \in Seq(Items) /\ Len(stdin') <= StdinCap
      <4>1. stdin' = stdin \/ stdin' = <<>>
        BY <2>20 DEF ChildEof, ChildDies
      <4>2. stdin \in Seq(Items) /\ Len(stdin) <= StdinCap
        BY DEF ChannelTypeOK
      <4>3. <<>> \in Seq(Items) /\ Len(<<>>) <= StdinCap
        BY EmptySeq
      <4> QED
        BY <4>1, <4>2, <4>3
    <3>2. CASE ChildEof
      BY <3>1, <3>2 DEF ChannelTypeOK, HeldItem, ChildEof
    <3>3. CASE ChildDies
      BY <3>1, <3>3 DEF ChannelTypeOK, HeldItem, ChildDies
    <3> QED
      BY <2>20, <3>2, <3>3
  <2>21. CASE UNCHANGED channel_vars
    BY <2>21 DEF ChannelTypeOK, HeldItem, channel_vars
  <2> QED
    BY <2>1, <2>2, <2>3, <2>4, <2>5, <2>6, <2>7, <2>8, <2>9, <2>10, <2>11, <2>12,
       <2>13, <2>14, <2>15, <2>16, <2>17, <2>18, <2>19, <2>20, <2>21
       DEF ChannelNext, TerminalStep, PumpStep, ChildStep
<1> QED
  BY <1>1, <1>2, PTL DEF ChannelSpec

-----------------------------------------------------------------------------
(* How the channel ends                                                    *)

\* Where the two pumps can be with respect to each other and to the process.
Phases ==
  /\ terminal = "sending" => stdin_done = "no"
  /\ down_fin = "yes" => pump = "finished"
  /\ pump \in {"gone", "failed"} => Unreachable
  /\ pump \in {"stdin", "sig"} => frames_done = "no"
  /\ frames_done = "yes" /\ ~Unreachable => stdin_done = "yes"
  /\ pump = "drained" => done = Outputs
  /\ \A o \in done : out[o] = <<>> /\ child = "exited"

\* The ExitStatus is the last frame of the stream and is sent once every
\* output has ended; a pump that has finished with the client still in reach has
\* sent it.
ExitLast ==
  /\ \A k \in 1..Len(down) :
       down[k] = ExitFrame => k = Len(down) /\ pump = "finished" /\ done = Outputs
  /\ pump = "finished" /\ ~Unreachable => down # <<>> /\ down[Len(down)] = ExitFrame

\* The inductive invariant of ExitCodeReturned.
Ending == Phases /\ ExitLast /\ ExitCodeReturned

\* Steps that leave the stream towards the client alone and finish nothing.
LEMMA ExitLastStable ==
  ASSUME ExitLast, down' = down, done' = done,
         pump' = "finished" <=> pump = "finished",
         Unreachable => Unreachable'
  PROVE  ExitLast'
BY DEF ExitLast

LEMMA ClientEnding ==
  ASSUME ChannelTypeOK, HeldItem, Ending,
         \/ ClientTakesStdin \/ ClientStdinEof \/ TerminalSends \/ TerminalSendFails
         \/ ClientLosesStream \/ ClientSignal
  PROVE  Ending'
<1> USE DEF terminal_vars, stream_vars, pump_vars, child_vars
<1>1. ExitLast'
  <2>1. /\ UNCHANGED <<down, pump, done>>
        /\ Unreachable => Unreachable'
    BY DEF ClientTakesStdin, ClientStdinEof, TerminalSends, TerminalSendFails,
           ClientLosesStream, ClientSignal, ClientGone, Unreachable
  <2> QED
    BY <2>1, ExitLastStable DEF Ending
<1>2. CASE ClientTakesStdin \/ ClientStdinEof \/ TerminalSends \/ ClientSignal
  BY <1>1, <1>2
     DEF Ending, Phases, ExitCodeReturned, ClientGone, Unreachable, ClientTakesStdin,
         ClientStdinEof, TerminalSends, ClientSignal
<1>3. CASE TerminalSendFails
  BY <1>1, <1>3 DEF Ending, Phases, ExitCodeReturned, ClientGone, Unreachable, TerminalSendFails
<1>4. CASE ClientLosesStream
  <2>1. link = "lost"
    BY <1>4 DEF Ending, Phases, ExitLast, ClientGone, Unreachable, ClientLosesStream
  <2> QED
    BY <1>1, <1>4, <2>1
       DEF Ending, Phases, ExitCodeReturned, ClientGone, Unreachable, ClientLosesStream
<1> QED
  BY <1>2, <1>3, <1>4

LEMMA ReceiveEnding ==
  ASSUME ChannelTypeOK, HeldItem, Ending, ClientReceives
  PROVE  Ending'
<1> USE DEF terminal_vars, stream_vars, pump_vars, child_vars
<1>0. /\ UNCHANGED <<stdin_done, down_fin, link, pump, frames_done, done, out, child>>
      /\ terminal = "select" /\ down # <<>> /\ down' = Tail(down)
  BY DEF ClientReceives
<1>1. /\ Len(down) \in Nat /\ Len(down) >= 1 /\ Len(down') = Len(down) - 1
      /\ Head(down) = down[1]
      /\ \A k \in 1..Len(down') : down'[k] = down[k + 1]
  BY <1>0, EmptySeq, LenProperties, HeadTailProperties DEF ChannelTypeOK
<1>2. CASE Head(down) = ExitFrame
  <2>1. pump = "finished" /\ Len(down) = 1 /\ terminal' = "exited" /\ ending' = "status"
    <3>1. 1 \in 1..Len(down) /\ down[1] = ExitFrame
      BY <1>1, <1>2
    <3>2. pump = "finished" /\ Len(down) = 1
      BY <3>1 DEF Ending, ExitLast
    <3>3. terminal' = "exited" /\ ending' = "status"
      BY <1>2 DEF ClientReceives
    <3> QED
      BY <3>2, <3>3
  <2>2. ExitLast'
    BY <1>0, <1>1, <2>1 DEF ExitLast, ClientGone, Unreachable
  <2>3. Phases'
    BY <1>0, <2>1 DEF Ending, Phases, ClientGone, Unreachable
  <2> QED
    BY <2>1, <2>2, <2>3 DEF Ending, ExitCodeReturned
<1>3. CASE Head(down) # ExitFrame
  <2>1. UNCHANGED <<terminal, ending>>
    BY <1>3 DEF ClientReceives
  <2>2. ExitLast'
    <3>1. \A k \in 1..Len(down') : down'[k] = ExitFrame =>
            k = Len(down') /\ pump = "finished" /\ done = Outputs
      BY <1>1 DEF Ending, ExitLast
    <3>2. ASSUME pump = "finished", ~Unreachable
          PROVE  down' # <<>> /\ down'[Len(down')] = ExitFrame
      <4>1. down[Len(down)] = ExitFrame
        BY <1>0, <3>2 DEF Ending, ExitLast
      <4>2. Len(down') >= 1 /\ Len(down') \in 1..Len(down') /\ Len(down') + 1 = Len(down)
        BY <1>1, <1>3, <4>1
      <4> QED
        BY <1>1, <4>1, <4>2
    <3> QED
      BY <1>0, <2>1, <3>1, <3>2 DEF ExitLast, ClientGone, Unreachable
  <2> QED
    BY <1>0, <2>1, <2>2 DEF Ending, Phases, ExitCodeReturned, ClientGone, Unreachable
<1> QED
  BY <1>2, <1>3

LEMMA KilledEnding ==
  ASSUME ChannelTypeOK, HeldItem, Ending, TerminalKilled \/ ClientWriteFails
  PROVE  Ending'
<1> USE DEF terminal_vars, stream_vars, pump_vars, child_vars
<1>0. /\ UNCHANGED <<stdin_done, down_fin, link, pump, frames_done, done, out, child>>
      /\ down' = <<>> /\ ClientGone'
      /\ terminal' = "killed" \/ ending' = "broken"
      /\ terminal' # "sending"
  BY DEF TerminalKilled, ClientWriteFails, ClientGone
<1>1. ExitLast'
  BY <1>0 DEF ExitLast, Unreachable
<1>2. Phases' /\ ExitCodeReturned'
  BY <1>0 DEF Ending, Phases, ExitCodeReturned, Unreachable
<1> QED
  BY <1>1, <1>2 DEF Ending

\* Losing the connection cuts the stream: the ExitStatus is still last in it.
LEMMA LostEnding ==
  ASSUME ChannelTypeOK, HeldItem, Ending, ConnectionLost
  PROVE  Ending'
<1> USE DEF terminal_vars, stream_vars, pump_vars, child_vars
<1>0. /\ UNCHANGED <<terminal, ending, stdin_done, down_fin, pump, frames_done, done, out, child>>
      /\ link' = "lost" /\ down' \in Prefixes(down)
  BY DEF ConnectionLost
<1>1. /\ Len(down') <= Len(down) /\ Len(down') \in Nat /\ Len(down) \in Nat
      /\ \A k \in 1..Len(down') : down'[k] = down[k]
  BY <1>0, PrefixTyped DEF ChannelTypeOK
<1>2. ExitLast'
  BY <1>0, <1>1 DEF Ending, ExitLast, Unreachable
<1>3. Phases' /\ ExitCodeReturned'
  BY <1>0 DEF Ending, Phases, ExitCodeReturned, ClientGone, Unreachable
<1> QED
  BY <1>2, <1>3 DEF Ending

LEMMA PumpEnding ==
  ASSUME ChannelTypeOK, HeldItem, Ending,
         \/ PumpTakesFrame \/ PumpFramesEnd \/ PumpWritesStdin \/ PumpQueuesSignal
         \/ DrainSignal
         \/ \E o \in Outputs : PumpTakesOutput(o)
  PROVE  Ending'
<1> USE DEF terminal_vars, stream_vars, pump_vars, child_vars
<1>1. ExitLast'
  <2>1. /\ UNCHANGED <<down, done, terminal, link>>
        /\ pump' = "finished" <=> pump = "finished"
    BY DEF PumpTakesFrame, PumpFramesEnd, PumpWritesStdin, PumpQueuesSignal, DrainSignal,
           PumpTakesOutput
  <2> QED
    BY <2>1, ExitLastStable DEF Ending, ClientGone, Unreachable
<1>2. CASE PumpTakesFrame \/ PumpWritesStdin \/ PumpQueuesSignal \/ DrainSignal
  BY <1>1, <1>2
     DEF Ending, Phases, ExitCodeReturned, ClientGone, Unreachable, PumpTakesFrame,
         PumpWritesStdin, PumpQueuesSignal, DrainSignal
<1>3. CASE PumpFramesEnd
  BY <1>1, <1>3 DEF Ending, Phases, ExitCodeReturned, ClientGone, Unreachable, PumpFramesEnd
<1>5. ASSUME NEW o \in Outputs, PumpTakesOutput(o) PROVE Ending'
  <2>1. \A q \in done : out'[q] = out[q]
    BY <1>5 DEF PumpTakesOutput, ChannelTypeOK
  <2> QED
    BY <1>1, <1>5, <2>1
       DEF Ending, Phases, ExitCodeReturned, ClientGone, Unreachable, PumpTakesOutput
<1> QED
  BY <1>2, <1>3, <1>5

LEMMA SendEnding ==
  ASSUME ChannelTypeOK, HeldItem, Ending, PumpSends
  PROVE  Ending'
<1> USE DEF terminal_vars, stream_vars, pump_vars, child_vars
<1>0. /\ pump = "client"
      /\ UNCHANGED <<terminal, ending, stdin_done, down_fin, link, frames_done, done, out, child>>
  BY DEF PumpSends, Ending, Phases
<1>1. Phases' /\ ExitCodeReturned'
  BY <1>0 DEF PumpSends, Ending, Phases, ExitCodeReturned, ClientGone, Unreachable
<1>2. \A k \in 1..Len(down) : down[k] # ExitFrame
  BY <1>0 DEF Ending, ExitLast
<1>3. p_item \in Frames /\ p_item # ExitFrame
  BY <1>0, Constants DEF HeldItem, Frames, ExitFrame
<1>4. \A k \in 1..Len(down') : down'[k] # ExitFrame
  <2>1. CASE down' = down
    BY <1>2, <2>1
  <2>2. CASE down' = Append(down, p_item)
    <3>1. /\ Len(down') = Len(down) + 1 /\ Len(down) \in Nat
          /\ \A k \in 1..Len(down) : down'[k] = down[k]
          /\ down'[Len(down) + 1] = p_item
      BY <1>3, <2>2, AppendProperties, LenProperties DEF ChannelTypeOK
    <3> QED
      BY <3>1, <1>2, <1>3
  <2> QED
    BY <2>1, <2>2 DEF PumpSends
<1>5. pump' # "finished"
  BY DEF PumpSends
<1> QED
  BY <1>1, <1>4, <1>5 DEF Ending, ExitLast

LEMMA OutputEndsEnding ==
  ASSUME ChannelTypeOK, HeldItem, Ending, NEW o \in Outputs, PumpOutputEnds(o)
  PROVE  Ending'
<1> USE DEF terminal_vars, stream_vars, pump_vars, child_vars
<1>1. \A k \in 1..Len(down) : down[k] # ExitFrame
  BY DEF PumpOutputEnds, Ending, ExitLast
<1>2. ExitLast'
  BY <1>1 DEF PumpOutputEnds, ExitLast
<1>3. Phases' /\ ExitCodeReturned'
  BY DEF PumpOutputEnds, Ending, Phases, ExitCodeReturned, ClientGone, Unreachable
<1> QED
  BY <1>2, <1>3 DEF Ending

LEMMA FinishEnding ==
  ASSUME ChannelTypeOK, HeldItem, Ending, Finish
  PROVE  Ending'
<1> USE DEF terminal_vars, stream_vars, pump_vars, child_vars
<1>0. /\ UNCHANGED <<terminal, ending, stdin_done, link, frames_done, done, out, child>>
      /\ pump' = "finished" /\ pump \in {"drained", "gone", "failed"}
  BY DEF Finish
<1>1. Phases' /\ ExitCodeReturned'
  BY <1>0 DEF Ending, Phases, ExitCodeReturned, ClientGone, Unreachable
<1>2. \A k \in 1..Len(down) : down[k] # ExitFrame
  BY <1>0 DEF Ending, ExitLast
<1>3. CASE down' = down /\ Unreachable
  BY <1>0, <1>1, <1>2, <1>3 DEF Ending, ExitLast, ClientGone, Unreachable
<1>4. CASE down' = Append(down, ExitFrame) /\ pump = "drained"
  <2>1. /\ Len(down') = Len(down) + 1 /\ Len(down) \in Nat /\ down' # <<>>
        /\ \A k \in 1..Len(down) : down'[k] = down[k]
        /\ down'[Len(down) + 1] = ExitFrame
    BY <1>4, AppendProperties, LenProperties DEF ChannelTypeOK
  <2>2. done = Outputs
    BY <1>4 DEF Ending, Phases
  <2> QED
    BY <1>0, <1>1, <1>2, <2>1, <2>2 DEF Ending, ExitLast
<1> QED
  BY <1>1, <1>3, <1>4 DEF Finish, Ending, Phases

LEMMA ChildEnding ==
  ASSUME ChannelTypeOK, HeldItem, Ending,
         ChildEof \/ ChildDies \/ \E o \in Outputs : ChildCopies(o)
  PROVE  Ending'
<1> USE DEF terminal_vars, stream_vars, pump_vars, child_vars
<1>1. ExitLast'
  <2>1. UNCHANGED <<down, done, terminal, link, pump>>
    BY DEF ChildEof, ChildDies, ChildCopies
  <2> QED
    BY <2>1, ExitLastStable DEF Ending, ClientGone, Unreachable
<1>2. Phases' /\ ExitCodeReturned'
  <2>1. CASE ChildEof \/ ChildDies
    BY <2>1 DEF ChildEof, ChildDies, Ending, Phases, ExitCodeReturned, ClientGone, Unreachable
  <2>2. ASSUME NEW o \in Outputs, ChildCopies(o) PROVE Phases' /\ ExitCodeReturned'
    <3>1. done = {}
      BY <2>2 DEF ChildCopies, Ending, Phases
    <3> QED
      BY <2>2, <3>1 DEF ChildCopies, Ending, Phases, ExitCodeReturned, ClientGone, Unreachable
  <2> QED
    BY <2>1, <2>2
<1> QED
  BY <1>1, <1>2 DEF Ending

\* The phases hold and the ExitStatus comes last.
LEMMA EndingHolds == ChannelSpec => []Ending
<1>1. ChannelInit => Ending
  BY Constants DEF ChannelInit, Ending, Phases, ExitLast, ExitCodeReturned, ClientGone, Unreachable
<1>2. ChannelTypeOK /\ HeldItem /\ Ending /\ [ChannelNext]_channel_vars => Ending'
  <2> SUFFICES ASSUME ChannelTypeOK, HeldItem, Ending, [ChannelNext]_channel_vars PROVE Ending'
    OBVIOUS
  <2>1. CASE TerminalStep \/ ClientSignal \/ ClientWriteFails \/ TerminalKilled
    BY <2>1, ClientEnding, ReceiveEnding, KilledEnding DEF TerminalStep
  <2>2. CASE PumpStep \/ DrainSignal \/ ConnectionLost
    BY <2>2, PumpEnding, SendEnding, OutputEndsEnding, FinishEnding, LostEnding DEF PumpStep
  <2>3. CASE ChildStep \/ ChildDies
    BY <2>3, ChildEnding DEF ChildStep
  <2>4. CASE UNCHANGED channel_vars
    BY <2>4 DEF channel_vars, terminal_vars, stream_vars, pump_vars, child_vars, Ending, Phases,
                ExitLast, ExitCodeReturned, ClientGone, Unreachable
  <2> QED
    BY <2>1, <2>2, <2>3, <2>4 DEF ChannelNext
<1> QED
  BY <1>1, <1>2, ChannelTyped, PTL DEF ChannelSpec

\* A client that has sent all of its input gets the exit code unless the
\* connection is lost or its own output cannot be written: neither the FIN, nor
\* the last output, nor the end of the process can overtake the ExitStatus.
THEOREM ExitCodeHolds == ChannelSpec => []ExitCodeReturned
<1>1. Ending => ExitCodeReturned
  BY DEF Ending
<1> QED
  BY <1>1, EndingHolds, PTL

-----------------------------------------------------------------------------
(* All of the output                                                       *)

\* f[k] is what the client will have written out of output o once it has read
\* k frames of q.
Replay(f, o, q) ==
  /\ f \in [0..Len(q) -> Seq(Items)]
  /\ \A k \in 1..Len(q) :
       f[k] = IF q[k].kind = o THEN Append(f[k - 1], q[k].chunk) ELSE f[k - 1]

\* What the process wrote to o that is not on the stream yet.
Held(o) ==
  IF pump = "client" /\ p_item.kind = o THEN <<p_item.chunk>> \o out[o] ELSE out[o]

\* Reading all of the stream, then the pump's frame, then the process's pipe
\* gives everything that the process has written to o.
Whole(o) ==
  \E f : Replay(f, o, down) /\ f[0] = got[o] /\ f[Len(down)] \o Held(o) = produced[o]

\* The client can still come to the exit status.
Readable ==
  ~ClientGone /\ (link = "up" \/ (down # <<>> /\ down[Len(down)] = ExitFrame))

\* As long as that is so nothing of the output is missing; the status is read
\* with nothing left to read, and after it the process writes no more.
Delivery ==
  /\ Readable => \A o \in Outputs : Whole(o)
  /\ ending = "status" => /\ terminal = "exited" /\ child = "exited"
                          /\ \A o \in Outputs : got[o] = produced[o]

\* Three facts about sequences.
LEMMA HeadTailJoin ==
  ASSUME NEW S, NEW s \in Seq(S), s # <<>>
  PROVE  <<Head(s)>> \o Tail(s) = s
<1>1. Head(s) \in S /\ Tail(s) \in Seq(S) /\ Len(Tail(s)) = Len(s) - 1 /\ Head(s) = s[1]
      /\ Len(s) \in Nat /\ \A i \in 1..Len(Tail(s)) : Tail(s)[i] = s[i + 1]
  BY HeadTailProperties, LenProperties
<1> DEFINE h == <<Head(s)>>
<1>2. h \in Seq(S) /\ Len(h) = 1 /\ h[1] = s[1]
  BY <1>1
<1> HIDE DEF h
<1>3. /\ h \o Tail(s) \in Seq(S) /\ Len(h \o Tail(s)) = Len(s)
      /\ \A i \in 1..Len(s) : (h \o Tail(s))[i] = IF i <= 1 THEN h[i] ELSE Tail(s)[i - 1]
  <2> DEFINE t == Tail(s)
  <2>1. t \in Seq(S) /\ Len(h) + Len(t) = Len(s) /\ Len(h) = 1
    BY <1>1, <1>2
  <2> HIDE DEF t
  <2>2. /\ h \o t \in Seq(S) /\ Len(h \o t) = Len(h) + Len(t)
        /\ \A i \in 1..(Len(h) + Len(t)) :
             (h \o t)[i] = IF i <= Len(h) THEN h[i] ELSE t[i - Len(h)]
    BY <1>2, <2>1, ConcatProperties
  <2> QED
    BY <2>1, <2>2 DEF t
<1>4. ASSUME NEW i \in 1..Len(s) PROVE (h \o Tail(s))[i] = s[i]
  <2>1. CASE i = 1
    BY <1>2, <1>3, <2>1
  <2>2. CASE i # 1
    <3>1. i - 1 \in 1..Len(Tail(s)) /\ (i - 1) + 1 = i /\ ~(i <= 1)
      BY <1>1, <2>2
    <3>2. Tail(s)[i - 1] = s[(i - 1) + 1]
      BY <1>1, <3>1
    <3> QED
      BY <1>3, <3>1, <3>2
  <2> QED
    BY <2>1, <2>2
<1>5. h \o Tail(s) = s
  BY <1>3, <1>4, SeqEqual
<1> QED
  BY <1>5 DEF h

LEMMA AppendRight ==
  ASSUME NEW S, NEW s \in Seq(S), NEW t \in Seq(S), NEW e \in S
  PROVE  s \o Append(t, e) = Append(s \o t, e)
<1>1. <<e>> \in Seq(S) /\ s \o t \in Seq(S)
  BY ConcatProperties
<1>2. Append(t, e) = t \o <<e>> /\ Append(s \o t, e) = (s \o t) \o <<e>>
  BY <1>1, AppendIsConcat
<1> QED
  BY <1>1, <1>2, ConcatAssociative

LEMMA AppendLeft ==
  ASSUME NEW S, NEW s \in Seq(S), NEW t \in Seq(S), NEW e \in S
  PROVE  Append(s, e) \o t = s \o (<<e>> \o t)
<1>1. <<e>> \in Seq(S)
  OBVIOUS
<1>2. Append(s, e) = s \o <<e>>
  BY AppendIsConcat
<1> QED
  BY <1>1, <1>2, ConcatAssociative

\* What the client ends up with is a sequence of chunks.
LEMMA ReplayEnd ==
  ASSUME NEW o, NEW q \in Seq(Frames \cup {ExitFrame}), NEW f, Replay(f, o, q)
  PROVE  f[Len(q)] \in Seq(Items)
<1>1. Len(q) \in 0..Len(q)
  BY LenProperties
<1> QED
  BY <1>1 DEF Replay

\* One more frame on the stream.
LEMMA ReplayAppend ==
  ASSUME NEW o \in Outputs, NEW q \in Seq(Frames \cup {ExitFrame}),
         NEW fr \in Frames \cup {ExitFrame}, NEW f, Replay(f, o, q)
  PROVE  \E g : /\ Replay(g, o, Append(q, fr)) /\ g[0] = f[0]
                /\ g[Len(q) + 1] = IF fr.kind = o THEN Append(f[Len(q)], fr.chunk)
                                   ELSE f[Len(q)]
<1> DEFINE n == Len(q)
           r == Append(q, fr)
           top == IF fr.kind = o THEN Append(f[n], fr.chunk) ELSE f[n]
           g == [k \in 0..(n + 1) |-> IF k <= n THEN f[k] ELSE top]
<1>1. /\ n \in Nat /\ Len(r) = n + 1 /\ r[n + 1] = fr
      /\ \A k \in 1..n : r[k] = q[k]
  BY LenProperties, AppendProperties
<1>2. f \in [0..n -> Seq(Items)]
  BY DEF Replay
<1>3. top \in Seq(Items)
  <2>1. fr.kind = o => fr.chunk \in Items
    BY Constants DEF Frames, ExitFrame
  <2>2. f[n] \in Seq(Items)
    BY <1>1, <1>2
  <2> QED
    BY <2>1, <2>2, AppendProperties
<1> HIDE DEF n, r, top
<1>4. g \in [0..(n + 1) -> Seq(Items)]
  BY <1>1, <1>2, <1>3
<1>5. /\ g[0] = f[0] /\ g[n + 1] = top /\ g[n] = f[n]
      /\ \A k \in 1..n : g[k] = f[k] /\ g[k - 1] = f[k - 1]
  BY <1>1
<1> HIDE DEF g
<1>6. \A k \in 1..n : g[k] = IF r[k].kind = o THEN Append(g[k - 1], r[k].chunk) ELSE g[k - 1]
  <2>1. \A k \in 1..n : f[k] = IF q[k].kind = o THEN Append(f[k - 1], q[k].chunk) ELSE f[k - 1]
    BY DEF Replay, n
  <2> QED
    BY <2>1, <1>1, <1>5
<1>7. g[n + 1] = IF r[n + 1].kind = o THEN Append(g[n], r[n + 1].chunk) ELSE g[n]
  BY <1>1, <1>5 DEF top
<1>8. Replay(g, o, r)
  <2>1. \A k \in 1..Len(r) : k \in 1..n \/ (k = n + 1 /\ k - 1 = n)
    BY <1>1
  <2> QED
    BY <1>1, <1>4, <1>6, <1>7, <2>1 DEF Replay
<1> QED
  BY <1>5, <1>8 DEF n, r, top

\* One frame less.
LEMMA ReplayTail ==
  ASSUME NEW o \in Outputs, NEW q \in Seq(Frames \cup {ExitFrame}), q # <<>>,
         NEW f, Replay(f, o, q)
  PROVE  \E g : /\ Replay(g, o, Tail(q)) /\ g[Len(Tail(q))] = f[Len(q)]
                /\ g[0] = IF Head(q).kind = o THEN Append(f[0], Head(q).chunk) ELSE f[0]
<1> DEFINE n == Len(q)
           r == Tail(q)
           g == [k \in 0..(n - 1) |-> f[k + 1]]
<1>1. /\ n \in Nat /\ n >= 1 /\ Len(r) = n - 1 /\ Head(q) = q[1]
      /\ \A k \in 1..(n - 1) : r[k] = q[k + 1]
  BY LenProperties, EmptySeq, HeadTailProperties
<1>2. /\ f \in [0..n -> Seq(Items)]
      /\ \A k \in 1..n : f[k] = IF q[k].kind = o THEN Append(f[k - 1], q[k].chunk) ELSE f[k - 1]
  BY DEF Replay
<1> HIDE DEF n, r
<1>3. g \in [0..(n - 1) -> Seq(Items)]
  BY <1>1, <1>2
<1>4. \A k \in 0..(n - 1) : g[k] = f[k + 1]
  OBVIOUS
<1> HIDE DEF g
<1>5. g[n - 1] = f[n] /\ g[0] = f[1]
  <2>1. n - 1 \in 0..(n - 1) /\ (n - 1) + 1 = n /\ 0 \in 0..(n - 1) /\ 0 + 1 = 1
    BY <1>1
  <2> QED
    BY <1>4, <2>1
<1>6. ASSUME NEW k \in 1..(n - 1)
      PROVE  g[k] = IF r[k].kind = o THEN Append(g[k - 1], r[k].chunk) ELSE g[k - 1]
  <2>1. /\ k \in 0..(n - 1) /\ k - 1 \in 0..(n - 1) /\ (k - 1) + 1 = k
        /\ k + 1 \in 1..n /\ (k + 1) - 1 = k
    BY <1>1
  <2>2. g[k] = f[k + 1] /\ g[k - 1] = f[k] /\ r[k] = q[k + 1]
    BY <1>1, <1>4, <2>1
  <2>3. f[k + 1] = IF q[k + 1].kind = o THEN Append(f[(k + 1) - 1], q[k + 1].chunk)
                   ELSE f[(k + 1) - 1]
    BY <1>2, <2>1
  <2> QED
    BY <2>1, <2>2, <2>3
<1>7. f[1] = IF q[1].kind = o THEN Append(f[0], q[1].chunk) ELSE f[0]
  <2>1. 1 \in 1..n /\ 1 - 1 = 0
    BY <1>1
  <2> QED
    BY <1>2, <2>1
<1>8. Replay(g, o, r)
  BY <1>1, <1>3, <1>6 DEF Replay
<1> QED
  BY <1>1, <1>5, <1>7, <1>8 DEF r, n

\* Steps that move nothing of an output along.
LEMMA DeliveryStable ==
  ASSUME Delivery, UNCHANGED <<got, down, produced>>, \A o \in Outputs : Held(o)' = Held(o),
         Readable' => Readable,
         ending' = "status" => ending = "status",
         terminal = "exited" => terminal' = "exited",
         child = "exited" => child' = "exited"
  PROVE  Delivery'
<1>1. \A o \in Outputs : Whole(o) => Whole(o)'
  BY DEF Whole
<1> QED
  BY <1>1 DEF Delivery

LEMMA ReceiveDelivery ==
  ASSUME ChannelTypeOK, HeldItem, Ending, Delivery, ClientReceives
  PROVE  Delivery'
<1> USE DEF terminal_vars, stream_vars, pump_vars, child_vars
<1>0. /\ UNCHANGED <<link, pump, p_item, out, produced, done, child>>
      /\ terminal = "select" /\ down # <<>> /\ down' = Tail(down)
      /\ \A o \in Outputs : Held(o)' = Held(o)
  BY DEF ClientReceives, Held
<1>1. ending # "status"
  BY <1>0 DEF Delivery
<1>2. down \in Seq(Frames \cup {ExitFrame})
  BY DEF ChannelTypeOK
<1>3. Head(down) = down[1] /\ Len(down) \in Nat /\ Len(down) >= 1
      /\ Head(down) \in Frames \cup {ExitFrame}
  BY <1>0, <1>2, EmptySeq, LenProperties, HeadTailProperties
<1>4. CASE Head(down) = ExitFrame
  <2>1. terminal' = "exited" /\ ending' = "status" /\ got' = got
    BY <1>4 DEF ClientReceives
  <2>2. pump = "finished" /\ done = Outputs /\ Len(down) = 1
    <3>1. 1 \in 1..Len(down) /\ down[1] = ExitFrame
      BY <1>3, <1>4
    <3> QED
      BY <3>1 DEF Ending, ExitLast
  <2>3. child = "exited" /\ \A o \in Outputs : out[o] = <<>>
    BY <2>2, ChannelAssumption DEF Ending, Phases
  <2>4. ASSUME NEW o \in Outputs PROVE got[o] = produced[o]
    <3>0. Readable
      BY <1>0, <1>3, <1>4, <2>2 DEF Readable, ClientGone
    <3>1. PICK f : Replay(f, o, down) /\ f[0] = got[o] /\ f[Len(down)] \o Held(o) = produced[o]
      BY <3>0 DEF Delivery, Whole
    <3>2. Held(o) = <<>>
      BY <2>2, <2>3 DEF Held
    <3>3. f[1] = f[0]
      <4>1. down[1].kind # o
        BY <1>3, <1>4, Constants DEF ExitFrame
      <4>2. f[1] = IF down[1].kind = o THEN Append(f[1 - 1], down[1].chunk) ELSE f[1 - 1]
        BY <2>2, <3>1 DEF Replay
      <4> QED
        BY <4>1, <4>2
    <3>4. got[o] \in Seq(Items)
      BY DEF ChannelTypeOK
    <3>5. got[o] \o <<>> = got[o]
      BY <3>4, ConcatEmptySeq
    <3> QED
      BY <2>2, <3>1, <3>2, <3>3, <3>5
  <2> QED
    BY <1>0, <2>1, <2>3, <2>4 DEF Delivery, Readable, ClientGone
<1>5. CASE Head(down) # ExitFrame
  <2>1. /\ UNCHANGED <<terminal, ending>>
        /\ got' = [got EXCEPT ![Head(down).kind] = Append(@, Head(down).chunk)]
    BY <1>5 DEF ClientReceives
  <2>2. ASSUME NEW o \in Outputs, Whole(o) PROVE Whole(o)'
    <3>1. PICK f : Replay(f, o, down) /\ f[0] = got[o] /\ f[Len(down)] \o Held(o) = produced[o]
      BY <2>2 DEF Whole
    <3>2. PICK g : /\ Replay(g, o, Tail(down)) /\ g[Len(Tail(down))] = f[Len(down)]
                   /\ g[0] = IF Head(down).kind = o THEN Append(f[0], Head(down).chunk)
                             ELSE f[0]
      BY <1>0, <1>2, <3>1, ReplayTail
    <3>3. g[0] = got'[o]
      BY <2>1, <3>1, <3>2 DEF ChannelTypeOK
    <3> QED
      BY <1>0, <3>1, <3>2, <3>3 DEF Whole
  <2>3. ASSUME Readable' PROVE Readable
    <3>1. CASE link = "up"
      BY <1>0, <3>1 DEF Readable, ClientGone
    <3>2. CASE down' # <<>> /\ down'[Len(down')] = ExitFrame
      <4>1. Len(down') = Len(down) - 1 /\ \A k \in 1..Len(down') : down'[k] = down[k + 1]
        BY <1>0, <1>2, HeadTailProperties
      <4>2. Len(down') \in Nat /\ Len(down') # 0
        BY <1>0, <1>2, <3>2, EmptySeq, LenProperties, HeadTailProperties
      <4>3. Len(down') \in 1..Len(down') /\ Len(down') + 1 = Len(down)
        BY <1>3, <4>1, <4>2
      <4>4. down[Len(down)] = ExitFrame
        BY <3>2, <4>1, <4>3
      <4> QED
        BY <1>0, <4>4 DEF Readable, ClientGone
    <3> QED
      BY <1>0, <2>3, <3>1, <3>2 DEF Readable
  <2> QED
    BY <1>0, <1>1, <2>1, <2>2, <2>3 DEF Delivery
<1> QED
  BY <1>4, <1>5

\* The connection is lost: a stream that keeps its last frame is all there.
LEMMA LostDelivery ==
  ASSUME ChannelTypeOK, HeldItem, Ending, Delivery, ConnectionLost
  PROVE  Delivery'
<1> USE DEF terminal_vars, stream_vars, pump_vars, child_vars
<1>0. /\ UNCHANGED <<terminal, ending, got, pump, p_item, out, produced, child>>
      /\ link = "up" /\ ~ClientGone /\ link' = "lost" /\ down' \in Prefixes(down)
      /\ down \in Seq(Frames \cup {ExitFrame})
  BY DEF ConnectionLost, Unreachable, ChannelTypeOK
<1>1. /\ down' \in Seq(Frames \cup {ExitFrame})
      /\ Len(down') <= Len(down) /\ Len(down') \in Nat /\ Len(down) \in Nat
      /\ \A k \in 1..Len(down') : down'[k] = down[k]
  BY <1>0, PrefixTyped
<1>2. ASSUME Readable' PROVE \A o \in Outputs : Whole(o)'
  <2>1. down' # <<>> /\ down'[Len(down')] = ExitFrame
    BY <1>0, <1>2 DEF Readable
  <2>2. Len(down') \in 1..Len(down') /\ Len(down') \in 1..Len(down)
    BY <1>1, <2>1, EmptySeq
  <2>3. Len(down') = Len(down)
    BY <1>1, <2>1, <2>2 DEF Ending, ExitLast
  <2>4. down' = down
    BY <1>0, <1>1, <2>3, SeqEqual
  <2>5. Readable
    BY <1>0 DEF Readable
  <2>6. \A o \in Outputs : Held(o)' = Held(o)
    BY <1>0 DEF Held
  <2> QED
    BY <1>0, <2>4, <2>5, <2>6 DEF Delivery, Whole
<1> QED
  BY <1>0, <1>2 DEF Delivery

\* A frame sent: it moves from the pump's hand to the end of the stream.
LEMMA SendDelivery ==
  ASSUME ChannelTypeOK, HeldItem, Ending, Delivery, PumpSends
  PROVE  Delivery'
<1> USE DEF terminal_vars, stream_vars, pump_vars, child_vars
<1>0. /\ UNCHANGED <<terminal, link, ending, got, out, produced, child>>
      /\ pump = "client" /\ p_item \in Frames /\ p_item.kind \in Outputs /\ p_item.chunk \in Items
      /\ down \in Seq(Frames \cup {ExitFrame})
  BY DEF PumpSends, HeldItem, Frames, ChannelTypeOK
<1>1. CASE ~Unreachable
  <2>1. down' = Append(down, p_item) /\ pump' = "select"
    BY <1>1 DEF PumpSends
  <2>2. ASSUME NEW o \in Outputs, Whole(o) PROVE Whole(o)'
    <3>1. PICK f : Replay(f, o, down) /\ f[0] = got[o] /\ f[Len(down)] \o Held(o) = produced[o]
      BY <2>2 DEF Whole
    <3>2. PICK g : /\ Replay(g, o, Append(down, p_item)) /\ g[0] = f[0]
                   /\ g[Len(down) + 1] = IF p_item.kind = o THEN Append(f[Len(down)], p_item.chunk)
                                         ELSE f[Len(down)]
      BY <1>0, <3>1, ReplayAppend
    <3>3. Len(down') = Len(down) + 1
      BY <1>0, <2>1, AppendProperties
    <3>4. f[Len(down)] \in Seq(Items) /\ out[o] \in Seq(Items)
      <4>1. f[Len(down)] \in Seq(Items)
        BY <1>0, <3>1, ReplayEnd
      <4>2. out[o] \in Seq(Items)
        BY DEF ChannelTypeOK
      <4> QED
        BY <4>1, <4>2
    <3>5. g[Len(down) + 1] \o out[o] = f[Len(down)] \o Held(o)
      <4>1. Append(f[Len(down)], p_item.chunk) \o out[o]
              = f[Len(down)] \o (<<p_item.chunk>> \o out[o])
        BY <1>0, <3>4, AppendLeft
      <4> QED
        BY <1>0, <3>2, <4>1 DEF Held
    <3>6. Held(o)' = out[o]
      BY <1>0, <2>1 DEF Held
    <3> QED
      BY <1>0, <2>1, <3>1, <3>2, <3>3, <3>5, <3>6 DEF Whole
  <2>3. Readable
    BY <1>1 DEF Readable, Unreachable, ChannelTypeOK
  <2> QED
    BY <1>0, <2>1, <2>2, <2>3 DEF Delivery
<1>2. CASE Unreachable
  <2>1. down' = down
    BY <1>2 DEF PumpSends
  <2>2. ~Readable
    <3>1. ASSUME down # <<>>, down[Len(down)] = ExitFrame PROVE FALSE
      <4>1. Len(down) \in 1..Len(down)
        BY <1>0, <3>1, EmptySeq, LenProperties
      <4> QED
        BY <1>0, <3>1, <4>1 DEF Ending, ExitLast
    <3> QED
      BY <1>0, <1>2, <3>1 DEF Readable, Unreachable, ChannelTypeOK
  <2> QED
    BY <1>0, <2>1, <2>2 DEF Delivery, Readable, ClientGone
<1> QED
  BY <1>1, <1>2

\* The ExitStatus goes at the end of the stream and belongs to no output.
LEMMA FinishDelivery ==
  ASSUME ChannelTypeOK, HeldItem, Ending, Delivery, Finish
  PROVE  Delivery'
<1> USE DEF terminal_vars, stream_vars, pump_vars, child_vars
<1>0. /\ UNCHANGED <<terminal, link, ending, got, out, produced, child>>
      /\ pump # "client" /\ pump' = "finished"
      /\ \A o \in Outputs : Held(o)' = Held(o)
      /\ down \in Seq(Frames \cup {ExitFrame})
  BY DEF Finish, Held, ChannelTypeOK
<1>1. CASE down' = down
  <2>1. Readable' => Readable
    BY <1>0, <1>1 DEF Readable, ClientGone
  <2> QED
    BY <1>0, <1>1, <2>1, DeliveryStable
<1>2. CASE down' = Append(down, ExitFrame) /\ ~Unreachable
  <2>1. ASSUME NEW o \in Outputs, Whole(o) PROVE Whole(o)'
    <3>1. PICK f : Replay(f, o, down) /\ f[0] = got[o] /\ f[Len(down)] \o Held(o) = produced[o]
      BY <2>1 DEF Whole
    <3>2. ExitFrame.kind # o
      BY Constants DEF ExitFrame
    <3>3. PICK g : /\ Replay(g, o, Append(down, ExitFrame)) /\ g[0] = f[0]
                   /\ g[Len(down) + 1] = f[Len(down)]
      BY <1>0, <3>1, <3>2, ReplayAppend
    <3>4. Len(down') = Len(down) + 1
      BY <1>0, <1>2, AppendProperties
    <3> QED
      BY <1>0, <1>2, <3>1, <3>3, <3>4 DEF Whole
  <2>2. Readable
    BY <1>2 DEF Readable, Unreachable, ChannelTypeOK
  <2> QED
    BY <1>0, <2>1, <2>2 DEF Delivery
<1> QED
  BY <1>1, <1>2 DEF Finish

\* The process writes: both what is written and what is held grow by a chunk.
LEMMA CopyDelivery ==
  ASSUME ChannelTypeOK, HeldItem, Ending, Delivery, NEW o \in Outputs, ChildCopies(o)
  PROVE  Delivery'
<1> USE DEF terminal_vars, stream_vars, pump_vars, child_vars
<1> DEFINE h == Head(stdin)
<1>0. /\ UNCHANGED <<terminal, link, ending, got, down, pump, p_item, child>>
      /\ child = "running"
      /\ out' = [out EXCEPT ![o] = Append(@, h)]
      /\ produced' = [produced EXCEPT ![o] = Append(@, h)]
  BY DEF ChildCopies
<1>1. h \in Items
  BY DEF ChildCopies, ChannelTypeOK
<1> HIDE DEF h
<1>2. ending # "status"
  BY <1>0 DEF Delivery
<1>3. ASSUME NEW q \in Outputs, Whole(q) PROVE Whole(q)'
  <2>1. PICK f : Replay(f, q, down) /\ f[0] = got[q] /\ f[Len(down)] \o Held(q) = produced[q]
    BY <1>3 DEF Whole
  <2>2. CASE q # o
    <3>1. Held(q)' = Held(q) /\ produced'[q] = produced[q]
      BY <1>0, <2>2 DEF Held, ChannelTypeOK
    <3> QED
      BY <1>0, <2>1, <3>1 DEF Whole
  <2>3. CASE q = o
    <3>1. /\ f[Len(down)] \in Seq(Items) /\ out[q] \in Seq(Items)
          /\ out'[q] = Append(out[q], h) /\ produced'[q] = Append(produced[q], h)
      <4>1. f[Len(down)] \in Seq(Items)
        BY <2>1, ReplayEnd DEF ChannelTypeOK
      <4>2. out \in [Outputs -> Seq(Items)] /\ produced \in [Outputs -> Seq(Items)]
        BY DEF ChannelTypeOK
      <4> QED
        BY <1>0, <2>3, <4>1, <4>2
    <3>2. Held(q) \in Seq(Items) /\ Held(q)' = Append(Held(q), h)
      <4>1. CASE pump = "client" /\ p_item.kind = q
        <5>1. <<p_item.chunk>> \in Seq(Items)
          BY <4>1 DEF HeldItem, Frames
        <5>2. /\ <<p_item.chunk>> \o out[q] \in Seq(Items)
              /\ <<p_item.chunk>> \o Append(out[q], h) = Append(<<p_item.chunk>> \o out[q], h)
          BY <1>1, <3>1, <5>1, AppendRight, ConcatProperties
        <5> QED
          BY <1>0, <3>1, <4>1, <5>2 DEF Held
      <4>2. CASE ~(pump = "client" /\ p_item.kind = q)
        BY <1>0, <3>1, <4>2 DEF Held
      <4> QED
        BY <4>1, <4>2
    <3>3. f[Len(down)] \o Append(Held(q), h) = Append(f[Len(down)] \o Held(q), h)
      <4> DEFINE a == f[Len(down)]
                 b == Held(q)
      <4>1. a \in Seq(Items) /\ b \in Seq(Items)
        BY <3>1, <3>2
      <4> HIDE DEF a, b
      <4>2. a \o Append(b, h) = Append(a \o b, h)
        BY <1>1, <4>1, AppendRight
      <4> QED
        BY <4>2 DEF a, b
    <3> QED
      BY <1>0, <2>1, <3>1, <3>2, <3>3 DEF Whole
  <2> QED
    BY <2>2, <2>3
<1>4. Readable' => Readable
  BY <1>0 DEF Readable, ClientGone
<1> QED
  BY <1>0, <1>2, <1>3, <1>4 DEF Delivery

\* The pump takes a chunk out of a pipe and holds it.
LEMMA TakeDelivery ==
  ASSUME ChannelTypeOK, HeldItem, Ending, Delivery, NEW o \in Outputs, PumpTakesOutput(o)
  PROVE  Delivery'
<1> USE DEF terminal_vars, stream_vars, pump_vars, child_vars
<1>0. /\ UNCHANGED <<terminal, link, ending, got, down, produced, child>>
      /\ pump = "select" /\ pump' = "client" /\ out[o] # <<>>
      /\ out' = [out EXCEPT ![o] = Tail(@)]
      /\ p_item' = [kind |-> o, chunk |-> Head(out[o])]
  BY DEF PumpTakesOutput
<1>1. ASSUME NEW q \in Outputs PROVE Held(q)' = Held(q)
  <2>1. CASE q = o
    <3>1. out[q] \in Seq(Items) /\ out'[q] = Tail(out[q])
      BY <1>0, <2>1 DEF ChannelTypeOK
    <3>2. <<Head(out[q])>> \o Tail(out[q]) = out[q]
      BY <1>0, <2>1, <3>1, HeadTailJoin
    <3> QED
      BY <1>0, <2>1, <3>1, <3>2 DEF Held
  <2>2. CASE q # o
    BY <1>0, <2>2 DEF Held, ChannelTypeOK
  <2> QED
    BY <2>1, <2>2
<1>2. Readable' => Readable
  BY <1>0 DEF Readable, ClientGone
<1> QED
  BY <1>0, <1>1, <1>2, DeliveryStable

\* A client that has the exit status has all of the output, each stream in
\* order, for any number of outputs and any queue sizes.
THEOREM OutputHolds == ChannelSpec => []OutputComplete
<1>1. ChannelInit => Delivery
  <2> SUFFICES ASSUME ChannelInit PROVE Delivery
    OBVIOUS
  <2>1. ASSUME NEW o \in Outputs PROVE Whole(o)
    <3> DEFINE f == [k \in 0..0 |-> <<>>]
    <3>1. got[o] = <<>> /\ Held(o) = <<>> /\ produced[o] = <<>> /\ down = <<>>
      BY DEF ChannelInit, Held
    <3>2. f \in [0..0 -> Seq(Items)] /\ f[0] = <<>>
      BY EmptySeq
    <3> HIDE DEF f
    <3>3. Replay(f, o, <<>>)
      BY <3>2 DEF Replay
    <3>4. <<>> \o <<>> = <<>>
      BY EmptySeq, ConcatEmptySeq
    <3>5. Len(<<>>) = 0
      BY EmptySeq
    <3> QED
      BY <3>1, <3>2, <3>3, <3>4, <3>5 DEF Whole
  <2> QED
    BY <2>1 DEF ChannelInit, Delivery
<1>2. ChannelTypeOK /\ HeldItem /\ Ending /\ Delivery /\ [ChannelNext]_channel_vars => Delivery'
  <2> SUFFICES ASSUME ChannelTypeOK, HeldItem, Ending, Delivery, [ChannelNext]_channel_vars
               PROVE  Delivery'
    OBVIOUS
  <2> USE DEF terminal_vars, stream_vars, pump_vars, child_vars
  <2>1. CASE \/ ClientTakesStdin \/ ClientStdinEof \/ TerminalSends \/ TerminalSendFails
             \/ ClientLosesStream \/ ClientSignal
    <3>1. /\ UNCHANGED <<got, down, link, produced, pump, p_item, out, child>>
          /\ terminal \in {"select", "sending"}
          /\ ending' = "status" => ending = "status"
      BY <2>1 DEF ClientTakesStdin, ClientStdinEof, TerminalSends, TerminalSendFails,
                  ClientLosesStream, ClientSignal
    <3>2. \A o \in Outputs : Held(o)' = Held(o)
      BY <3>1 DEF Held
    <3>3. Readable' => Readable
      BY <3>1 DEF Readable, ClientGone
    <3> QED
      BY <3>1, <3>2, <3>3, DeliveryStable
  <2>2. CASE ClientReceives
    BY <2>2, ReceiveDelivery
  <2>3. CASE TerminalKilled \/ ClientWriteFails
    BY <2>3 DEF TerminalKilled, ClientWriteFails, Delivery, Readable, ClientGone
  <2>4. CASE \/ PumpTakesFrame \/ PumpFramesEnd \/ PumpWritesStdin \/ PumpQueuesSignal
             \/ DrainSignal \/ \E o \in Outputs : PumpOutputEnds(o)
    <3>1. /\ UNCHANGED <<got, down, link, produced, terminal, ending, out, child>>
          /\ (pump # "client" /\ pump' # "client") \/ UNCHANGED <<pump, p_item>>
      BY <2>4 DEF PumpTakesFrame, PumpFramesEnd, PumpWritesStdin, PumpQueuesSignal,
                  DrainSignal, PumpOutputEnds
    <3>2. \A o \in Outputs : Held(o)' = Held(o)
      BY <3>1 DEF Held
    <3>3. Readable' => Readable
      BY <3>1 DEF Readable, ClientGone
    <3> QED
      BY <3>1, <3>2, <3>3, DeliveryStable
  <2>5. ASSUME NEW o \in Outputs, PumpTakesOutput(o) PROVE Delivery'
    BY <2>5, TakeDelivery
  <2>6. CASE PumpSends
    BY <2>6, SendDelivery
  <2>7. CASE Finish
    BY <2>7, FinishDelivery
  <2>8. CASE ConnectionLost
    BY <2>8, LostDelivery
  <2>9. ASSUME NEW o \in Outputs, ChildCopies(o) PROVE Delivery'
    BY <2>9, CopyDelivery
  <2>10. CASE ChildEof \/ ChildDies \/ UNCHANGED channel_vars
    <3>1. /\ UNCHANGED <<got, down, link, produced, terminal, ending, out, pump, p_item>>
          /\ child = "exited" => child' = "exited"
      BY <2>10 DEF ChildEof, ChildDies, channel_vars
    <3>2. \A o \in Outputs : Held(o)' = Held(o)
      BY <3>1 DEF Held
    <3>3. Readable' => Readable
      BY <3>1 DEF Readable, ClientGone
    <3> QED
      BY <3>1, <3>2, <3>3, DeliveryStable
  <2> QED
    BY <2>1, <2>2, <2>3, <2>4, <2>5, <2>6, <2>7, <2>8, <2>9, <2>10
       DEF ChannelNext, TerminalStep, PumpStep, ChildStep
<1>3. Delivery => OutputComplete
  BY DEF Delivery, OutputComplete
<1> QED
  BY <1>1, <1>2, <1>3, ChannelTyped, EndingHolds, PTL DEF ChannelSpec

-----------------------------------------------------------------------------
(* All of the input                                                        *)

UpTo(n) == [i \in 1..n |-> i]

\* g[k] is how many chunks of input the pump will have taken once it has read
\* k frames of q; Signal frames (0) come in between.
Numbered(g, q) ==
  /\ g \in [0..Len(q) -> Nat]
  /\ \A k \in 1..Len(q) : \/ q[k] = 0 /\ g[k] = g[k - 1]
                          \/ q[k] = g[k - 1] + 1 /\ g[k] = q[k]

\* The chunks the client has put on the stream.
Sent == IF terminal = "sending" /\ c_item # 0 THEN typed - 1 ELSE typed

\* With `taken` chunks taken off the stream, the process has been given all of
\* them but the one the pump still holds.
GivenTo(taken) ==
  /\ pump = "stdin" => taken # 0 /\ p_item.chunk = taken
  /\ child = "running" => eaten \o stdin = UpTo(IF pump = "stdin" THEN taken - 1 ELSE taken)

\* While the two ends can reach each other, nothing of the input is missing or
\* out of order.
Intake ==
  ~Unreachable =>
    /\ terminal = "sending" /\ c_item # 0 => c_item = typed
    /\ \E g : Numbered(g, up) /\ g[Len(up)] = Sent /\ GivenTo(g[0])

LEMMA UpToGrows ==
  ASSUME NEW n \in Nat
  PROVE  UpTo(n) \in Seq(Nat) /\ Append(UpTo(n), n + 1) = UpTo(n + 1)
<1>1. UpTo(n) \in Seq(Nat) /\ Len(UpTo(n)) = n /\ \A i \in 1..n : UpTo(n)[i] = i
  BY DEF UpTo
<1>2. /\ UpTo(n + 1) \in Seq(Nat) /\ Len(UpTo(n + 1)) = n + 1
      /\ \A i \in 1..(n + 1) : UpTo(n + 1)[i] = i
  BY DEF UpTo
<1>3. /\ Append(UpTo(n), n + 1) \in Seq(Nat) /\ Len(Append(UpTo(n), n + 1)) = n + 1
      /\ \A i \in 1..n : Append(UpTo(n), n + 1)[i] = UpTo(n)[i]
      /\ Append(UpTo(n), n + 1)[n + 1] = n + 1
  BY <1>1, AppendProperties
<1>4. \A i \in 1..(n + 1) : Append(UpTo(n), n + 1)[i] = UpTo(n + 1)[i]
  BY <1>1, <1>2, <1>3
<1> QED
  BY <1>1, <1>2, <1>3, <1>4, SeqEqual

LEMMA NumberedAppend ==
  ASSUME NEW q \in Seq(Items), NEW x \in Items, NEW g, Numbered(g, q),
         x = 0 \/ x = g[Len(q)] + 1
  PROVE  \E h : /\ Numbered(h, Append(q, x)) /\ h[0] = g[0]
                /\ h[Len(q) + 1] = IF x = 0 THEN g[Len(q)] ELSE x
<1> DEFINE n == Len(q)
           r == Append(q, x)
           top == IF x = 0 THEN g[n] ELSE x
           h == [k \in 0..(n + 1) |-> IF k <= n THEN g[k] ELSE top]
<1>1. /\ n \in Nat /\ Len(r) = n + 1 /\ r[n + 1] = x
      /\ \A k \in 1..n : r[k] = q[k]
  BY LenProperties, AppendProperties
<1>2. g \in [0..n -> Nat] /\ top \in Nat /\ (x = 0 \/ x = g[n] + 1)
  <2>1. g \in [0..n -> Nat] /\ x \in Nat /\ n \in 0..n
    BY <1>1, Constants DEF Numbered, Items
  <2> QED
    BY <2>1
<1>3. \A k \in 1..n : \/ q[k] = 0 /\ g[k] = g[k - 1]
                      \/ q[k] = g[k - 1] + 1 /\ g[k] = q[k]
  BY DEF Numbered
<1>4. (x = 0 /\ top = g[n]) \/ (x = g[n] + 1 /\ top = x)
  BY <1>2
<1> HIDE DEF n, r, top
<1>5. h \in [0..(n + 1) -> Nat]
  BY <1>1, <1>2
<1>6. /\ h[0] = g[0] /\ h[n + 1] = top /\ h[n] = g[n]
      /\ \A k \in 1..n : h[k] = g[k] /\ h[k - 1] = g[k - 1]
  BY <1>1
<1> HIDE DEF h
<1>7. \A k \in 1..n : \/ r[k] = 0 /\ h[k] = h[k - 1]
                      \/ r[k] = h[k - 1] + 1 /\ h[k] = r[k]
  BY <1>1, <1>3, <1>6
<1>8. \/ r[n + 1] = 0 /\ h[n + 1] = h[n]
      \/ r[n + 1] = h[n] + 1 /\ h[n + 1] = r[n + 1]
  BY <1>1, <1>4, <1>6
<1>9. Numbered(h, r)
  <2>1. \A k \in 1..Len(r) : k \in 1..n \/ (k = n + 1 /\ k - 1 = n)
    BY <1>1
  <2> QED
    BY <1>1, <1>5, <1>7, <1>8, <2>1 DEF Numbered
<1> QED
  BY <1>6, <1>9 DEF n, r, top

LEMMA NumberedTail ==
  ASSUME NEW q \in Seq(Items), q # <<>>, NEW g, Numbered(g, q)
  PROVE  \E h : /\ Numbered(h, Tail(q)) /\ h[Len(Tail(q))] = g[Len(q)]
                /\ h[0] \in Nat /\ g[0] \in Nat
                /\ \/ Head(q) = 0 /\ h[0] = g[0]
                   \/ Head(q) = g[0] + 1 /\ h[0] = Head(q)
<1> DEFINE n == Len(q)
           r == Tail(q)
           h == [k \in 0..(n - 1) |-> g[k + 1]]
<1>1. /\ n \in Nat /\ n >= 1 /\ Len(r) = n - 1 /\ Head(q) = q[1]
      /\ \A k \in 1..(n - 1) : r[k] = q[k + 1]
  BY LenProperties, EmptySeq, HeadTailProperties
<1>2. /\ g \in [0..n -> Nat]
      /\ \A k \in 1..n : \/ q[k] = 0 /\ g[k] = g[k - 1]
                         \/ q[k] = g[k - 1] + 1 /\ g[k] = q[k]
  BY DEF Numbered
<1> HIDE DEF n, r
<1>3. h \in [0..(n - 1) -> Nat]
  BY <1>1, <1>2
<1>4. \A k \in 0..(n - 1) : h[k] = g[k + 1]
  OBVIOUS
<1> HIDE DEF h
<1>5. h[n - 1] = g[n] /\ h[0] = g[1] /\ h[0] \in Nat /\ g[0] \in Nat
  <2>1. n - 1 \in 0..(n - 1) /\ (n - 1) + 1 = n /\ 0 \in 0..(n - 1) /\ 0 + 1 = 1 /\ 0 \in 0..n
    BY <1>1
  <2> QED
    BY <1>2, <1>3, <1>4, <2>1
<1>6. ASSUME NEW k \in 1..(n - 1)
      PROVE  \/ r[k] = 0 /\ h[k] = h[k - 1]
             \/ r[k] = h[k - 1] + 1 /\ h[k] = r[k]
  <2>1. /\ k \in 0..(n - 1) /\ k - 1 \in 0..(n - 1) /\ (k - 1) + 1 = k
        /\ k + 1 \in 1..n /\ (k + 1) - 1 = k
    BY <1>1
  <2>2. h[k] = g[k + 1] /\ h[k - 1] = g[k] /\ r[k] = q[k + 1]
    BY <1>1, <1>4, <2>1
  <2>3. \/ q[k + 1] = 0 /\ g[k + 1] = g[(k + 1) - 1]
        \/ q[k + 1] = g[(k + 1) - 1] + 1 /\ g[k + 1] = q[k + 1]
    BY <1>2, <2>1
  <2> QED
    BY <2>1, <2>2, <2>3
<1>7. (q[1] = 0 /\ g[1] = g[0]) \/ (q[1] = g[0] + 1 /\ g[1] = q[1])
  <2>1. 1 \in 1..n /\ 1 - 1 = 0
    BY <1>1
  <2> QED
    BY <1>2, <2>1
<1>8. Numbered(h, r)
  BY <1>1, <1>3, <1>6 DEF Numbered
<1> QED
  BY <1>1, <1>5, <1>7, <1>8 DEF r, n

\* The process reads a chunk: what it was given stays the same.
LEMMA CopyKeepsInput ==
  ASSUME ChannelTypeOK, NEW o \in Outputs, ChildCopies(o)
  PROVE  eaten' \o stdin' = eaten \o stdin
<1>1. /\ stdin # <<>> /\ stdin' = Tail(stdin) /\ eaten' = Append(eaten, Head(stdin))
      /\ stdin \in Seq(Items) /\ eaten \in Seq(Items)
  BY DEF ChildCopies, ChannelTypeOK
<1>2. Head(stdin) \in Items /\ Tail(stdin) \in Seq(Items)
  BY <1>1, HeadTailProperties
<1>3. Append(eaten, Head(stdin)) \o Tail(stdin) = eaten \o (<<Head(stdin)>> \o Tail(stdin))
  BY <1>1, <1>2, AppendLeft
<1>4. <<Head(stdin)>> \o Tail(stdin) = stdin
  BY <1>1, HeadTailJoin
<1> QED
  BY <1>1, <1>3, <1>4

\* Steps that move no input along.
LEMMA IntakeStable ==
  ASSUME Intake, up' = up, Sent' = Sent,
         terminal' = "sending" /\ c_item' # 0 => c_item' = typed',
         pump' = "stdin" <=> pump = "stdin",
         pump = "stdin" => p_item' = p_item,
         child' = "running" => child = "running" /\ eaten' \o stdin' = eaten \o stdin,
         ~Unreachable' => ~Unreachable
  PROVE  Intake'
<1>1. \A n : GivenTo(n) => GivenTo(n)'
  BY DEF GivenTo
<1> QED
  BY <1>1 DEF Intake

\* A frame on the stream: the next chunk, or a signal.
LEMMA SendsIntake ==
  ASSUME ChannelTypeOK, Intake, TerminalSends
  PROVE  Intake'
<1> USE DEF terminal_vars, stream_vars, pump_vars, child_vars
<1> SUFFICES ASSUME ~Unreachable
             PROVE  \E h : Numbered(h, up') /\ h[Len(up')] = typed /\ GivenTo(h[0])
  <2>1. terminal' = "select" /\ UNCHANGED <<link, pump, p_item, typed, child, eaten, stdin>>
        /\ terminal = "sending"
    BY DEF TerminalSends
  <2>2. \A n : GivenTo(n) <=> GivenTo(n)'
    BY <2>1 DEF GivenTo
  <2>3. ~Unreachable' => ~Unreachable
    BY <2>1 DEF Unreachable, ClientGone
  <2> QED
    BY <2>1, <2>2, <2>3 DEF Intake, Sent
<1>1. /\ terminal = "sending" /\ up' = Append(up, c_item)
      /\ up \in Seq(Items) /\ c_item \in Items /\ typed \in Nat
  BY Constants DEF TerminalSends, ChannelTypeOK, Items
<1>2. PICK g : Numbered(g, up) /\ g[Len(up)] = Sent /\ GivenTo(g[0])
  BY <1>1 DEF Intake
<1>3. c_item # 0 => c_item = typed
  BY <1>1 DEF Intake
<1>4. c_item = 0 \/ c_item = g[Len(up)] + 1
  BY <1>1, <1>2, <1>3 DEF Sent
<1>5. PICK h : /\ Numbered(h, Append(up, c_item)) /\ h[0] = g[0]
               /\ h[Len(up) + 1] = IF c_item = 0 THEN g[Len(up)] ELSE c_item
  BY <1>1, <1>2, <1>4, NumberedAppend
<1>6. Len(up') = Len(up) + 1
  BY <1>1, AppendProperties
<1>7. h[Len(up) + 1] = typed
  BY <1>1, <1>2, <1>3, <1>5 DEF Sent
<1> QED
  BY <1>1, <1>2, <1>5, <1>6, <1>7

\* The pump takes a frame off the stream.
LEMMA TakesIntake ==
  ASSUME ChannelTypeOK, Intake, PumpTakesFrame
  PROVE  Intake'
<1> USE DEF terminal_vars, stream_vars, pump_vars, child_vars
<1>0. /\ UNCHANGED <<terminal, link, c_item, typed, child, eaten, stdin>>
      /\ pump = "select" /\ up # <<>> /\ up' = Tail(up)
      /\ p_item' = [kind |-> "in", chunk |-> Head(up)]
      /\ pump' = IF Head(up) = 0 THEN "sig" ELSE "stdin"
      /\ up \in Seq(Items) /\ Sent' = Sent
  BY DEF PumpTakesFrame, ChannelTypeOK, Sent
<1> SUFFICES ASSUME ~Unreachable
             PROVE  /\ terminal = "sending" /\ c_item # 0 => c_item = typed
                    /\ \E h : Numbered(h, Tail(up)) /\ h[Len(Tail(up))] = Sent /\ GivenTo(h[0])'
  BY <1>0 DEF Intake, Unreachable, ClientGone
<1>1. terminal = "sending" /\ c_item # 0 => c_item = typed
  BY <1>0 DEF Intake
<1>2. PICK g : Numbered(g, up) /\ g[Len(up)] = Sent /\ GivenTo(g[0])
  BY <1>0 DEF Intake
<1>3. PICK h : /\ Numbered(h, Tail(up)) /\ h[Len(Tail(up))] = g[Len(up)]
               /\ h[0] \in Nat /\ g[0] \in Nat
               /\ \/ Head(up) = 0 /\ h[0] = g[0]
                  \/ Head(up) = g[0] + 1 /\ h[0] = Head(up)
  BY <1>0, <1>2, NumberedTail
<1>4. GivenTo(h[0])'
  <2>1. child = "running" => eaten \o stdin = UpTo(g[0])
    BY <1>0, <1>2 DEF GivenTo
  <2>2. CASE Head(up) = 0 /\ h[0] = g[0]
    BY <1>0, <2>1, <2>2 DEF GivenTo
  <2>3. CASE Head(up) = g[0] + 1 /\ h[0] = Head(up)
    <3>1. h[0] # 0 /\ h[0] - 1 = g[0] /\ pump' = "stdin" /\ p_item'.chunk = h[0]
      BY <1>0, <1>3, <2>3
    <3> QED
      BY <1>0, <2>1, <3>1 DEF GivenTo
  <2> QED
    BY <1>3, <2>2, <2>3
<1> QED
  BY <1>1, <1>2, <1>3, <1>4

\* The pump hands the chunk it holds to the process.
LEMMA WritesIntake ==
  ASSUME ChannelTypeOK, HeldItem, Intake, PumpWritesStdin
  PROVE  Intake'
<1> USE DEF terminal_vars, stream_vars, pump_vars, child_vars
<1>0. /\ UNCHANGED <<terminal, link, c_item, typed, child, eaten, up>>
      /\ pump = "stdin" /\ pump' = "select" /\ Sent' = Sent
  BY DEF PumpWritesStdin, Sent
<1>1. ASSUME NEW n \in Nat, GivenTo(n) PROVE GivenTo(n)'
  <2>1. n # 0 /\ p_item.chunk = n /\ n - 1 \in Nat /\ (n - 1) + 1 = n
    BY <1>0, <1>1 DEF GivenTo
  <2>2. ASSUME child = "running" PROVE eaten \o stdin' = UpTo(n)
    <3>1. stdin' = Append(stdin, n) /\ eaten \o stdin = UpTo(n - 1)
      BY <1>0, <1>1, <2>1, <2>2 DEF PumpWritesStdin, GivenTo
    <3>2. stdin \in Seq(Items) /\ eaten \in Seq(Items) /\ n \in Items
      BY <1>0, <2>1 DEF ChannelTypeOK, HeldItem, InFrames
    <3>3. eaten \o Append(stdin, n) = Append(eaten \o stdin, n)
      BY <3>2, AppendRight
    <3>4. Append(UpTo(n - 1), (n - 1) + 1) = UpTo((n - 1) + 1)
      BY <2>1, UpToGrows
    <3> QED
      BY <2>1, <3>1, <3>3, <3>4
  <2> QED
    BY <1>0, <2>2 DEF GivenTo
<1>2. ASSUME NEW g, Numbered(g, up) PROVE g[0] \in Nat
  <2>1. 0 \in 0..Len(up)
    BY LenProperties DEF ChannelTypeOK
  <2> QED
    BY <1>2, <2>1 DEF Numbered
<1>3. Unreachable' = Unreachable
  BY <1>0 DEF Unreachable, ClientGone
<1> QED
  BY <1>0, <1>1, <1>2, <1>3 DEF Intake

\* While the client is there and the connection is up, the process sees end of
\* input only after all of the input, in order, for any amount of input and any
\* queue sizes.
THEOREM EofHolds == ChannelSpec => []EofAfterInput
<1> USE DEF terminal_vars, stream_vars, pump_vars, child_vars
<1>1. ChannelInit => Intake /\ EofAfterInput
  <2> SUFFICES ASSUME ChannelInit PROVE Intake /\ EofAfterInput
    OBVIOUS
  <2> DEFINE g == [k \in 0..0 |-> 0]
  <2>1. g \in [0..0 -> Nat] /\ g[0] = 0
    OBVIOUS
  <2> HIDE DEF g
  <2>2. Len(<<>>) = 0 /\ Numbered(g, <<>>)
    BY <2>1 DEF Numbered
  <2>3. eaten \o stdin = UpTo(0)
    BY DEF ChannelInit, UpTo
  <2>4. GivenTo(0) /\ Sent = 0 /\ up = <<>> /\ terminal = "select"
    BY <2>3 DEF ChannelInit, GivenTo, Sent
  <2>5. Intake
    BY <2>1, <2>2, <2>4 DEF Intake
  <2> QED
    BY <2>5 DEF ChannelInit, EofAfterInput
<1>2. ChannelTypeOK /\ HeldItem /\ Ending /\ Intake /\ [ChannelNext]_channel_vars => Intake'
  <2> SUFFICES ASSUME ChannelTypeOK, HeldItem, Ending, Intake, [ChannelNext]_channel_vars
               PROVE  Intake'
    OBVIOUS
  <2>1. CASE ClientTakesStdin
    <3>1. typed \in Nat /\ typed + 1 # 0 /\ (typed + 1) - 1 = typed
      BY Constants DEF ChannelTypeOK, Items
    <3>2. Sent' = Sent
      BY <2>1, <3>1 DEF ClientTakesStdin, Sent
    <3> QED
      BY <2>1, <3>2, IntakeStable DEF ClientTakesStdin, Unreachable, ClientGone
  <2>2. CASE ClientSignal
    <3>1. Sent' = Sent
      BY <2>2 DEF ClientSignal, Sent
    <3>2. terminal' = "sending" /\ c_item' # 0 => c_item' = typed'
      BY <2>2 DEF ClientSignal
    <3>3. /\ UNCHANGED <<up, link, pump, p_item, child, eaten, stdin>> /\ terminal = "select"
      BY <2>2 DEF ClientSignal
    <3> QED
      BY <3>1, <3>2, <3>3, IntakeStable DEF Unreachable, ClientGone
  <2>3. CASE \/ ClientStdinEof \/ TerminalSendFails \/ ClientLosesStream \/ ClientReceives
             \/ ClientWriteFails \/ TerminalKilled
    <3>1. /\ UNCHANGED <<c_item, link, typed, pump, p_item, child, eaten, stdin>>
          /\ terminal' \in {"exited", "killed"} \/ UNCHANGED <<terminal, up>>
      BY <2>3 DEF ClientStdinEof, TerminalSendFails, ClientLosesStream, ClientReceives,
                  ClientWriteFails, TerminalKilled
    <3>2. CASE terminal' \in {"exited", "killed"}
      BY <3>2 DEF Intake, Unreachable, ClientGone
    <3>3. CASE UNCHANGED <<terminal, up>>
      BY <3>1, <3>3 DEF Intake, Sent, GivenTo, Unreachable, ClientGone
    <3> QED
      BY <3>1, <3>2, <3>3
  <2>4. CASE TerminalSends
    BY <2>4, SendsIntake
  <2>5. CASE PumpTakesFrame
    BY <2>5, TakesIntake
  <2>6. CASE PumpWritesStdin
    BY <2>6, WritesIntake
  <2>7. CASE \/ PumpFramesEnd \/ PumpQueuesSignal \/ PumpSends \/ Finish \/ DrainSignal
             \/ \E o \in Outputs : PumpTakesOutput(o) \/ PumpOutputEnds(o)
    <3>1. /\ UNCHANGED <<terminal, link, c_item, typed, up, child, eaten, stdin>>
          /\ (pump # "stdin" /\ pump' # "stdin") \/ UNCHANGED <<pump, p_item>>
      BY <2>7 DEF PumpFramesEnd, PumpQueuesSignal, PumpSends, Finish, DrainSignal,
                  PumpTakesOutput, PumpOutputEnds
    <3>2. Sent' = Sent
      BY <3>1 DEF Sent
    <3>3. Unreachable' = Unreachable
      BY <3>1 DEF Unreachable, ClientGone
    <3>4. CASE ~Unreachable
      BY <3>1, <3>2, <3>3, <3>4, IntakeStable DEF Intake
    <3>5. CASE Unreachable
      BY <3>3, <3>5 DEF Intake
    <3> QED
      BY <3>4, <3>5
  <2>8. CASE ConnectionLost
    BY <2>8 DEF ConnectionLost, Intake, Unreachable
  <2>9. ASSUME NEW o \in Outputs, ChildCopies(o) PROVE Intake'
    <3>1. eaten' \o stdin' = eaten \o stdin
      BY <2>9, CopyKeepsInput
    <3>2. UNCHANGED <<terminal, link, c_item, typed, up, child, pump, p_item>>
      BY <2>9 DEF ChildCopies
    <3> QED
      BY <3>1, <3>2 DEF Intake, Sent, GivenTo, Unreachable, ClientGone
  <2>10. CASE ChildEof \/ ChildDies
    <3>1. UNCHANGED <<terminal, link, c_item, typed, up, pump, p_item>> /\ child' = "exited"
      BY <2>10 DEF ChildEof, ChildDies
    <3> QED
      BY <3>1 DEF Intake, Sent, GivenTo, Unreachable, ClientGone
  <2>11. CASE UNCHANGED channel_vars
    BY <2>11 DEF channel_vars, Intake, Sent, GivenTo, Unreachable, ClientGone
  <2> QED
    BY <2>1, <2>2, <2>3, <2>4, <2>5, <2>6, <2>7, <2>8, <2>9, <2>10, <2>11
       DEF ChannelNext, TerminalStep, PumpStep, ChildStep
<1>3. ChannelTypeOK /\ HeldItem /\ Ending /\ Intake /\ EofAfterInput
        /\ [ChannelNext]_channel_vars => EofAfterInput'
  <2> SUFFICES ASSUME ChannelTypeOK, HeldItem, Ending, Intake, EofAfterInput,
                      [ChannelNext]_channel_vars,
                      frames_done' = "yes", ~Unreachable', child' = "running"
               PROVE  eaten' \o stdin' = UpTo(typed')
    BY DEF EofAfterInput, UpTo
  <2>1. ~Unreachable /\ child = "running"
    BY DEF Unreachable, ClientGone, ChannelNext,
           TerminalStep, PumpStep, ChildStep, ClientTakesStdin, ClientStdinEof,
           TerminalSends, TerminalSendFails, ClientReceives, ClientLosesStream, ClientSignal,
           ClientWriteFails, TerminalKilled, PumpTakesFrame, PumpFramesEnd, PumpWritesStdin,
           PumpQueuesSignal,
           PumpSends, Finish, DrainSignal, ConnectionLost, PumpTakesOutput,
           PumpOutputEnds, ChildCopies, ChildEof, ChildDies, channel_vars
  <2>2. CASE PumpFramesEnd
    <3>1. /\ pump = "select" /\ up = <<>> /\ UNCHANGED <<terminal, typed, eaten, stdin>>
          /\ stdin_done = "yes"
      BY <2>1, <2>2 DEF PumpFramesEnd
    <3>2. terminal = "select"
      BY <2>1, <3>1 DEF Ending, Phases, ClientGone, Unreachable, ChannelTypeOK
    <3>3. PICK g : Numbered(g, up) /\ g[Len(up)] = Sent /\ GivenTo(g[0])
      BY <2>1 DEF Intake
    <3>4. g[0] = typed
      BY <3>1, <3>2, <3>3 DEF Sent
    <3> QED
      BY <2>1, <3>1, <3>3, <3>4 DEF GivenTo
  <2>3. CASE ~PumpFramesEnd
    <3>1. frames_done = "yes"
      BY <2>3 DEF ChannelNext, TerminalStep, PumpStep, ChildStep, ClientTakesStdin, ClientStdinEof,
           TerminalSends, TerminalSendFails, ClientReceives, ClientLosesStream, ClientSignal,
           ClientWriteFails, TerminalKilled, PumpTakesFrame, PumpWritesStdin, PumpQueuesSignal,
           PumpSends, Finish, DrainSignal, ConnectionLost, PumpTakesOutput,
           PumpOutputEnds, ChildCopies, ChildEof, ChildDies, channel_vars
    <3>2. eaten \o stdin = UpTo(typed)
      BY <2>1, <3>1 DEF EofAfterInput, UpTo
    <3>3. stdin_done = "yes" /\ pump # "stdin"
      BY <2>1, <3>1 DEF Ending, Phases
    <3>4. ASSUME NEW o \in Outputs, ChildCopies(o) PROVE eaten' \o stdin' = UpTo(typed')
      <4>1. typed' = typed
        BY <3>4 DEF ChildCopies
      <4> QED
        BY <3>2, <3>4, <4>1, CopyKeepsInput
    <3>5. CASE ~\E o \in Outputs : ChildCopies(o)
      <4>1. UNCHANGED <<eaten, stdin, typed>>
        BY <2>1, <2>3, <3>3, <3>5
           DEF ChannelNext, TerminalStep, PumpStep, ChildStep, ClientTakesStdin, ClientStdinEof,
               TerminalSends, TerminalSendFails, ClientReceives, ClientLosesStream, ClientSignal,
               ClientWriteFails, TerminalKilled, PumpTakesFrame, PumpWritesStdin, PumpQueuesSignal,
               PumpSends, Finish, DrainSignal, ConnectionLost, PumpTakesOutput,
               PumpOutputEnds, ChildEof, ChildDies, channel_vars
      <4> QED
        BY <3>2, <4>1
    <3> QED
      BY <3>4, <3>5
  <2> QED
    BY <2>2, <2>3
<1> QED
  BY <1>1, <1>2, <1>3, ChannelTyped, EndingHolds, PTL DEF ChannelSpec
=============================================================================
