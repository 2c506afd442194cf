---------------------------- MODULE FountainCode ----------------------------
(***************************************************************************)
(* The optical channel of an offline payment: the merchant's screen shows  *)
(* an endless series of QR frames (FountainEncoder, AnimatedOpticalQr) and *)
(* the payer's scanner puts the payload together from those its camera     *)
(* reads (FountainDecoder, _ScanToPayTab).  The backend has the same code   *)
(* again, in the script that verifies the offline protocol: its decoder    *)
(* peels in another order, and reads one payload.  (Its generator also     *)
(* lacks one of the app's degrees, which is k itself for k up to five.)    *)
(*                                                                         *)
(* The camera misses frames, reads some twice, and may report them late.   *)
(* Source blocks and the data of frames are symbolic: data is the set of   *)
(* source blocks it is the exclusive or of, which is exact for that        *)
(* operation.  The pseudo-random choice of blocks is an arbitrary one,     *)
(* made once: it depends on the sequence number and k only, so all         *)
(* sessions share it.                                                      *)
(***************************************************************************)
EXTENDS Naturals, FiniteSets, Sequences

CONSTANTS
  Sessions,   \* session ids the merchant's screen draws
  K,          \* source blocks of a payload
  Degrees,    \* how many blocks a frame that is not plain may carry
  MaxFrames,  \* bound on the sequence numbers of frames
  None

ASSUME BoundsAssumption ==
  K \in Nat \ {0} /\ MaxFrames \in Nat /\ MaxFrames >= K /\ Degrees \subseteq 1..K

ASSUME NoneAssumption == None \notin Sessions

VARIABLES
  reader,   \* which decoder reads: the "app" or the "script"
  code,     \* blockIndices of the frame with a given sequence number
  shown,    \* the session whose frames are on the merchant's screen
  active,   \* _activeSessionId
  solved,   \* _solvedBlocks: data, or the empty set for an unsolved block
  pending,  \* _pendingEquations
  seeds,    \* _receivedSeeds
  handled,  \* _handled: a payload is being dealt with; isComplete of the script
  payload   \* the payload last handed to _handleDecodedPayload

decoder == <<active, solved, pending, seeds>>
vars    == <<reader, code, shown, decoder, handled, payload>>

-----------------------------------------------------------------------------

Blocks == 0..(K - 1)

Frames == 0..(MaxFrames - 1)

Source(s, indices) == {s} \X indices

Xor(d, e) == (d \ e) \cup (e \ d)

\* The first k frames carry one block each, any other an arbitrary choice.
Codes ==
  LET Samples == {bs \in SUBSET Blocks : Cardinality(bs) \in Degrees}
  IN {[n \in Frames |-> IF n < K THEN {n} ELSE c[n]] : c \in [Frames \ Blocks -> Samples]}

Fresh ==
  [active |-> None, solved |-> [b \in Blocks |-> {}], pending |-> <<>>, seeds |-> {}]

Become(d) ==
  /\ active' = d.active
  /\ solved' = d.solved
  /\ pending' = d.pending
  /\ seeds' = d.seeds

Init ==
  /\ reader \in {"app", "script"}
  /\ code \in Codes
  /\ shown \in Sessions
  /\ active = Fresh.active
  /\ solved = Fresh.solved
  /\ pending = Fresh.pending
  /\ seeds = Fresh.seeds
  /\ handled = FALSE
  /\ payload = <<>>

-----------------------------------------------------------------------------
(* The decoder.  An equation is a set of blocks and the data they sum to.  *)

Known(sol) == {b \in Blocks : sol[b] # {}}

\* Mutant: solved blocks are struck out, and their data left in.
ReduceIndicesOnly(eq, bs, sol) ==
  [indices |-> eq.indices \ bs, data |-> eq.data]

\* The equation without the solved blocks bs.
Reduce(eq, bs, sol) ==
  [indices |-> eq.indices \ bs,
   data |-> Xor(eq.data, UNION {sol[b] : b \in eq.indices \cap bs})]

Degree(eq) == Cardinality(eq.indices)

\* One of the equations of degree one solves its block, if none did before;
\* the block is the one to be peeled next.
Take(st, eq) ==
  LET b == CHOOSE i \in Blocks : eq.indices = {i} IN
  IF st.solved[b] # {} THEN st
  ELSE [st EXCEPT !.solved[b] = eq.data, !.block = b, !.progress = TRUE]

\* Mutant: equations of degree one stay pending.
LookKeeping(by, st, eq) ==
  LET reduced == Reduce(eq, {by.block}, by.solved)
      looked  == IF Degree(reduced) = 1 THEN Take(st, reduced) ELSE st
  IN IF Degree(reduced) = 0 THEN st
     ELSE [looked EXCEPT !.pending = <<reduced>> \o @]

\* The block solved in state "by" is peeled from a pending equation, which then
\* says nothing, or solves a block, or stays.
Look(by, st, eq) ==
  LET reduced == Reduce(eq, {by.block}, by.solved) IN
  IF Degree(reduced) = 0 THEN st
  ELSE IF Degree(reduced) = 1 THEN Take(st, reduced)
  ELSE [st EXCEPT !.pending = <<reduced>> \o @]

\* A round looks at the pending equations from the last to the first.  The app
\* peels the block the round begins with, and keeps those it finds solved until
\* the round is over; the script goes on with the block it solved last.
Sweep(st) ==
  LET last == Len(st.pending)
      after[n \in 0..last] ==
        IF n = 0 THEN [st EXCEPT !.pending = <<>>, !.progress = FALSE]
        ELSE Look(IF reader = "app" THEN st ELSE after[n - 1],
                  after[n - 1], st.pending[last - n + 1])
  IN after[last]

\* Rounds follow while the last one solved a block.  K are enough: each of them
\* has solved one.
Rounds(start) ==
  LET after[n \in 0..K] ==
        IF n = 0 THEN start
        ELSE IF after[n - 1].progress THEN Sweep(after[n - 1]) ELSE after[n - 1]
  IN after

\* _solveBlock: the block is solved, and peeled from what is pending.
SolveBlock(d, eq) ==
  LET start == Take([solved |-> d.solved, pending |-> d.pending, block |-> 0,
                     progress |-> FALSE], eq)
      done  == Rounds(start)[K]
  IN [d EXCEPT !.solved = done.solved, !.pending = done.pending]

\* The equation of a frame is reduced, and solves a block, or waits, or says
\* nothing new.
AddEquation(d, frame) ==
  LET eq == Reduce(frame, Known(d.solved), d.solved) IN
  IF Degree(eq) = 0 THEN d
  ELSE IF Degree(eq) = 1 THEN SolveBlock(d, eq)
  ELSE [d EXCEPT !.pending = Append(@, eq)]

\* Mutant: the seeds of another session's frames are noted.
AddPacketNoting(d, s, n, frame) ==
  LET bound == [d EXCEPT !.active = IF @ = None THEN s ELSE @]
      noted == [bound EXCEPT !.seeds = @ \cup {n}]
  IN IF s # bound.active THEN noted
     ELSE IF n \in bound.seeds THEN bound
     ELSE AddEquation(noted, frame)

\* addPacket: the first frame binds the session; a frame of another one, or
\* a seed seen before, changes nothing.
AddPacket(d, s, n, frame) ==
  LET bound == [d EXCEPT !.active = IF @ = None THEN s ELSE @] IN
  IF s # bound.active \/ n \in bound.seeds THEN bound
  ELSE AddEquation([bound EXCEPT !.seeds = @ \cup {n}], frame)

\* _checkCompletion: every block is solved.
Complete(d) == Known(d.solved) = Blocks

-----------------------------------------------------------------------------
(* The screens, and the script.                                            *)

\* The merchant generates another request.  The script has one encoder.
Generate(s) ==
  /\ reader = "app"
  /\ s # shown
  /\ shown' = s
  /\ UNCHANGED <<reader, code, decoder, handled, payload>>

\* The decoder after the frame with number n of the session shown.
Reading(n) ==
  AddPacket([active |-> active, solved |-> solved, pending |-> pending, seeds |-> seeds],
            shown, n, [indices |-> code[n], data |-> Source(shown, code[n])])

\* Every block is there: the payload is handed on.
HandOn(d) ==
  /\ handled' = TRUE
  /\ payload' = [i \in 1..K |-> d.solved[i - 1]]

\* The camera reads a frame of the session shown, as often as it likes.  A
\* complete payload is handed on, and the decoder is fresh again.
Detect(n) ==
  /\ reader = "app"
  /\ ~handled
  /\ LET d == Reading(n)
     IN IF Complete(d)
        THEN Become(Fresh) /\ HandOn(d)
        ELSE Become(d) /\ UNCHANGED <<handled, payload>>
  /\ UNCHANGED <<reader, code, shown>>

\* _handleDecodedPayload returns: the scanner looks at frames again.
Return ==
  /\ reader = "app"
  /\ handled
  /\ handled' = FALSE
  /\ UNCHANGED <<reader, code, shown, decoder, payload>>

\* addFrame: the script's decoder keeps what it has solved, and a frame that
\* comes when it is complete changes nothing.
AddFrame(n) ==
  /\ reader = "script"
  /\ IF handled THEN UNCHANGED <<decoder, handled, payload>>
     ELSE LET d == Reading(n)
          IN /\ Become(d)
             /\ IF Complete(d) THEN HandOn(d) ELSE UNCHANGED <<handled, payload>>
  /\ UNCHANGED <<reader, code, shown>>

Next ==
  \/ \E s \in Sessions : Generate(s)
  \/ \E n \in Frames : Detect(n)
  \/ \E n \in Frames : AddFrame(n)
  \/ Return

Spec == Init /\ [][Next]_vars

-----------------------------------------------------------------------------
(* Properties.                                                             *)

\* Type invariant: a pending equation has at least two unknown blocks, and
\* there is no equation or seed before a session is bound.
TypeOK ==
  /\ reader \in {"app", "script"}
  /\ code \in Codes
  /\ shown \in Sessions
  /\ active \in Sessions \cup {None}
  /\ solved \in [Blocks -> SUBSET (Sessions \X Blocks)]
  /\ \A i \in DOMAIN pending : pending[i].indices \subseteq Blocks /\ Degree(pending[i]) > 1
  /\ seeds \subseteq Frames
  /\ handled \in BOOLEAN
  /\ active = None => seeds = {} /\ pending = <<>> /\ Known(solved) = {}

\* Whatever frames were read in whatever order by whichever decoder, what it
\* holds is true of the payload of its session: a solved block is that block,
\* an equation the sum of its blocks, and a payload that is handed on is the
\* whole of one request, in order.
HoldsOfTheSource ==
  /\ \A b \in Known(solved) : solved[b] = Source(active, {b})
  /\ \A i \in DOMAIN pending : pending[i].data = Source(active, pending[i].indices)
  /\ payload # <<>> =>
       \E s \in Sessions : payload = [i \in 1..K |-> Source(s, {i - 1})]

\* The k plain frames of the bound session are enough, in any order and
\* amid any other frames: the decoder does not go on without the payload.
PlainFramesSuffice == Blocks \subseteq seeds => handled
=============================================================================
