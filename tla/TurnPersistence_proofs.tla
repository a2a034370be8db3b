----------------------- MODULE TurnPersistence_proofs -----------------------
(***************************************************************************)
(* Proofs about TurnPersistence, for all messages and limits: what began a *)
(* turn stays in the session, and what is saved is a conversation that a   *)
(* provider accepts.                                                       *)
(***************************************************************************)
EXTENDS TurnPersistence, SequenceTheorems, FiniteSetTheorems,
        WellFoundedInduction, TLAPS

-----------------------------------------------------------------------------
(***************************************************************************)
(* Greatest elements                                                       *)
(***************************************************************************)

\* A non-empty set of numbers up to n has a greatest element.
LEMMA MaxExists ==
  ASSUME NEW n \in Nat, NEW T, T \subseteq 0..n, T # {}
  PROVE  \E x \in T : \A y \in T : y <= x
  <1> DEFINE above == {x .. n : x \in T}
  <1>1. above \subseteq SUBSET (0..n) /\ above # {}
    <2>1. ASSUME NEW x \in T PROVE x .. n \in SUBSET (0..n)
      OBVIOUS
    <2>2. PICK x \in T : TRUE
      OBVIOUS
    <2>3. x .. n \in above
      OBVIOUS
    <2> QED
      BY <2>1, <2>3
  <1>2. IsWellFoundedOn(StrictSubsetOrdering(0..n), SUBSET (0..n))
    <2>1. IsFiniteSet(0..n)
      BY FS_Interval
    <2>2. FiniteSubsetsOf(0..n) = SUBSET (0..n)
      BY <2>1, FS_FiniteSubsetsOfFinite
    <2> QED
      BY <2>2, FS_StrictSubsetOrderingWellFounded
  <1>3. PICK A \in above : \A B \in above : <<B, A>> \notin StrictSubsetOrdering(0..n)
    <2> HIDE DEF above
    <2> QED
      BY <1>1, <1>2, WFMin
  <1>4. PICK x \in T : A = x .. n
    OBVIOUS
  <1>5. ASSUME NEW y \in T, ~ (y <= x) PROVE FALSE
    <2>1. (y..n) \in above /\ (y..n) \subseteq A /\ y..n # A
      BY <1>4, <1>5
    <2> QED
      BY <1>1, <1>3, <2>1 DEF StrictSubsetOrdering
  <1> QED
    BY <1>5

-----------------------------------------------------------------------------
(***************************************************************************)
(* Sequences of rows that only grow                                        *)
(***************************************************************************)

\* t has the rows of s at their places, with the same texts or more.
Grown(s, t) ==
  /\ Len(s) <= Len(t)
  /\ \A i \in 1..Len(s) : s[i].texts \subseteq t[i].texts

LEMMA GrownTexts ==
  ASSUME NEW s \in Seq(Row), NEW t \in Seq(Row), Grown(s, t)
  PROVE  Texts(s) \subseteq Texts(t)
  BY DEF Grown, Texts

LEMMA GrownTransitive ==
  ASSUME NEW s \in Seq(Row), NEW t \in Seq(Row), NEW u \in Seq(Row),
         Grown(s, t), Grown(t, u)
  PROVE  Grown(s, u)
  BY DEF Grown

LEMMA GrownConcat ==
  ASSUME NEW s \in Seq(Row), NEW t \in Seq(Row)
  PROVE  s \o t \in Seq(Row) /\ Grown(s, s \o t)
  BY ConcatProperties DEF Grown

LEMMA GrownAppend ==
  ASSUME NEW s \in Seq(Row), NEW row \in Row
  PROVE  Append(s, row) \in Seq(Row) /\ Append(s, row) # <<>> /\ Grown(s, Append(s, row))
  BY AppendProperties DEF Grown

\* Behind an end the rows of a sequence are rows.
LEMMA TailRows ==
  ASSUME NEW s \in Seq(Row), NEW n \in Nat
  PROVE  SubSeq(s, n + 1, Len(s)) \in Seq(Row)
  <1>1. \A i \in (n + 1)..Len(s) : s[i] \in Row
    OBVIOUS
  <1> QED
    BY <1>1, SubSeqProperties

LEMMA RowTypes ==
  /\ \A S \in SUBSET Messages : User(S) \in Row
  /\ \A step \in Steps, calls \in SUBSET {"tool", "ask"} : Assistant(step, calls) \in Row
  /\ \A step \in Steps, call \in {"tool", "ask"}, S \in SUBSET Messages :
       Result(step, call, S) \in Row
  /\ \A m \in Messages : FollowUp(m) \in Row
  /\ NoStep \in Steps
  <1>1. NoStep \in Steps
    BY ConstantsAssumption DEF NoStep, Steps
  <1> QED
    BY <1>1 DEF User, Assistant, Result, FollowUp, Row

LEMMA ResultsType ==
  ASSUME NEW step \in Steps, NEW calls \in SUBSET {"tool", "ask"}
  PROVE  Results(step, calls) \in Seq(Row)
  <1> DEFINE tool == IF "tool" \in calls THEN <<Result(step, "tool", {})>> ELSE <<>>
             ask == IF "ask" \in calls THEN <<Result(step, "ask", {})>> ELSE <<>>
  <1>1. Result(step, "tool", {}) \in Row /\ Result(step, "ask", {}) \in Row
    BY RowTypes
  <1>2. tool \in Seq(Row) /\ ask \in Seq(Row)
    BY <1>1
  <1> HIDE DEF tool, ask
  <1>3. tool \o ask \in Seq(Row)
    BY <1>2, ConcatProperties
  <1> QED
    BY <1>3 DEF Results, tool, ask

-----------------------------------------------------------------------------
(***************************************************************************)
(* Repair and the runner's helpers                                         *)
(***************************************************************************)

\* Every sequence ends with nothing.
LEMMA EmptySuffix ==
  ASSUME NEW s \in Seq(Row)
  PROVE  IsSuffix(<<>>, s)
  <1>1. Len(Reverse(<<>>)) = 0
    BY DEF Reverse
  <1>2. Len(Reverse(s)) \in Nat
    BY DEF Reverse
  <1>3. SubSeq(Reverse(<<>>), 1, 0) = <<>> /\ SubSeq(Reverse(s), 1, 0) = <<>>
    BY SubSeqEmpty
  <1> QED
    BY <1>1, <1>2, <1>3 DEF IsSuffix, IsPrefix

\* The overlap of a checkpoint with the session exists.
LEMMA OverlapType ==
  ASSUME rows \in Seq(Row), checkpoint \in Seq(Row)
  PROVE  Overlap \in 0..Len(checkpoint) /\ IsSuffix(SubSeq(checkpoint, 1, Overlap), rows)
  <1> DEFINE Ends(n) == IsSuffix(SubSeq(checkpoint, 1, n), rows)
             T == {n \in 0..Len(checkpoint) : Ends(n)}
  <1>1. 0 \in T
    <2>1. SubSeq(checkpoint, 1, 0) = <<>>
      BY SubSeqEmpty
    <2>2. Ends(0)
      BY <2>1, EmptySuffix
    <2>3. 0 \in 0..Len(checkpoint)
      OBVIOUS
    <2> QED
      BY <2>2, <2>3
  <1>2. Len(checkpoint) \in Nat /\ T \subseteq 0..Len(checkpoint) /\ T # {}
    BY <1>1
  <1>3. PICK x \in T : \A y \in T : y <= x
    <2> HIDE DEF T
    <2> QED
      BY <1>2, MaxExists
  <1>4. x \in 0..Len(checkpoint) /\ Ends(x) /\ \A i \in (x + 1)..Len(checkpoint) : ~Ends(i)
    <2> HIDE DEF Ends
    <2> QED
      BY <1>2, <1>3
  <1> HIDE DEF Ends
  <1> DEFINE overlap == CHOOSE n \in 0..Len(checkpoint) :
                          Ends(n) /\ \A i \in (n + 1)..Len(checkpoint) : ~Ends(i)
  <1>5. overlap \in 0..Len(checkpoint) /\ Ends(overlap)
    BY <1>4
  <1>6. Overlap = overlap
    BY DEF Overlap, Ends
  <1> HIDE DEF overlap
  <1> QED
    BY <1>5, <1>6 DEF Ends

\* Repair leaves what is there and adds rows behind it.
LEMMA RestoredGrown ==
  ASSUME rows \in Seq(Row), checkpoint \in Seq(Row)
  PROVE  Restored \in Seq(Row) /\ Grown(rows, Restored)
  <1>1. WithCheckpoint \in Seq(Row) /\ Grown(rows, WithCheckpoint)
    <2>1. SubSeq(checkpoint, Overlap + 1, Len(checkpoint)) \in Seq(Row)
      BY OverlapType, TailRows
    <2> QED
      BY <2>1, GrownConcat DEF WithCheckpoint
  <1>2. /\ Append(rows, Assistant(NoStep, {})) \in Seq(Row)
        /\ Grown(rows, Append(rows, Assistant(NoStep, {})))
    BY RowTypes, GrownAppend
  <1>3. Grown(rows, rows)
    BY DEF Grown
  <1> QED
    BY <1>1, <1>2, <1>3 DEF Restored

\* An open question is a step of the session.
LEMMA LastAskedType ==
  ASSUME NEW s \in Seq(Row), Asked(s) # {}
  PROVE  LastAsked(s) \in Steps
  <1> DEFINE T == {i \in DOMAIN s : s[i].step \in Asked(s)}
  <1>1. DOMAIN s = 1..Len(s) /\ Len(s) \in Nat /\ \A i \in DOMAIN s : s[i] \in Row
    OBVIOUS
  <1>2. T \subseteq 0..Len(s) /\ T # {}
    BY <1>1 DEF Asked
  <1>3. PICK x \in T : \A y \in T : y <= x
    <2> HIDE DEF T
    <2> QED
      BY <1>1, <1>2, MaxExists
  <1>4. x \in DOMAIN s /\ s[x].step \in Asked(s)
        /\ \A j \in DOMAIN s : s[j].step \in Asked(s) => j <= x
    BY <1>3
  <1>5. (CHOOSE i \in DOMAIN s :
           /\ s[i].step \in Asked(s)
           /\ \A j \in DOMAIN s : s[j].step \in Asked(s) => j <= i) \in DOMAIN s
    BY <1>4
  <1> QED
    BY <1>1, <1>5 DEF LastAsked, Row

\* More texts in the last row.
LEMMA MergeGrown ==
  ASSUME NEW s \in Seq(Row), s # <<>>, NEW S \in SUBSET Messages
  PROVE  LET t == [s EXCEPT ![Len(s)].texts = @ \cup S] IN
         /\ t \in Seq(Row) /\ t # <<>> /\ Grown(s, t)
         /\ Len(t) = Len(s) /\ t[Len(s)].texts = s[Len(s)].texts \cup S
  <1> DEFINE row == [s[Len(s)] EXCEPT !.texts = @ \cup S]
             t == [s EXCEPT ![Len(s)] = row]
  <1>1. Len(s) \in 1..Len(s) /\ s[Len(s)] \in Row
    OBVIOUS
  <1>2. row \in Row /\ row.texts = s[Len(s)].texts \cup S
    BY <1>1 DEF Row
  <1>3. /\ t \in Seq(Row) /\ Len(t) = Len(s)
        /\ \A j \in 1..Len(s) : t[j] = IF j = Len(s) THEN row ELSE s[j]
    <2> HIDE DEF row
    <2> QED
      BY <1>1, <1>2, ExceptSeq
  <1>4. t # <<>>
    BY <1>1, <1>3
  <1>5. t[Len(s)].texts = s[Len(s)].texts \cup S
    <2> HIDE DEF t, row
    <2> QED
      BY <1>1, <1>2, <1>3
  <1>6. Grown(s, t)
    <2>1. \A j \in 1..Len(s) : s[j].texts \subseteq t[j].texts
      <3> HIDE DEF t, row
      <3> QED
        BY <1>1, <1>2, <1>3
    <2> QED
      BY <1>3, <2>1 DEF Grown
  <1> QED
    BY <1>3, <1>4, <1>5, <1>6

LEMMA InjectGrown ==
  ASSUME NEW s \in Seq(Row), s # <<>>, NEW S \in SUBSET Messages
  PROVE  Inject(s, S) \in Seq(Row) /\ Inject(s, S) # <<>> /\ Grown(s, Inject(s, S))
  BY MergeGrown, GrownAppend, RowTypes DEF Inject

LEMMA PlaceholderGrown ==
  ASSUME NEW s \in Seq(Row), s # <<>>, Step \in Steps, <<turn, MaxIterations>> \in Steps
  PROVE  /\ WithPlaceholder(s) \in Seq(Row) /\ WithPlaceholder(s) # <<>>
         /\ Grown(s, WithPlaceholder(s))
         /\ WithLimitMessage(s) \in Seq(Row) /\ WithLimitMessage(s) # <<>>
         /\ Grown(s, WithLimitMessage(s))
  <1>1. Grown(s, s)
    BY DEF Grown
  <1>2. Assistant(Step, {}) \in Row /\ Assistant(<<turn, MaxIterations>>, {}) \in Row
    BY RowTypes
  <1> QED
    BY <1>1, <1>2, GrownAppend DEF WithPlaceholder, WithLimitMessage

-----------------------------------------------------------------------------
(***************************************************************************)
(* The inductive invariant                                                 *)
(***************************************************************************)

Running == pc \in {"model", "tools", "drain", "closing", "ending"}

\* What began the turn is saved, or it is the first row _save_turn will save.
PromptUnderWay ==
  \/ turn \in prompts
  \/ skip < Len(msgs) /\ turn \in msgs[skip + 1].texts

TurnInv ==
  /\ TypeOK
  /\ PromptsSaved
  /\ Running => msgs # <<>> /\ PromptUnderWay

LEMMA StepTypes ==
  ASSUME TypeOK, pc # "idle"
  PROVE  turn \in Messages /\ Step \in Steps /\ <<turn, MaxIterations>> \in Steps
  BY ConstantsAssumption DEF TypeOK, Step, Steps

\* A runner that only adds to its messages keeps what it has to save.
LEMMA RunnerKeeps ==
  ASSUME TurnInv, Running,
         msgs' \in Seq(Row), msgs' # <<>>, Grown(msgs, msgs'),
         UNCHANGED <<rows, turn, skip, prompts>>
  PROVE  PromptsSaved' /\ (Running' => msgs' # <<>> /\ PromptUnderWay')
  <1>1. PromptsSaved'
    BY DEF TurnInv, PromptsSaved, Texts
  <1>2. CASE turn \in prompts
    BY <1>1, <1>2 DEF PromptUnderWay
  <1>3. CASE skip < Len(msgs) /\ turn \in msgs[skip + 1].texts
    <2>1. skip + 1 \in 1..Len(msgs) /\ Len(msgs') \in Nat
      BY <1>3 DEF TurnInv, TypeOK
    <2>2. skip' < Len(msgs') /\ turn' \in msgs'[skip' + 1].texts
      BY <1>3, <2>1 DEF Grown, TurnInv, TypeOK
    <2> QED
      BY <1>1, <2>2 DEF PromptUnderWay
  <1> QED
    BY <1>2, <1>3 DEF TurnInv, PromptUnderWay

LEMMA ContinueGrown ==
  ASSUME TypeOK, pc # "idle", NEW s \in Seq(Row), s # <<>>, Grown(msgs, s), Continue(s)
  PROVE  /\ msgs' \in Seq(Row) /\ msgs' # <<>> /\ Grown(msgs, msgs')
         /\ iter' \in 0..MaxIterations /\ pc' \in {"model", "closing"}
  <1>1. CASE msgs' = s /\ iter' = iter + 1 /\ pc' = "model" /\ iter + 1 < MaxIterations
    BY <1>1, ConstantsAssumption DEF TypeOK
  <1>2. CASE msgs' = WithLimitMessage(s) /\ iter' = MaxIterations /\ pc' = "closing"
    <2>1. /\ WithLimitMessage(s) \in Seq(Row) /\ WithLimitMessage(s) # <<>>
          /\ Grown(s, WithLimitMessage(s))
      BY StepTypes, PlaceholderGrown
    <2>2. Grown(msgs, WithLimitMessage(s))
      BY <2>1, GrownTransitive DEF TypeOK
    <2> QED
      BY <1>2, <2>1, <2>2, ConstantsAssumption
  <1> QED
    BY <1>1, <1>2 DEF Continue

LEMMA DrainedType ==
  ASSUME TypeOK, NEW S \in Drainable, Drained(S)
  PROVE  /\ S \in SUBSET Messages
         /\ inbox' \subseteq Messages /\ unsent' = unsent /\ inbox' \cap unsent = {}
         /\ injected' \subseteq Messages /\ cycles' \in 0..MaxCycles
  <1>1. cycles \in Nat /\ MaxCycles \in Nat
    BY ConstantsAssumption DEF TypeOK
  <1>2. cycles < MaxCycles /\ S \subseteq inbox
    BY <1>1 DEF Drainable, Drained
  <1> QED
    BY <1>1, <1>2 DEF Drained, TypeOK

\* Messages drained and appended behind s.
LEMMA DrainContinues ==
  ASSUME TurnInv, Running, NEW s \in Seq(Row), s # <<>>, Grown(msgs, s),
         NEW S \in Drainable, Drained(S), Continue(Inject(s, S)),
         UNCHANGED <<rows, pendingUser, turn, skip, history>>, checkpoint' \in Seq(Row)
  PROVE  TurnInv'
  <1>1. pc # "idle"
    BY DEF Running
  <1>2. S \in SUBSET Messages
    BY DrainedType DEF TurnInv
  <1>3. /\ Inject(s, S) \in Seq(Row) /\ Inject(s, S) # <<>>
        /\ Grown(s, Inject(s, S))
    BY <1>2, InjectGrown
  <1>4. Grown(msgs, Inject(s, S))
    BY <1>3, GrownTransitive DEF TurnInv, TypeOK
  <1>5. /\ msgs' \in Seq(Row) /\ msgs' # <<>> /\ Grown(msgs, msgs')
        /\ iter' \in 0..MaxIterations /\ pc' \in {"model", "closing"}
    BY <1>1, <1>3, <1>4, ContinueGrown DEF TurnInv
  <1>6. TypeOK'
    <2>1. /\ inbox' \subseteq Messages /\ unsent' = unsent /\ inbox' \cap unsent = {}
          /\ injected' \subseteq Messages /\ cycles' \in 0..MaxCycles
      BY DrainedType DEF TurnInv
    <2> QED
      BY <1>1, <1>5, <2>1 DEF TurnInv, TypeOK, history
  <1> QED
    BY <1>5, <1>6, RunnerKeeps DEF TurnInv, history

-----------------------------------------------------------------------------
(***************************************************************************)
(* One lemma per action that does more than move a message                 *)
(***************************************************************************)

\* The session keeps its texts while it only grows.
LEMMA SessionGrows ==
  ASSUME TurnInv, rows' \in Seq(Row), Grown(rows, rows')
  PROVE  prompts \subseteq Texts(rows')
  BY GrownTexts DEF TurnInv, TypeOK, PromptsSaved

LEMMA TextsAppend ==
  ASSUME NEW s \in Seq(Row), NEW row \in Row
  PROVE  row.texts \subseteq Texts(Append(s, row))
  <1>1. Append(s, row)[Len(s) + 1] = row /\ Len(s) + 1 \in DOMAIN Append(s, row)
    BY AppendProperties
  <1> QED
    BY <1>1 DEF Texts

LEMMA BeginTurnInv ==
  ASSUME TurnInv, NEW m \in Messages, BeginTurn(m)
  PROVE  TurnInv'
  <1>1. rows' \in Seq(Row) /\ Grown(rows, rows')
    BY RestoredGrown DEF TurnInv, TypeOK, BeginTurn
  <1>2. PromptsSaved'
    BY <1>1, SessionGrows DEF BeginTurn, history, PromptsSaved
  <1>3. TypeOK'
    <2>1. <<>> \in Seq(Row)
      BY EmptySeq
    <2>2. m # None
      BY ConstantsAssumption
    <2> QED
      BY <1>1, <2>1, <2>2 DEF TurnInv, TypeOK, BeginTurn, runner, history
  <1> QED
    BY <1>2, <1>3 DEF TurnInv, Running, BeginTurn

LEMMA PrepareInv ==
  ASSUME TurnInv, Prepare
  PROVE  TurnInv'
  <1> USE DEF Prepare
  <1>1. turn \in Messages /\ rows \in Seq(Row) /\ Len(rows) \in Nat
    BY DEF TurnInv, TypeOK
  <1>2. ASSUME rows' \in Seq(Row), msgs' \in Seq(Row), skip' \in Nat,
               prompts' \subseteq Messages, pendingUser' \in BOOLEAN, UNCHANGED checkpoint
        PROVE  TypeOK'
    BY <1>2 DEF TurnInv, TypeOK, channels
  <1>3. CASE AnswerQuestion
    <2> DEFINE row == Result(LastAsked(rows), "ask", {turn})
    <2>1. row \in Row
      BY <1>1, <1>3, LastAskedType, RowTypes DEF AnswerQuestion
    <2>2. msgs' = Append(rows, row) /\ skip' = Len(rows) /\ UNCHANGED <<session, prompts>>
      BY <1>3 DEF AnswerQuestion
    <2>3. turn \in row.texts
      BY DEF Result
    <2> HIDE DEF row
    <2>4. /\ msgs' \in Seq(Row) /\ msgs' # <<>>
          /\ skip' < Len(msgs') /\ msgs'[skip' + 1] = row
      BY <1>1, <2>1, <2>2, AppendProperties
    <2>5. TypeOK'
      BY <1>1, <1>2, <2>2, <2>4 DEF TurnInv, TypeOK, session
    <2>6. PromptsSaved'
      BY <2>2 DEF TurnInv, PromptsSaved, session, Texts
    <2> QED
      BY <2>3, <2>4, <2>5, <2>6 DEF TurnInv, PromptUnderWay
  <1>4. CASE PersistPrompt
    <2> DEFINE row == User({turn})
    <2>1. row \in Row /\ row.texts = {turn}
      BY <1>1, RowTypes DEF User
    <2>2. /\ rows' = Append(rows, row) /\ skip' = Len(rows) + 1
          /\ prompts' = prompts \cup {turn} /\ pendingUser' = TRUE /\ UNCHANGED checkpoint
          /\ \/ msgs' = rows'
             \/ rows # <<>> /\ msgs' = [rows EXCEPT ![Len(rows)].texts = @ \cup {turn}]
      BY <1>4 DEF PersistPrompt, EndsWith
    <2> HIDE DEF row
    <2>3. rows' \in Seq(Row) /\ rows' # <<>> /\ Grown(rows, rows')
      BY <1>1, <2>1, <2>2, GrownAppend
    <2>4. msgs' \in Seq(Row) /\ msgs' # <<>>
      <3>1. ASSUME rows # <<>>
            PROVE  LET t == [rows EXCEPT ![Len(rows)].texts = @ \cup {turn}] IN
                   t \in Seq(Row) /\ t # <<>>
        <4>1. {turn} \in SUBSET Messages
          BY <1>1
        <4> QED
          BY <1>1, <3>1, <4>1, MergeGrown
      <3> QED
        BY <2>2, <2>3, <3>1
    <2>5. PromptsSaved'
      BY <1>1, <2>1, <2>2, <2>3, SessionGrows, TextsAppend DEF PromptsSaved
    <2>6. TypeOK'
      BY <1>1, <1>2, <2>2, <2>3, <2>4 DEF TurnInv, TypeOK
    <2> QED
      BY <2>2, <2>4, <2>5, <2>6 DEF TurnInv, PromptUnderWay
  <1>5. CASE PersistFollowUp
    <2> DEFINE row == FollowUp(turn)
    <2>1. row \in Row /\ row.texts = {turn}
      BY <1>1, RowTypes DEF FollowUp, Assistant
    <2>2. /\ rows' = Append(rows, row) /\ msgs' = rows' /\ skip' = Len(rows')
          /\ prompts' = prompts \cup {turn} /\ UNCHANGED <<pendingUser, checkpoint>>
      BY <1>5 DEF PersistFollowUp
    <2> HIDE DEF row
    <2>3. rows' \in Seq(Row) /\ rows' # <<>> /\ Grown(rows, rows') /\ Len(rows') \in Nat
      BY <1>1, <2>1, <2>2, GrownAppend
    <2>4. PromptsSaved'
      BY <1>1, <2>1, <2>2, <2>3, SessionGrows, TextsAppend DEF PromptsSaved
    <2>5. TypeOK'
      BY <1>1, <1>2, <2>2, <2>3 DEF TurnInv, TypeOK
    <2> QED
      BY <2>2, <2>3, <2>4, <2>5 DEF TurnInv, PromptUnderWay
  <1> QED
    BY <1>3, <1>4, <1>5

LEMMA SaveTurnInv ==
  ASSUME TurnInv, SaveTurn
  PROVE  TurnInv'
  <1> USE DEF SaveTurn, TurnRows
  <1> DEFINE new == SubSeq(msgs, skip + 1, Len(msgs))
  <1>1. rows \in Seq(Row) /\ msgs \in Seq(Row) /\ skip \in Nat /\ turn \in Messages
    BY DEF TurnInv, TypeOK
  <1>2. new \in Seq(Row) /\ rows' = rows \o new
    BY <1>1, TailRows
  <1>3. rows' \in Seq(Row) /\ Grown(rows, rows')
    BY <1>1, <1>2, GrownConcat
  <1>4. turn \in Texts(rows')
    <2>1. CASE turn \in prompts
      BY <1>3, <2>1, SessionGrows
    <2>2. CASE skip < Len(msgs) /\ turn \in msgs[skip + 1].texts
      <3>1. Len(new) > 0 /\ new[1] = msgs[skip + 1]
        BY <1>1, <2>2, SubSeqProperties
      <3>2. Len(rows) + 1 \in DOMAIN rows' /\ rows'[Len(rows) + 1] = new[1]
        BY <1>1, <1>2, <3>1, ConcatProperties
      <3> QED
        BY <2>2, <3>1, <3>2 DEF Texts
    <2> QED
      BY <2>1, <2>2 DEF TurnInv, Running, PromptUnderWay
  <1>5. PromptsSaved'
    BY <1>3, <1>4, SessionGrows DEF PromptsSaved
  <1>6. TypeOK'
    <2>1. <<>> \in Seq(Row) /\ 0 \in 0..MaxCycles /\ 0 \in 0..MaxIterations
      BY EmptySeq, ConstantsAssumption
    <2> QED
      BY <1>1, <1>3, <2>1 DEF TurnInv, TypeOK, TurnOver, channels
  <1> QED
    BY <1>5, <1>6 DEF TurnInv, TurnOver, Running

\* /stop, a crash and /new end the turn wherever it is.
LEMMA EndedInv ==
  ASSUME TurnInv,
         Interrupt \/ Crash \/ \E m \in Messages : New(m)
  PROVE  TurnInv'
  <1>1. <<>> \in Seq(Row) /\ 0 \in 0..MaxCycles /\ 0 \in 0..MaxIterations
    BY EmptySeq, ConstantsAssumption
  <1>2. TurnOver
    BY DEF Interrupt, Crash, New, Forget
  <1>3. CASE Interrupt \/ Crash
    <2>1. UNCHANGED <<unsent, session, history>> /\ inbox' \subseteq inbox
      BY <1>3 DEF Interrupt, Crash, channels
    <2>2. TypeOK'
      BY <1>1, <1>2, <2>1 DEF TurnInv, TypeOK, TurnOver, session, history
    <2> QED
      BY <1>2, <2>1, <2>2
      DEF TurnInv, TurnOver, Running, PromptsSaved, Texts, session, history
  <1>4. CASE \E m \in Messages : New(m)
    <2>1. /\ inbox' \subseteq inbox /\ UNCHANGED unsent
          /\ rows' = <<>> /\ prompts' = {} /\ absorbed' = {} /\ forgotten' \subseteq Messages
          /\ pendingUser' \in BOOLEAN /\ checkpoint' \in Seq(Row)
      BY <1>1, <1>4 DEF New, Forget, TurnInv, TypeOK
    <2>2. TypeOK'
      BY <1>1, <1>2, <2>1 DEF TurnInv, TypeOK, TurnOver
    <2> QED
      BY <1>2, <2>1, <2>2 DEF TurnInv, TurnOver, Running, PromptsSaved
  <1> QED
    BY <1>3, <1>4

LEMMA ToolCallsInv ==
  ASSUME TurnInv, NEW calls \in SUBSET {"tool", "ask"}, ToolCalls(calls)
  PROVE  TurnInv'
  <1> DEFINE row == Assistant(Step, calls)
  <1>1. Running /\ pc # "idle"
    BY DEF ToolCalls, Running
  <1>2. row \in Row /\ Results(Step, calls) \in Seq(Row)
    BY <1>1, StepTypes, RowTypes, ResultsType DEF TurnInv
  <1>3. msgs' = Append(msgs, row) /\ checkpoint' = <<row>> \o Results(Step, calls)
    BY DEF ToolCalls
  <1> HIDE DEF row
  <1>4. msgs' \in Seq(Row) /\ msgs' # <<>> /\ Grown(msgs, msgs')
    BY <1>2, <1>3, GrownAppend DEF TurnInv, TypeOK
  <1>5. checkpoint' \in Seq(Row) /\ checkpoint' # <<>>
    <2>1. <<row>> \in Seq(Row) /\ Len(<<row>>) = 1
      BY <1>2
    <2>2. Len(checkpoint') >= 1 /\ checkpoint' \in Seq(Row)
      BY <1>2, <1>3, <2>1, ConcatProperties
    <2> QED
      BY <2>2
  <1>6. TypeOK'
    BY <1>1, <1>4, <1>5 DEF TurnInv, TypeOK, ToolCalls, channels, history
  <1> QED
    BY <1>1, <1>4, <1>6, RunnerKeeps DEF TurnInv, ToolCalls, history

LEMMA ToolsDoneInv ==
  ASSUME TurnInv, ToolsDone
  PROVE  TurnInv'
  <1> DEFINE last == Last(msgs)
             results == Results(Step, last.calls \ {"ask"})
  <1>1. Running /\ pc # "idle" /\ checkpoint # <<>>
    BY DEF ToolsDone, Running, TurnInv, TypeOK
  <1>2. last \in Row
    BY <1>1 DEF TurnInv, TypeOK, Last
  <1>3. results \in Seq(Row)
    <2>1. last.calls \ {"ask"} \in SUBSET {"tool", "ask"}
      BY <1>2 DEF Row
    <2> QED
      BY <1>1, <2>1, StepTypes, ResultsType DEF TurnInv
  <1>4. /\ msgs' = msgs \o results
        /\ \/ pc' = "ending" /\ UNCHANGED checkpoint
           \/ pc' = "drain" /\ checkpoint' = <<last>> \o results
    BY DEF ToolsDone
  <1> HIDE DEF last, results
  <1>5. msgs' \in Seq(Row) /\ msgs' # <<>> /\ Grown(msgs, msgs')
    <2>1. msgs \in Seq(Row) /\ msgs # <<>>
      BY <1>1 DEF TurnInv, TypeOK
    <2> QED
      BY <1>3, <1>4, <2>1, GrownConcat, ConcatEqualIffEmpty, ConcatProperties
  <1>6. checkpoint' \in Seq(Row) /\ checkpoint' # <<>>
    <2>1. <<last>> \in Seq(Row) /\ Len(<<last>>) = 1
      BY <1>2
    <2>2. <<last>> \o results \in Seq(Row) /\ Len(<<last>> \o results) >= 1
      BY <1>3, <2>1, ConcatProperties
    <2>3. <<last>> \o results # <<>>
      BY <2>2
    <2> QED
      BY <1>1, <1>4, <2>2, <2>3 DEF TurnInv, TypeOK
  <1>7. TypeOK'
    BY <1>1, <1>4, <1>5, <1>6 DEF TurnInv, TypeOK, ToolsDone, channels, history
  <1> QED
    BY <1>1, <1>5, <1>7, RunnerKeeps DEF TurnInv, ToolsDone, history

LEMMA ToolFailsInv ==
  ASSUME TurnInv, ToolFails
  PROVE  TurnInv'
  <1>1. Running /\ pc # "idle" /\ msgs \in Seq(Row) /\ msgs # <<>>
    BY DEF ToolFails, Running, TurnInv, TypeOK
  <1>2. ASSUME NEW calls \in SUBSET {"tool", "ask"},
               msgs' = WithPlaceholder(msgs \o Results(Step, calls))
        PROVE  msgs' \in Seq(Row) /\ msgs' # <<>> /\ Grown(msgs, msgs')
    <2> DEFINE s == msgs \o Results(Step, calls)
    <2>1. Results(Step, calls) \in Seq(Row)
      BY <1>1, StepTypes, ResultsType DEF TurnInv
    <2>2. s \in Seq(Row) /\ s # <<>> /\ Grown(msgs, s)
      BY <1>1, <2>1, GrownConcat, ConcatEqualIffEmpty, ConcatProperties
    <2>3. msgs' = WithPlaceholder(s)
      BY <1>2
    <2> HIDE DEF s
    <2>4. /\ WithPlaceholder(s) \in Seq(Row) /\ WithPlaceholder(s) # <<>>
          /\ Grown(s, WithPlaceholder(s))
      BY <1>1, <2>2, StepTypes, PlaceholderGrown DEF TurnInv
    <2> QED
      BY <1>1, <2>2, <2>3, <2>4, GrownTransitive
  <1>3. Last(msgs).calls \in SUBSET {"tool", "ask"}
    <2>1. Last(msgs) \in Row
      BY <1>1 DEF Last
    <2> QED
      BY <2>1 DEF Row
  <1>4. /\ \/ msgs' = WithPlaceholder(msgs \o Results(Step, Last(msgs).calls))
           \/ msgs' = WithPlaceholder(msgs \o Results(Step, {"tool"}))
        /\ pc' \in {"closing", "ending"}
    BY DEF ToolFails
  <1>5. msgs' \in Seq(Row) /\ msgs' # <<>> /\ Grown(msgs, msgs')
    <2>1. {"tool"} \in SUBSET {"tool", "ask"}
      OBVIOUS
    <2> QED
      BY <1>2, <1>3, <1>4, <2>1
  <1>6. TypeOK'
    BY <1>1, <1>4, <1>5 DEF TurnInv, TypeOK, ToolFails, channels, session, history
  <1> QED
    BY <1>1, <1>5, <1>6, RunnerKeeps DEF TurnInv, ToolFails, session, history

\* A drain that found nothing leaves what a drain would change.
LEMMA NothingDrainedKeeps ==
  ASSUME TurnInv, Running, NothingDrained,
         msgs' \in Seq(Row), msgs' # <<>>, Grown(msgs, msgs'), iter' \in 0..MaxIterations,
         pc' \in {"model", "closing", "ending"}, checkpoint' \in Seq(Row),
         UNCHANGED <<rows, pendingUser, turn, skip, history>>
  PROVE  TurnInv'
  <1>1. TypeOK'
    BY DEF TurnInv, TypeOK, Running, NothingDrained, channels, history
  <1> QED
    BY <1>1, RunnerKeeps DEF TurnInv, history

LEMMA DrainAfterToolsInv ==
  ASSUME TurnInv, DrainAfterTools
  PROVE  TurnInv'
  <1>1. Running /\ pc # "idle" /\ msgs \in Seq(Row) /\ msgs # <<>> /\ Grown(msgs, msgs)
    BY DEF DrainAfterTools, Running, TurnInv, TypeOK, Grown
  <1>2. checkpoint' \in Seq(Row) /\ UNCHANGED <<rows, pendingUser, turn, skip, history>>
    BY DEF DrainAfterTools, session, TurnInv, TypeOK
  <1>3. CASE \E S \in Drainable : Drained(S) /\ Continue(Inject(msgs, S))
    BY <1>1, <1>2, <1>3, DrainContinues
  <1>4. CASE NothingDrained /\ Continue(msgs)
    BY <1>1, <1>2, <1>4, ContinueGrown, NothingDrainedKeeps DEF TurnInv
  <1> QED
    BY <1>3, <1>4 DEF DrainAfterTools

LEMMA AnswerInv ==
  ASSUME TurnInv, Answer
  PROVE  TurnInv'
  <1> DEFINE s == Append(msgs, Assistant(Step, {}))
  <1>1. Running /\ pc # "idle"
    BY DEF Answer, Running
  <1>2. Assistant(Step, {}) \in Row
    BY <1>1, StepTypes, RowTypes DEF TurnInv
  <1>3. s \in Seq(Row) /\ s # <<>> /\ Grown(msgs, s)
    BY <1>2, GrownAppend DEF TurnInv, TypeOK
  <1>4. checkpoint' \in Seq(Row) /\ UNCHANGED <<rows, pendingUser, turn, skip, history>>
    BY <1>2 DEF Answer
  <1>5. \/ \E S \in Drainable : Drained(S) /\ Continue(Inject(s, S))
        \/ NothingDrained /\ msgs' = s /\ pc' = "ending" /\ iter' = iter
    BY DEF Answer
  <1> HIDE DEF s
  <1>6. CASE \E S \in Drainable : Drained(S) /\ Continue(Inject(s, S))
    BY <1>1, <1>3, <1>4, <1>6, DrainContinues
  <1>7. CASE NothingDrained /\ msgs' = s /\ pc' = "ending" /\ iter' = iter
    <2>1. iter' \in 0..MaxIterations
      BY <1>7 DEF TurnInv, TypeOK
    <2> QED
      BY <1>1, <1>3, <1>4, <1>7, <2>1, NothingDrainedKeeps
  <1> QED
    BY <1>5, <1>6, <1>7

LEMMA NoAnswerInv ==
  ASSUME TurnInv, NoAnswer
  PROVE  TurnInv'
  <1>1. Running /\ pc # "idle" /\ msgs \in Seq(Row) /\ msgs # <<>> /\ Grown(msgs, msgs)
    BY DEF NoAnswer, Running, TurnInv, TypeOK, Grown
  <1>2. checkpoint' \in Seq(Row) /\ UNCHANGED <<rows, pendingUser, turn, skip, history>>
    BY DEF NoAnswer, session, TurnInv, TypeOK
  <1>3. CASE \E S \in Drainable : Drained(S) /\ Continue(Inject(msgs, S))
    BY <1>1, <1>2, <1>3, DrainContinues
  <1>4. CASE NothingDrained /\ msgs' = WithPlaceholder(msgs) /\ pc' = "closing" /\ iter' = iter
    <2>1. msgs' \in Seq(Row) /\ msgs' # <<>> /\ Grown(msgs, msgs')
      BY <1>1, <1>4, StepTypes, PlaceholderGrown DEF TurnInv
    <2>2. iter' \in 0..MaxIterations
      BY <1>4 DEF TurnInv, TypeOK
    <2> QED
      BY <1>1, <1>2, <1>4, <2>1, <2>2, NothingDrainedKeeps
  <1> QED
    BY <1>3, <1>4 DEF NoAnswer

LEMMA RetryInv ==
  ASSUME TurnInv, Retry
  PROVE  TurnInv'
  <1> DEFINE s == msgs \o <<Assistant(Step, {}), User({})>>
  <1>1. Running /\ pc # "idle" /\ msgs \in Seq(Row) /\ msgs # <<>> /\ Grown(msgs, msgs)
    BY DEF Retry, Running, TurnInv, TypeOK, Grown
  <1>2. s \in Seq(Row) /\ s # <<>> /\ Grown(msgs, s)
    <2>1. Assistant(Step, {}) \in Row /\ User({}) \in Row
      BY <1>1, StepTypes, RowTypes DEF TurnInv
    <2>2. <<Assistant(Step, {}), User({})>> \in Seq(Row)
      BY <2>1
    <2>3. \A t \in Seq(Row) : msgs \o t \in Seq(Row) /\ Grown(msgs, msgs \o t) /\ msgs \o t # <<>>
      BY <1>1, GrownConcat, ConcatEqualIffEmpty
    <2> QED
      BY <2>2, <2>3
  <1>3. Continue(msgs) \/ Continue(s)
    BY DEF Retry
  <1> HIDE DEF s
  <1>4. /\ msgs' \in Seq(Row) /\ msgs' # <<>> /\ Grown(msgs, msgs')
        /\ iter' \in 0..MaxIterations /\ pc' \in {"model", "closing"}
    BY <1>1, <1>2, <1>3, ContinueGrown DEF TurnInv
  <1>5. TypeOK'
    BY <1>1, <1>4 DEF TurnInv, TypeOK, Retry, channels, session, history
  <1> QED
    BY <1>1, <1>4, <1>5, RunnerKeeps DEF TurnInv, Retry, session, history

LEMMA CloseInv ==
  ASSUME TurnInv, Close
  PROVE  TurnInv'
  <1>1. Running /\ pc # "idle" /\ msgs \in Seq(Row) /\ msgs # <<>> /\ Grown(msgs, msgs)
    BY DEF Close, Running, TurnInv, TypeOK, Grown
  <1>2. checkpoint' \in Seq(Row) /\ UNCHANGED <<rows, pendingUser, turn, skip, history>>
    BY DEF Close, session, TurnInv, TypeOK
  <1>3. CASE \E S \in Drainable : Drained(S) /\ Continue(Inject(msgs, S))
    BY <1>1, <1>2, <1>3, DrainContinues
  <1>4. ASSUME NEW S \in Drainable, Drained(S), iter' = iter,
               msgs' = Inject(msgs, S), pc' = "ending"
        PROVE  TurnInv'
    <2>1. /\ S \in SUBSET Messages
          /\ inbox' \subseteq Messages /\ unsent' = unsent /\ inbox' \cap unsent = {}
          /\ injected' \subseteq Messages /\ cycles' \in 0..MaxCycles
      BY <1>4, DrainedType DEF TurnInv
    <2>2. msgs' \in Seq(Row) /\ msgs' # <<>> /\ Grown(msgs, msgs')
      BY <1>1, <1>4, <2>1, InjectGrown
    <2>3. TypeOK'
      BY <1>1, <1>2, <1>4, <2>1, <2>2 DEF TurnInv, TypeOK, history
    <2> QED
      BY <1>1, <1>2, <2>2, <2>3, RunnerKeeps DEF TurnInv, history
  <1>5. CASE NothingDrained /\ pc' = "ending" /\ UNCHANGED <<msgs, iter>>
    <2>1. iter' \in 0..MaxIterations /\ Grown(msgs, msgs')
      BY <1>1, <1>5 DEF TurnInv, TypeOK
    <2> QED
      BY <1>1, <1>2, <1>5, <2>1, NothingDrainedKeeps
  <1> QED
    BY <1>3, <1>4, <1>5 DEF Close

-----------------------------------------------------------------------------
(***************************************************************************)
(* The theorems                                                            *)
(***************************************************************************)

LEMMA InitInv == Init => TurnInv
  <1>1. <<>> \in Seq(Row)
    BY EmptySeq
  <1>2. 0 \in Nat /\ 0 \in 0..MaxCycles /\ 0 \in 0..MaxIterations
    BY ConstantsAssumption
  <1>3. Init => TypeOK
    BY <1>1, <1>2 DEF Init, TypeOK
  <1> QED
    BY <1>3 DEF Init, TurnInv, PromptsSaved, Running

LEMMA NextInv == TurnInv /\ [Next]_vars => TurnInv'
  <1> SUFFICES ASSUME TurnInv, [Next]_vars PROVE TurnInv'
    OBVIOUS
  <1>1. ASSUME NEW m \in Messages, Send(m) PROVE TurnInv'
    BY <1>1 DEF Send, TurnInv, TypeOK, PromptsSaved, Running, PromptUnderWay, Texts,
                session, runner, history
  <1>2. CASE UNCHANGED vars
    BY <1>2 DEF TurnInv, TypeOK, PromptsSaved, Running, PromptUnderWay, Texts,
                vars, channels, session, runner, history
  <1>3. CASE TurnStep
    BY <1>3, PrepareInv, ToolCallsInv, ToolsDoneInv, ToolFailsInv, DrainAfterToolsInv,
       AnswerInv, NoAnswerInv, RetryInv, CloseInv, SaveTurnInv DEF TurnStep
  <1> QED
    BY <1>1, <1>2, <1>3, BeginTurnInv, EndedInv DEF Next, Quiescent

LEMMA Invariance == Spec => []TurnInv
  BY InitInv, NextInv, PTL DEF Spec

\* Type correctness: session, runner and channels keep their types in every
\* behaviour, and the tools never run without a checkpoint.
THEOREM TypeCorrect == Spec => []TypeOK
  BY Invariance, PTL DEF TurnInv

\* A prompt that _process_message has saved stays in the session through every
\* failure, cancellation, crash and repair until /new.
THEOREM PromptsStaySaved == Spec => []PromptsSaved
  BY Invariance, PTL DEF TurnInv

-----------------------------------------------------------------------------
(***************************************************************************)
(* What is saved: the rows' order, their steps and their texts             *)
(***************************************************************************)

\* A conversation as a provider accepts it, that has nothing of the messages in w:
\* results behind their calls, no row of a step twice, prompts that alternate
\* with answers, and texts that are in one row only.
Sound(s, w) ==
  /\ s \in Seq(Row)
  /\ \A i \in 1..Len(s) :
       s[i].role = "tool" =>
         \E j \in 1..(i - 1) :
           /\ s[j].role = "assistant" /\ s[j].step = s[i].step
           /\ s[i].calls \subseteq s[j].calls
  /\ \A i, j \in 1..Len(s) : i # j /\ s[i].step # NoStep => s[i] # s[j]
  /\ \A i \in 1..(Len(s) - 1) : ~(s[i].role = "user" /\ s[i + 1].role = "user")
  /\ \A i, j \in 1..Len(s) : i # j => s[i].texts \cap s[j].texts = {}
  /\ \A i \in 1..Len(s) : s[i].texts \cap w = {} /\ s[i].step[1] \notin w

\* The steps of t's turn in s are those before the n-th.
Before(s, t, n) == \A i \in 1..Len(s) : s[i].step[1] = t => s[i].step[2] < n

LEMMA RowAppend ==
  ASSUME NEW s \in Seq(Row), NEW row \in Row
  PROVE  LET t == Append(s, row) IN
         /\ t \in Seq(Row) /\ Len(s) \in Nat /\ Len(t) = Len(s) + 1 /\ t # <<>>
         /\ t[Len(s) + 1] = row /\ \A i \in 1..Len(s) : t[i] = s[i]
         /\ \A role : EndsWith(t, role) <=> row.role = role
         /\ Texts(s) \subseteq Texts(t)
  <1> DEFINE t == Append(s, row)
  <1>1. /\ t \in Seq(Row) /\ Len(s) \in Nat /\ Len(t) = Len(s) + 1 /\ t # <<>>
        /\ t[Len(s) + 1] = row /\ \A i \in 1..Len(s) : t[i] = s[i]
    BY AppendProperties
  <1>2. t \in Seq(Row) /\ Grown(s, t)
    BY GrownAppend
  <1> HIDE DEF t
  <1>3. \A role : EndsWith(t, role) <=> row.role = role
    BY <1>1 DEF EndsWith, Last
  <1>4. Texts(s) \subseteq Texts(t)
    BY <1>2, GrownTexts
  <1> QED
    BY <1>1, <1>3, <1>4 DEF t

LEMMA SoundAppend ==
  ASSUME NEW s, NEW w, Sound(s, w), NEW row \in Row,
         row.texts \cap w = {}, row.step[1] \notin w,
         \A i \in 1..Len(s) : s[i].texts \cap row.texts = {},
         row.step # NoStep => \A i \in 1..Len(s) : s[i] # row,
         row.role = "tool" =>
           \E j \in 1..Len(s) :
             s[j].role = "assistant" /\ s[j].step = row.step /\ row.calls \subseteq s[j].calls,
         row.role = "user" => ~EndsWith(s, "user")
  PROVE  Sound(Append(s, row), w)
  <1> DEFINE t == Append(s, row)
             n == Len(s)
  <1>1. s \in Seq(Row)
    BY DEF Sound
  <1>2. /\ t \in Seq(Row) /\ n \in Nat /\ Len(t) = n + 1
        /\ t[n + 1] = row /\ \A i \in 1..n : t[i] = s[i]
    BY <1>1, RowAppend
  <1>3. \A i \in 1..n : s[i] \in Row
    BY <1>1, ElementOfSeq
  <1>4. n # 0 => EndsWith(s, s[n].role)
    <2>1. n # 0 => s # <<>>
      OBVIOUS
    <2> QED
      BY <2>1 DEF EndsWith, Last
  <1> HIDE DEF t, n
  <1>5. ASSUME NEW i \in 1..(n + 1) PROVE i \in 1..n \/ i = n + 1
    BY <1>2
  <1>6. ASSUME NEW i \in 1..(n + 1), t[i].role = "tool"
        PROVE  \E j \in 1..(i - 1) :
                 /\ t[j].role = "assistant" /\ t[j].step = t[i].step
                 /\ t[i].calls \subseteq t[j].calls
    <2>1. CASE i \in 1..n
      <3>1. PICK j \in 1..(i - 1) : /\ s[j].role = "assistant" /\ s[j].step = s[i].step
                                    /\ s[i].calls \subseteq s[j].calls
        BY <1>2, <1>6, <2>1 DEF Sound, n
      <3>2. j \in 1..n
        BY <1>2, <2>1
      <3> QED
        BY <1>2, <2>1, <3>1, <3>2
    <2>2. CASE i = n + 1
      <3>1. PICK j \in 1..n : /\ s[j].role = "assistant" /\ s[j].step = row.step
                              /\ row.calls \subseteq s[j].calls
        BY <1>2, <1>6, <2>2 DEF n
      <3>2. j \in 1..(i - 1)
        BY <1>2, <2>2
      <3> QED
        BY <1>2, <2>2, <3>1, <3>2
    <2> QED
      BY <1>5, <2>1, <2>2
  <1>7. ASSUME NEW i \in 1..(n + 1), NEW j \in 1..(n + 1), i # j, t[i].step # NoStep
        PROVE  t[i] # t[j]
    <2>1. CASE i \in 1..n /\ j \in 1..n
      BY <1>2, <1>7, <2>1 DEF Sound, n
    <2>2. CASE i \in 1..n /\ j = n + 1
      BY <1>2, <1>7, <2>2 DEF n
    <2>3. CASE i = n + 1 /\ j \in 1..n
      BY <1>2, <1>7, <2>3 DEF n
    <2> QED
      BY <1>5, <1>7, <2>1, <2>2, <2>3
  <1>8. ASSUME NEW i \in 1..n
        PROVE  ~(t[i].role = "user" /\ t[i + 1].role = "user")
    <2>1. CASE i = n
      BY <1>2, <1>4, <2>1
    <2>2. CASE i # n
      <3>1. i + 1 \in 1..n /\ i \in 1..(n - 1)
        BY <1>2, <2>2
      <3> QED
        BY <1>2, <3>1 DEF Sound, n
    <2> QED
      BY <2>1, <2>2
  <1>9. ASSUME NEW i \in 1..(n + 1), NEW j \in 1..(n + 1), i # j
        PROVE  t[i].texts \cap t[j].texts = {}
    <2>1. CASE i \in 1..n /\ j \in 1..n
      BY <1>2, <1>9, <2>1 DEF Sound, n
    <2>2. CASE i \in 1..n /\ j = n + 1
      BY <1>2, <1>9, <2>2 DEF n
    <2>3. CASE i = n + 1 /\ j \in 1..n
      BY <1>2, <1>9, <2>3 DEF n
    <2> QED
      BY <1>5, <1>9, <2>1, <2>2, <2>3
  <1>10. ASSUME NEW i \in 1..(n + 1)
         PROVE  t[i].texts \cap w = {} /\ t[i].step[1] \notin w
    BY <1>2, <1>5 DEF Sound, n
  <1>11. n + 1 - 1 = n
    BY <1>2
  <1> QED
    BY SMTT(30), <1>2, <1>6, <1>7, <1>8, <1>9, <1>10, <1>11 DEF Sound, t

LEMMA SoundWeaker ==
  ASSUME NEW s, NEW w, NEW v, Sound(s, w), v \subseteq w
  PROVE  Sound(s, v)
  <1>1. \A i \in 1..Len(s) : s[i].texts \cap v = {} /\ s[i].step[1] \notin v
    BY DEF Sound
  <1> QED
    BY <1>1 DEF Sound

LEMMA BeforeAppend ==
  ASSUME NEW s \in Seq(Row), NEW t, NEW n, Before(s, t, n), NEW row \in Row,
         row.step[1] = t => row.step[2] < n
  PROVE  Before(Append(s, row), t, n)
  <1> DEFINE u == Append(s, row)
  <1>1. /\ Len(s) \in Nat /\ Len(u) = Len(s) + 1
        /\ u[Len(s) + 1] = row /\ \A i \in 1..Len(s) : u[i] = s[i]
    BY RowAppend
  <1> HIDE DEF u
  <1>2. \A i \in 1..(Len(s) + 1) : i \in 1..Len(s) \/ i = Len(s) + 1
    BY <1>1
  <1> QED
    BY <1>1, <1>2 DEF Before, u

LEMMA BeforeLater ==
  ASSUME NEW s \in Seq(Row), NEW t, NEW n \in Nat, NEW m \in Nat, n <= m, Before(s, t, n)
  PROVE  Before(s, t, m)
  <1>1. ASSUME NEW i \in 1..Len(s), s[i].step[1] = t PROVE s[i].step[2] < m
    <2>1. s[i] \in Row
      BY ElementOfSeq
    <2>2. s[i].step \in Steps
      BY <2>1 DEF Row
    <2>3. s[i].step[2] \in Nat
      BY <2>2, ConstantsAssumption DEF Steps
    <2>4. s[i].step[2] < n
      BY <1>1 DEF Before
    <2> QED
      BY <2>3, <2>4
  <1> QED
    BY <1>1 DEF Before

\* The fields of the rows that are written.
LEMMA RowFields ==
  /\ \A S : User(S).role = "user" /\ User(S).texts = S /\ User(S).step = NoStep
  /\ \A step, calls : /\ Assistant(step, calls).role = "assistant"
                      /\ Assistant(step, calls).texts = {}
                      /\ Assistant(step, calls).step = step
                      /\ Assistant(step, calls).calls = calls
  /\ \A step, call, S : /\ Result(step, call, S).role = "tool"
                        /\ Result(step, call, S).texts = S
                        /\ Result(step, call, S).step = step
                        /\ Result(step, call, S).calls = {call}
  /\ \A m : /\ FollowUp(m).role = "assistant" /\ FollowUp(m).texts = {m}
            /\ FollowUp(m).step = NoStep /\ FollowUp(m).calls = {}
  BY DEF User, Assistant, Result, FollowUp

LEMMA ConcatOne ==
  ASSUME NEW s \in Seq(Row), NEW row \in Row
  PROVE  s \o <<row>> = Append(s, row)
  BY AppendIsConcat

\* The rows of s are the first ones of t.
Extends(s, t) == Len(s) <= Len(t) /\ \A i \in 1..Len(s) : t[i] = s[i]

\* The step that row k of s made is not closed: only results follow it.
Open(s, w, step, k) ==
  /\ Sound(s, w)
  /\ k \in 1..Len(s) /\ s[k].role = "assistant" /\ s[k].step = step
  /\ \A i \in 1..Len(s) : i # k /\ s[i].step = step => s[i].role = "tool"

LEMMA ExtendsAppend ==
  ASSUME NEW r \in Seq(Row), NEW s \in Seq(Row), Extends(r, s), NEW row \in Row
  PROVE  Extends(r, Append(s, row))
  <1> DEFINE t == Append(s, row)
  <1>1. Len(s) \in Nat /\ Len(t) = Len(s) + 1 /\ \A i \in 1..Len(s) : t[i] = s[i]
    BY RowAppend
  <1> HIDE DEF t
  <1>2. Len(r) \in Nat /\ \A i \in 1..Len(r) : i \in 1..Len(s)
    BY <1>1, LenProperties DEF Extends
  <1> QED
    BY <1>1, <1>2 DEF Extends, t

\* The result of a call behind the step that made it.
LEMMA ResultOpen ==
  ASSUME NEW s, NEW w, NEW step \in Steps, NEW k, Open(s, w, step, k),
         NEW call \in {"tool", "ask"}, call \in s[k].calls,
         \A i \in 1..Len(s) : s[i].step = step /\ s[i].role = "tool" => call \notin s[i].calls
  PROVE  LET t == Append(s, Result(step, call, {})) IN
         /\ Open(t, w, step, k) /\ t[k] = s[k] /\ EndsWith(t, "tool")
  <1> DEFINE row == Result(step, call, {})
             t == Append(s, row)
  <1>1. /\ row \in Row /\ row.role = "tool" /\ row.texts = {} /\ row.step = step
        /\ row.calls = {call}
    BY RowTypes, RowFields
  <1>2. s \in Seq(Row) /\ step[1] \notin w
    BY DEF Open, Sound
  <1>3. /\ Len(s) \in Nat /\ Len(t) = Len(s) + 1
        /\ t[Len(s) + 1] = row /\ \A i \in 1..Len(s) : t[i] = s[i]
        /\ EndsWith(t, "tool") <=> row.role = "tool"
    BY <1>1, <1>2, RowAppend
  <1> HIDE DEF row
  <1>4. Sound(t, w)
    <2>1. \A i \in 1..Len(s) : s[i] # row
      BY <1>1
    <2>2. \E j \in 1..Len(s) :
            s[j].role = "assistant" /\ s[j].step = row.step /\ row.calls \subseteq s[j].calls
      BY <1>1 DEF Open
    <2>3. /\ row.texts \cap w = {} /\ row.step[1] \notin w
          /\ \A i \in 1..Len(s) : s[i].texts \cap row.texts = {}
          /\ row.role # "user"
      BY <1>1, <1>2
    <2> QED
      BY <1>1, <2>1, <2>2, <2>3, SoundAppend DEF Open
  <1> HIDE DEF t
  <1>5. k \in 1..Len(t) /\ t[k] = s[k] /\ k \in 1..Len(s)
    BY <1>3 DEF Open
  <1>6. ASSUME NEW i \in 1..Len(t), i # k, t[i].step = step PROVE t[i].role = "tool"
    <2>1. CASE i \in 1..Len(s)
      BY <1>3, <1>6, <2>1 DEF Open
    <2>2. CASE i = Len(s) + 1
      BY <1>1, <1>3, <2>2
    <2> QED
      BY <1>3, <2>1, <2>2
  <1>7. Open(t, w, step, k)
    BY <1>4, <1>5, <1>6 DEF Open
  <1> QED
    BY <1>1, <1>3, <1>5, <1>7 DEF t, row

\* The results of a step, one behind the other.
LEMMA ResultsShape ==
  ASSUME NEW s \in Seq(Row), NEW step \in Steps, NEW answered \in SUBSET {"tool", "ask"}
  PROVE  LET tool == Result(step, "tool", {})
             ask == Result(step, "ask", {})
             u == IF "tool" \in answered THEN Append(s, tool) ELSE s
         IN s \o Results(step, answered) = IF "ask" \in answered THEN Append(u, ask) ELSE u
  <1> DEFINE tool == Result(step, "tool", {})
             ask == Result(step, "ask", {})
             a == IF "tool" \in answered THEN <<tool>> ELSE <<>>
             b == IF "ask" \in answered THEN <<ask>> ELSE <<>>
             u == IF "tool" \in answered THEN Append(s, tool) ELSE s
  <1>1. tool \in Row /\ ask \in Row
    BY RowTypes
  <1>2. Results(step, answered) = a \o b
    BY DEF Results
  <1> HIDE DEF tool, ask
  <1>3. a \in Seq(Row) /\ b \in Seq(Row)
    <2>1. <<>> \in Seq(Row) /\ <<tool>> \in Seq(Row) /\ <<ask>> \in Seq(Row)
      BY <1>1
    <2> QED
      BY <2>1
  <1>4. \A x, y, z \in Seq(Row) : x \o (y \o z) = (x \o y) \o z
    <2> SUFFICES ASSUME NEW x \in Seq(Row), NEW y \in Seq(Row), NEW z \in Seq(Row)
                 PROVE  (x \o y) \o z = x \o (y \o z)
      OBVIOUS
    <2> QED
      BY ConcatAssociative
  <1>5. \A x \in Seq(Row) : x \o <<>> = x
    BY ConcatEmptySeq
  <1>6. \A x \in Seq(Row), row \in Row : x \o <<row>> = Append(x, row) /\ Append(x, row) \in Seq(Row)
    BY ConcatOne, AppendProperties
  <1>7. s \o a = u /\ u \in Seq(Row)
    <2>1. CASE "tool" \in answered
      BY <1>1, <1>6, <2>1
    <2>2. CASE "tool" \notin answered
      BY <1>5, <2>2
    <2> QED
      BY <2>1, <2>2
  <1> HIDE DEF a, u
  <1>8. u \o b = IF "ask" \in answered THEN Append(u, ask) ELSE u
    <2>1. CASE "ask" \in answered
      BY <1>1, <1>6, <1>7, <2>1
    <2>2. CASE "ask" \notin answered
      BY <1>5, <1>7, <2>2
    <2> QED
      BY <2>1, <2>2
  <1> HIDE DEF b
  <1>9. s \o Results(step, answered) = u \o b
    <2>1. s \o (a \o b) = (s \o a) \o b
      BY <1>3, <1>4
    <2> QED
      BY <1>2, <1>7, <2>1
  <1>10. s \o Results(step, answered) = IF "ask" \in answered THEN Append(u, ask) ELSE u
    BY <1>8, <1>9
  <1> QED
    BY <1>10 DEF u, tool, ask

\* Results end a conversation that stays sound.
LEMMA ResultsOpen ==
  ASSUME NEW s, NEW w, NEW step \in Steps, NEW k, Open(s, w, step, k),
         \A i \in 1..Len(s) : i # k => s[i].step # step,
         NEW answered \in SUBSET {"tool", "ask"}, answered \subseteq s[k].calls
  PROVE  LET t == s \o Results(step, answered) IN
         /\ Open(t, w, step, k)
         /\ answered = {} => t = s
         /\ answered # {} => EndsWith(t, "tool")
  <1> DEFINE tool == Result(step, "tool", {})
             ask == Result(step, "ask", {})
             u == IF "tool" \in answered THEN Append(s, tool) ELSE s
             t == s \o Results(step, answered)
  <1>1. s \in Seq(Row)
    BY DEF Open, Sound
  <1>2. t = IF "ask" \in answered THEN Append(u, ask) ELSE u
    BY <1>1, ResultsShape
  <1>3. /\ tool \in Row /\ tool.role = "tool" /\ tool.step = step /\ tool.calls = {"tool"}
    BY RowTypes, RowFields
  <1>4. \A i \in 1..Len(s) : ~(s[i].step = step /\ s[i].role = "tool")
    BY DEF Open
  <1>5. /\ Open(u, w, step, k) /\ u[k] = s[k]
        /\ "tool" \notin answered => u = s
        /\ "tool" \in answered => EndsWith(u, "tool")
        /\ \A i \in 1..Len(u) : u[i].step = step /\ u[i].role = "tool" => "ask" \notin u[i].calls
    <2>1. CASE "tool" \notin answered
      BY <1>4, <2>1
    <2>2. CASE "tool" \in answered
      <3>1. u = Append(s, tool)
        BY <2>2
      <3>2. "tool" \in s[k].calls
        BY <2>2
      <3>3. Open(Append(s, tool), w, step, k) /\ Append(s, tool)[k] = s[k]
            /\ EndsWith(Append(s, tool), "tool")
        BY <1>4, <3>2, ResultOpen
      <3>4. /\ Len(s) \in Nat /\ Len(Append(s, tool)) = Len(s) + 1
            /\ Append(s, tool)[Len(s) + 1] = tool
            /\ \A i \in 1..Len(s) : Append(s, tool)[i] = s[i]
        BY <1>1, <1>3, RowAppend
      <3> HIDE DEF u, tool
      <3>5. \A i \in 1..Len(u) : i \in 1..Len(s) \/ i = Len(s) + 1
        BY <3>1, <3>4
      <3>6. \A i \in 1..Len(u) : u[i].step = step /\ u[i].role = "tool" => "ask" \notin u[i].calls
        BY <1>3, <1>4, <3>1, <3>4, <3>5
      <3> QED
        BY <2>2, <3>1, <3>3, <3>6
    <2> QED
      BY <2>1, <2>2
  <1> HIDE DEF u, tool, t
  <1>6. CASE "ask" \notin answered
    <2>1. t = u /\ (answered # {} => "tool" \in answered)
      BY <1>2, <1>6
    <2> QED
      BY <1>5, <2>1 DEF t
  <1>7. CASE "ask" \in answered
    <2>1. "ask" \in u[k].calls
      BY <1>5, <1>7
    <2>2. Open(Append(u, ask), w, step, k) /\ EndsWith(Append(u, ask), "tool")
      BY <1>5, <2>1, ResultOpen
    <2> HIDE DEF ask
    <2> QED
      BY <1>2, <1>7, <2>2 DEF t
  <1> QED
    BY <1>6, <1>7

LEMMA ResultsBefore ==
  ASSUME NEW s \in Seq(Row), NEW step \in Steps, NEW answered \in SUBSET {"tool", "ask"},
         NEW m, NEW n, Before(s, m, n), step[1] = m => step[2] < n,
         NEW r \in Seq(Row), Extends(r, s)
  PROVE  LET t == s \o Results(step, answered) IN
         t \in Seq(Row) /\ Before(t, m, n) /\ Extends(r, t) /\ Texts(s) \subseteq Texts(t)
  <1> DEFINE tool == Result(step, "tool", {})
             ask == Result(step, "ask", {})
             u == IF "tool" \in answered THEN Append(s, tool) ELSE s
             t == s \o Results(step, answered)
  <1>1. t = IF "ask" \in answered THEN Append(u, ask) ELSE u
    BY ResultsShape
  <1>2. tool \in Row /\ tool.step = step /\ ask \in Row /\ ask.step = step
    BY RowTypes, RowFields
  <1> HIDE DEF tool, ask
  <1>3. ASSUME NEW x \in Seq(Row), NEW row \in Row, row.step = step,
               Before(x, m, n), Extends(r, x), Texts(s) \subseteq Texts(x)
        PROVE  /\ Append(x, row) \in Seq(Row) /\ Before(Append(x, row), m, n)
               /\ Extends(r, Append(x, row)) /\ Texts(s) \subseteq Texts(Append(x, row))
    <2>1. Append(x, row) \in Seq(Row) /\ Texts(x) \subseteq Texts(Append(x, row))
      BY <1>3, RowAppend
    <2>2. Before(Append(x, row), m, n)
      BY <1>3, BeforeAppend
    <2>3. Extends(r, Append(x, row))
      BY <1>3, ExtendsAppend
    <2> QED
      BY <1>3, <2>1, <2>2, <2>3
  <1>4. u \in Seq(Row) /\ Before(u, m, n) /\ Extends(r, u) /\ Texts(s) \subseteq Texts(u)
    <2>1. CASE "tool" \in answered
      BY <1>2, <1>3, <2>1
    <2>2. CASE "tool" \notin answered
      BY <2>2
    <2> QED
      BY <2>1, <2>2
  <1> HIDE DEF u, t
  <1>5. CASE "ask" \in answered
    BY <1>1, <1>2, <1>3, <1>4, <1>5 DEF t
  <1>6. CASE "ask" \notin answered
    BY <1>1, <1>4, <1>6 DEF t
  <1> QED
    BY <1>5, <1>6

\* A runner's messages: sound, behind the session's rows, with the texts it has
\* drained and the steps of turn t before the n-th.
Held(s, r, inj, w, t, n) ==
  /\ Sound(s, w) /\ r \in Seq(Row) /\ Extends(r, s)
  /\ inj \subseteq Texts(s) /\ Before(s, t, n)

LEMMA HeldAssistant ==
  ASSUME NEW s, NEW r, NEW inj, NEW w, NEW t \in Messages, NEW n \in Nat,
         Held(s, r, inj, w, t, n), t \notin w,
         NEW i \in 0..MaxIterations, n <= i, NEW calls \in SUBSET {"tool", "ask"}
  PROVE  LET u == Append(s, Assistant(<<t, i>>, calls)) IN
         Held(u, r, inj, w, t, i + 1) /\ ~EndsWith(u, "user")
  <1> DEFINE row == Assistant(<<t, i>>, calls)
  <1>1. <<t, i>> \in Steps /\ <<t, i>> # NoStep
    BY ConstantsAssumption DEF Steps, NoStep
  <1>2. row \in Row /\ row.role = "assistant" /\ row.texts = {} /\ row.step = <<t, i>>
    BY <1>1, RowTypes, RowFields
  <1>3. s \in Seq(Row) /\ i \in Nat
    BY ConstantsAssumption DEF Held, Sound
  <1> HIDE DEF row
  <1>4. Before(s, t, i + 1)
    <2>1. n <= i + 1 /\ i + 1 \in Nat
      BY <1>3
    <2> QED
      BY <1>3, <2>1, BeforeLater DEF Held
  <1>5. ASSUME NEW j \in 1..Len(s) PROVE s[j] # row
    <2>1. s[j].step[1] = t => s[j].step[2] < n
      BY DEF Held, Before
    <2>2. ~(i < n)
      BY <1>3
    <2> QED
      BY <1>2, <2>1, <2>2
  <1>6. Sound(Append(s, row), w)
    <2>1. /\ row.texts \cap w = {} /\ row.step[1] \notin w
          /\ \A j \in 1..Len(s) : s[j].texts \cap row.texts = {}
          /\ row.role # "user" /\ row.role # "tool"
      BY <1>2
    <2> QED
      BY <1>2, <1>5, <2>1, SoundAppend DEF Held
  <1>7. Before(Append(s, row), t, i + 1)
    <2>1. row.step[1] = t => row.step[2] < i + 1
      BY <1>2, <1>3
    <2> QED
      BY <1>2, <1>3, <1>4, <2>1, BeforeAppend
  <1>8. /\ Extends(r, Append(s, row)) /\ Texts(s) \subseteq Texts(Append(s, row))
        /\ ~EndsWith(Append(s, row), "user")
    BY <1>2, <1>3, ExtendsAppend, RowAppend DEF Held
  <1> QED
    BY <1>6, <1>7, <1>8 DEF Held, row

LEMMA HeldUser ==
  ASSUME NEW s, NEW r, NEW inj, NEW w, NEW t \in Messages, NEW n,
         Held(s, r, inj, w, t, n), ~EndsWith(s, "user"), None \notin w,
         NEW S \in SUBSET Messages, S \cap w = {},
         \A i \in 1..Len(s) : s[i].texts \cap S = {}
  PROVE  LET u == Append(s, User(S)) IN
         Held(u, r, inj \cup S, w, t, n) /\ EndsWith(u, "user")
  <1> DEFINE row == User(S)
  <1>1. row \in Row /\ row.role = "user" /\ row.texts = S /\ row.step = NoStep
    BY RowTypes, RowFields
  <1>2. s \in Seq(Row) /\ t # None /\ NoStep[1] = None
    BY ConstantsAssumption DEF Held, Sound, NoStep
  <1> HIDE DEF row
  <1>3. Sound(Append(s, row), w)
    BY <1>1, <1>2, SoundAppend DEF Held
  <1>4. Before(Append(s, row), t, n)
    BY <1>1, <1>2, BeforeAppend DEF Held
  <1>5. /\ Extends(r, Append(s, row)) /\ Texts(s) \subseteq Texts(Append(s, row))
        /\ EndsWith(Append(s, row), "user")
    BY <1>1, <1>2, ExtendsAppend, RowAppend DEF Held
  <1>6. S \subseteq Texts(Append(s, row))
    BY <1>1, <1>2, TextsAppend
  <1> QED
    BY <1>3, <1>4, <1>5, <1>6 DEF Held, row

LEMMA HeldWeaker ==
  ASSUME NEW s, NEW r, NEW inj, NEW w, NEW v, NEW t, NEW n \in Nat, NEW m \in Nat, n <= m,
         Held(s, r, inj, w, t, n), v \subseteq w
  PROVE  Held(s, r, inj, v, t, m)
  <1>1. s \in Seq(Row)
    BY DEF Held, Sound
  <1>2. Before(s, t, m)
    BY <1>1, BeforeLater DEF Held
  <1>3. Sound(s, v)
    BY SoundWeaker DEF Held
  <1> QED
    BY <1>2, <1>3 DEF Held

LEMMA HeldResults ==
  ASSUME NEW s, NEW r, NEW inj, NEW w, NEW t, NEW n \in Nat,
         NEW step \in Steps, NEW k, Open(s, w, step, k),
         \A i \in 1..Len(s) : i # k => s[i].step # step,
         NEW answered \in SUBSET {"tool", "ask"}, answered \subseteq s[k].calls,
         step[1] = t => step[2] < n, Held(s, r, inj, w, t, n)
  PROVE  LET u == s \o Results(step, answered) IN
         /\ Held(u, r, inj, w, t, n) /\ Open(u, w, step, k)
         /\ answered = {} => u = s
         /\ answered # {} => EndsWith(u, "tool")
  <1> DEFINE u == s \o Results(step, answered)
  <1>1. s \in Seq(Row) /\ r \in Seq(Row) /\ Before(s, t, n) /\ Extends(r, s)
    BY DEF Held, Sound
  <1>2. /\ Open(u, w, step, k)
        /\ answered = {} => u = s
        /\ answered # {} => EndsWith(u, "tool")
    BY ResultsOpen
  <1>3. u \in Seq(Row) /\ Before(u, t, n) /\ Extends(r, u) /\ Texts(s) \subseteq Texts(u)
    BY <1>1, ResultsBefore
  <1> HIDE DEF u
  <1>4. Held(u, r, inj, w, t, n)
    BY <1>2, <1>3 DEF Held, Open
  <1> QED
    BY <1>2, <1>4 DEF u

-----------------------------------------------------------------------------
(***************************************************************************)
(* The inductive invariant of the rows                                     *)
(***************************************************************************)

\* A turn that drains follow-ups answers every prompt: with a failed request or
\* at the iteration limit it may leave one at the end, where the next joins it.
EveryPromptAnswered == PendingQueue => Ops \cap {"noAnswer", "maxIterations"} = {}

\* Messages no turn has taken.
Outside == inbox \cup unsent

\* A checkpoint holds one step that the session has nothing of.
Restorable(s, r, w) ==
  s # <<>> =>
    \E step \in Messages \X (0..MaxIterations), calls, answered \in SUBSET {"tool", "ask"} :
      /\ answered \subseteq calls /\ step[1] \notin w /\ Before(r, step[1], 0)
      /\ s = <<Assistant(step, calls)>> \o Results(step, answered)

RowsInv ==
  /\ Sound(rows, Outside) /\ absorbed \subseteq Texts(rows)
  /\ EndsWith(rows, "user") => pendingUser

BetweenInv ==
  /\ pc # "idle" => turn \notin Outside /\ Before(rows, turn, 0)
  /\ pc \in {"idle", "preparing"} => injected = {} /\ iter = 0
  /\ pc = "preparing" =>
       Sound(rows, {turn}) /\ ~EndsWith(rows, "user") /\ checkpoint = <<>>
  /\ PendingQueue => iter < MaxIterations

\* The step whose tools run is the last row.
ToolsRun(s, step) ==
  /\ s # <<>> /\ Last(s) = Assistant(step, Last(s).calls) /\ Last(s).calls # {}
  /\ \A i \in 1..(Len(s) - 1) : s[i].step # step

Bound(place, i) == IF place = "model" THEN i ELSE i + 1

RunnerInv ==
  Running =>
    /\ skip = Len(rows) /\ Held(msgs, rows, injected, Outside, turn, Bound(pc, iter))
    /\ pc = "tools" => ToolsRun(msgs, Step)
    /\ pc \in {"drain", "closing", "ending"} => ~EndsWith(msgs, "user")

HeldInv == RowsInv /\ BetweenInv /\ Restorable(checkpoint, rows, Outside) /\ RunnerInv

LEMMA OutsideTypes ==
  ASSUME TypeOK
  PROVE  Outside \subseteq Messages /\ None \notin Outside
  BY ConstantsAssumption DEF TypeOK, Outside

LEMMA RestorableWeaker ==
  ASSUME NEW s, NEW r, NEW w, NEW v, Restorable(s, r, w), v \subseteq w
  PROVE  Restorable(s, r, v)
  BY DEF Restorable

\* The turn is over and the session is sound.
LEMMA EndedHolds ==
  ASSUME TurnOver, RowsInv', Restorable(checkpoint, rows, Outside)'
  PROVE  HeldInv'
  <1>1. BetweenInv'
    BY ConstantsAssumption DEF TurnOver, BetweenInv
  <1>2. RunnerInv'
    BY DEF TurnOver, RunnerInv, Running
  <1> QED
    BY <1>1, <1>2 DEF HeldInv

\* A step of the runner, which leaves the session's rows as they are.
LEMMA RunnerHolds ==
  ASSUME HeldInv, Running, Running', Outside' \subseteq Outside,
         UNCHANGED <<rows, pendingUser, turn, skip, absorbed>>,
         Restorable(checkpoint', rows, Outside'),
         PendingQueue => iter' < MaxIterations,
         Held(msgs', rows, injected', Outside', turn, Bound(pc', iter')),
         pc' = "tools" => ToolsRun(msgs', Step'),
         pc' \in {"drain", "closing", "ending"} => ~EndsWith(msgs', "user")
  PROVE  HeldInv'
  <1>1. RowsInv'
    <2>1. Sound(rows, Outside')
      BY SoundWeaker DEF HeldInv, RowsInv
    <2> QED
      BY <2>1 DEF HeldInv, RowsInv, Texts, EndsWith
  <1>2. BetweenInv'
    BY DEF HeldInv, BetweenInv, Running, Before
  <1>3. RunnerInv'
    BY DEF HeldInv, RunnerInv
  <1>4. Restorable(checkpoint, rows, Outside)'
    OBVIOUS
  <1> QED
    BY <1>1, <1>2, <1>3, <1>4 DEF HeldInv

-----------------------------------------------------------------------------
(***************************************************************************)
(* Repair and the runner's helpers keep it                                 *)
(***************************************************************************)

\* A checkpoint of a step that the session has nothing of overlaps with nothing.
LEMMA NoOverlap ==
  ASSUME rows \in Seq(Row), checkpoint \in Seq(Row), checkpoint # <<>>,
         \A i \in 1..Len(rows) : rows[i].step # checkpoint[1].step
  PROVE  WithCheckpoint = rows \o checkpoint
  <1> DEFINE n == Overlap
             sub == SubSeq(checkpoint, 1, n)
  <1>1. n \in 0..Len(checkpoint) /\ IsSuffix(sub, rows) /\ Len(checkpoint) \in Nat
    BY OverlapType
  <1> HIDE DEF n
  <1>2. ASSUME n # 0 PROVE FALSE
    <2>1. n \in 1..Len(checkpoint)
      BY <1>1, <1>2
    <2>2. Len(sub) = n /\ sub[1] = checkpoint[1]
      <3>1. \A i \in 1..n : checkpoint[i] \in Row
        BY <2>1, ElementOfSeq
      <3> QED
        BY <2>1, <3>1, SubSeqProperties
    <2> HIDE DEF sub
    <2> DEFINE a == Reverse(sub)
               b == Reverse(rows)
    <2>3. Len(a) = n /\ a[n] = sub[1]
      BY <2>1, <2>2 DEF Reverse
    <2>4. Len(rows) \in Nat /\ Len(b) = Len(rows)
          /\ \A i \in 1..Len(rows) : b[i] = rows[Len(rows) - i + 1]
      BY DEF Reverse
    <2>5. Len(a) <= Len(b) /\ SubSeq(a, 1, Len(a)) = SubSeq(b, 1, Len(a))
      BY <1>1 DEF IsSuffix, IsPrefix
    <2> HIDE DEF a, b
    <2>6. n \in 1..Len(rows) /\ Len(rows) - n + 1 \in 1..Len(rows)
      BY <2>1, <2>3, <2>4, <2>5
    <2>7. SubSeq(a, 1, n)[n] = a[n] /\ SubSeq(b, 1, n)[n] = b[n]
      BY <2>1
    <2>8. rows[Len(rows) - n + 1] = checkpoint[1]
      BY <2>2, <2>3, <2>4, <2>5, <2>6, <2>7
    <2> QED
      BY <2>6, <2>8
  <1>3. SubSeq(checkpoint, n + 1, Len(checkpoint)) = checkpoint
    BY <1>2, SubSeqFull
  <1> QED
    BY <1>3 DEF WithCheckpoint, n

\* Repair makes the session ready for a prompt.
LEMMA RestoredSound ==
  ASSUME TypeOK, RowsInv, Restorable(checkpoint, rows, Outside)
  PROVE  /\ Sound(Restored, Outside) /\ ~EndsWith(Restored, "user")
         /\ Texts(rows) \subseteq Texts(Restored)
  <1>1. rows \in Seq(Row) /\ checkpoint \in Seq(Row) /\ Sound(rows, Outside)
    BY DEF TypeOK, RowsInv
  <1>2. Texts(rows) \subseteq Texts(Restored)
    BY <1>1, RestoredGrown, GrownTexts
  <1>3. CASE checkpoint # <<>>
    <2>1. PICK step \in Messages \X (0..MaxIterations),
               calls \in SUBSET {"tool", "ask"}, answered \in SUBSET {"tool", "ask"} :
            /\ answered \subseteq calls /\ step[1] \notin Outside /\ Before(rows, step[1], 0)
            /\ checkpoint = <<Assistant(step, calls)>> \o Results(step, answered)
      BY <1>3 DEF Restorable
    <2> DEFINE row == Assistant(step, calls)
               s == Append(rows, row)
    <2>2. step \in Steps /\ step[2] \in Nat /\ step[2] \in 0..MaxIterations
          /\ step = <<step[1], step[2]>> /\ step[1] \in Messages
      BY ConstantsAssumption DEF Steps
    <2>3. row \in Row /\ row.step = step /\ row.role = "assistant" /\ row.calls = calls
      BY <2>2, RowTypes, RowFields
    <2>4. Results(step, answered) \in Seq(Row)
      BY <2>2, ResultsType
    <2>5. \A i \in 1..Len(rows) : rows[i].step # step
      <3>1. ASSUME NEW i \in 1..Len(rows), rows[i].step = step PROVE FALSE
        BY <2>1, <2>2, <3>1 DEF Before
      <3> QED
        BY <3>1
    <2>6. Restored = s \o Results(step, answered)
      <3>1. checkpoint[1] = row
        <4>1. <<row>> \in Seq(Row) /\ Len(<<row>>) = 1 /\ <<row>>[1] = row
          BY <2>3
        <4> HIDE DEF row
        <4>2. (<<row>> \o Results(step, answered))[1] = <<row>>[1]
          BY <2>4, <4>1, ConcatProperties
        <4> QED
          BY <2>1, <4>1, <4>2 DEF row
      <3> HIDE DEF row
      <3>2. Restored = rows \o checkpoint
        BY <1>1, <1>3, <2>3, <2>5, <3>1, NoOverlap DEF Restored
      <3>3. rows \o (<<row>> \o Results(step, answered))
              = (rows \o <<row>>) \o Results(step, answered)
        <4>1. <<row>> \in Seq(Row)
          BY <2>3
        <4> QED
          BY SMTT(30), <1>1, <2>4, <4>1, ConcatAssociative
      <3>4. rows \o <<row>> = Append(rows, row)
        BY <1>1, <2>3, ConcatOne
      <3> QED
        BY <2>1, <3>2, <3>3, <3>4 DEF row
    <2>7. Held(rows, rows, {}, Outside, step[1], 0)
      BY <1>1, <2>1 DEF Held, Extends
    <2>8. Sound(s, Outside) /\ ~EndsWith(s, "user")
      <3>1. Held(Append(rows, Assistant(<<step[1], step[2]>>, calls)), rows, {}, Outside,
                 step[1], step[2] + 1)
            /\ ~EndsWith(Append(rows, Assistant(<<step[1], step[2]>>, calls)), "user")
        BY <2>1, <2>2, <2>7, HeldAssistant
      <3> QED
        BY <2>2, <3>1 DEF Held
    <2>9. /\ Len(rows) \in Nat /\ Len(s) = Len(rows) + 1
          /\ s[Len(rows) + 1] = row /\ \A i \in 1..Len(rows) : s[i] = rows[i]
      BY <1>1, <2>3, RowAppend
    <2> HIDE DEF row, s
    <2> DEFINE k == Len(rows) + 1
    <2>10. \A i \in 1..Len(s) : i # k => s[i].step # step
      <3>1. \A i \in 1..Len(s) : i # k => i \in 1..Len(rows)
        BY <2>9
      <3> QED
        BY <2>5, <2>9, <3>1
    <2>11. Open(s, Outside, step, k)
      <3>1. k \in 1..Len(s)
        BY <2>9
      <3> QED
        BY <2>3, <2>8, <2>9, <2>10, <3>1 DEF Open
    <2>12. answered \subseteq s[k].calls
      BY <2>1, <2>3, <2>9
    <2> HIDE DEF k
    <2>13. LET t == s \o Results(step, answered) IN
           /\ Open(t, Outside, step, k)
           /\ answered = {} => t = s
           /\ answered # {} => EndsWith(t, "tool")
      BY <2>2, <2>10, <2>11, <2>12, ResultsOpen
    <2>14. /\ Open(Restored, Outside, step, k)
           /\ answered = {} => Restored = s
           /\ answered # {} => EndsWith(Restored, "tool")
      BY <2>6, <2>13
    <2> QED
      BY <1>2, <2>8, <2>14 DEF Open, EndsWith
  <1>4. CASE checkpoint = <<>> /\ pendingUser /\ EndsWith(rows, "user")
    <2> DEFINE row == Assistant(NoStep, {})
    <2>1. /\ row \in Row /\ row.role = "assistant" /\ row.texts = {} /\ row.step = NoStep
          /\ NoStep[1] = None
      BY RowTypes, RowFields DEF NoStep
    <2>2. Restored = Append(rows, row)
      BY <1>4 DEF Restored
    <2> HIDE DEF row
    <2>3. Sound(Append(rows, row), Outside)
      BY <1>1, <2>1, OutsideTypes, SoundAppend
    <2>4. ~EndsWith(Append(rows, row), "user")
      BY <1>1, <2>1, RowAppend
    <2> QED
      BY <1>2, <2>2, <2>3, <2>4
  <1>5. CASE checkpoint = <<>> /\ ~(pendingUser /\ EndsWith(rows, "user"))
    <2>1. Restored = rows
      BY <1>5 DEF Restored
    <2> QED
      BY <1>1, <1>2, <1>5, <2>1 DEF RowsInv
  <1> QED
    BY <1>3, <1>4, <1>5

\* The question that the next prompt answers has no result.
LEMMA LastAskedOpen ==
  ASSUME NEW s \in Seq(Row), Asked(s) # {}
  PROVE  LET step == LastAsked(s) IN
         /\ step \in Steps
         /\ \E j \in 1..Len(s) :
              s[j].role = "assistant" /\ s[j].step = step /\ "ask" \in s[j].calls
         /\ \A i \in 1..Len(s) : s[i].step = step /\ s[i].role = "tool" => "ask" \notin s[i].calls
  <1> DEFINE T == {i \in DOMAIN s : s[i].step \in Asked(s)}
             Latest(i) == /\ s[i].step \in Asked(s)
                          /\ \A j \in DOMAIN s : s[j].step \in Asked(s) => j <= i
  <1>1. DOMAIN s = 1..Len(s) /\ Len(s) \in Nat
    OBVIOUS
  <1>2. T \subseteq 0..Len(s) /\ T # {}
    BY <1>1 DEF Asked
  <1>3. PICK x \in T : \A y \in T : y <= x
    <2> HIDE DEF T
    <2> QED
      BY <1>1, <1>2, MaxExists
  <1>4. x \in DOMAIN s /\ Latest(x)
    BY <1>3
  <1>5. LastAsked(s) = s[CHOOSE i \in DOMAIN s : Latest(i)].step
    BY DEF LastAsked
  <1> HIDE DEF Latest
  <1>6. Latest(CHOOSE i \in DOMAIN s : Latest(i))
    BY <1>4
  <1>7. LastAsked(s) \in Asked(s)
    BY <1>5, <1>6 DEF Latest
  <1>8. LastAsked(s) \in Steps
    BY LastAskedType
  <1> QED
    BY <1>1, <1>7, <1>8 DEF Asked

\* A further iteration, or the message of the iteration limit.
LEMMA ContinueHolds ==
  ASSUME TypeOK, pc # "idle", NEW s, NEW r, NEW inj, NEW w, turn \notin w,
         Held(s, r, inj, w, turn, iter + 1), Continue(s)
  PROVE  /\ Held(msgs', r, inj, w, turn, Bound(pc', iter'))
         /\ pc' \in {"model", "closing"}
         /\ pc' = "closing" => ~EndsWith(msgs', "user")
         /\ "maxIterations" \notin Ops => iter' < MaxIterations
  <1>1. iter \in Nat /\ MaxIterations \in Nat /\ turn \in Messages
    BY StepTypes, ConstantsAssumption DEF TypeOK
  <1>2. CASE msgs' = s /\ iter' = iter + 1 /\ pc' = "model" /\ iter + 1 < MaxIterations
    BY <1>1, <1>2 DEF Bound
  <1>3. CASE /\ iter + 1 = MaxIterations /\ "maxIterations" \in Ops
             /\ msgs' = WithLimitMessage(s) /\ iter' = MaxIterations /\ pc' = "closing"
    <2>1. Bound(pc', iter') = MaxIterations + 1
      BY <1>3 DEF Bound
    <2>2. CASE EndsWith(s, "assistant") /\ Last(s).calls = {}
      <3>1. msgs' = s /\ ~EndsWith(s, "user")
        BY <1>3, <2>2 DEF WithLimitMessage, EndsWith
      <3>2. w \subseteq w /\ iter + 1 <= MaxIterations + 1
            /\ MaxIterations + 1 \in Nat /\ iter + 1 \in Nat
        BY <1>1, <1>3
      <3>3. Held(s, r, inj, w, turn, MaxIterations + 1)
        BY <3>2, HeldWeaker
      <3> QED
        BY <1>3, <2>1, <3>1, <3>3
    <2>3. CASE ~(EndsWith(s, "assistant") /\ Last(s).calls = {})
      <3>1. msgs' = Append(s, Assistant(<<turn, MaxIterations>>, {}))
        BY <1>3, <2>3 DEF WithLimitMessage
      <3>2. iter + 1 \in Nat /\ iter + 1 <= MaxIterations /\ MaxIterations \in 0..MaxIterations
            /\ {} \in SUBSET {"tool", "ask"}
        BY <1>1, <1>3
      <3>3. LET u == Append(s, Assistant(<<turn, MaxIterations>>, {})) IN
            Held(u, r, inj, w, turn, MaxIterations + 1) /\ ~EndsWith(u, "user")
        BY <1>1, <3>2, HeldAssistant
      <3> QED
        BY <1>3, <2>1, <3>1, <3>3
    <2> QED
      BY <2>2, <2>3
  <1> QED
    BY <1>2, <1>3 DEF Continue

\* Follow-ups behind an answer or a result become a row of their own.
LEMMA DrainHolds ==
  ASSUME TypeOK, pc # "idle", NEW S \in Drainable, Drained(S),
         NEW s, NEW r, NEW n \in Nat,
         Held(s, r, injected, Outside, turn, n), ~EndsWith(s, "user")
  PROVE  /\ Held(Inject(s, S), r, injected', Outside', turn, n)
         /\ EndsWith(Inject(s, S), "user")
         /\ Outside' \subseteq Outside /\ PendingQueue
  <1>1. S \in SUBSET Messages /\ turn \in Messages
    BY DrainedType, StepTypes
  <1>2. S \subseteq inbox /\ S # {} /\ PendingQueue /\ inbox \cap unsent = {}
    BY DEF Drainable, Drained, TypeOK
  <1>3. Outside' = Outside \ S /\ injected' = injected \cup S /\ S \subseteq Outside
    BY <1>2 DEF Drained, Outside
  <1>4. None \notin Outside \ S
    BY OutsideTypes
  <1>5. Inject(s, S) = Append(s, User(S))
    BY DEF Inject
  <1>6. Held(s, r, injected, Outside \ S, turn, n)
    BY HeldWeaker
  <1>7. \A i \in 1..Len(s) : s[i].texts \cap S = {}
    <2>1. \A i \in 1..Len(s) : s[i].texts \cap Outside = {}
      BY DEF Held, Sound
    <2> QED
      BY <1>3, <2>1
  <1>8. S \cap (Outside \ S) = {}
    OBVIOUS
  <1>9. LET u == Append(s, User(S)) IN
        Held(u, r, injected \cup S, Outside \ S, turn, n) /\ EndsWith(u, "user")
    BY <1>1, <1>4, <1>6, <1>7, <1>8, HeldUser
  <1> QED
    BY <1>2, <1>3, <1>5, <1>9

-----------------------------------------------------------------------------
(***************************************************************************)
(* One lemma per action                                                    *)
(***************************************************************************)

LEMMA BeginTurnHolds ==
  ASSUME TypeOK, HeldInv, NEW m \in Messages, BeginTurn(m)
  PROVE  HeldInv'
  <1>1. /\ Sound(Restored, Outside) /\ ~EndsWith(Restored, "user")
        /\ Texts(rows) \subseteq Texts(Restored)
    BY RestoredSound DEF HeldInv
  <1>2. /\ rows' = Restored /\ pendingUser' = FALSE /\ checkpoint' = <<>>
        /\ turn' = m /\ pc' = "preparing" /\ pc = "idle"
        /\ UNCHANGED <<injected, iter, absorbed>>
    BY DEF BeginTurn, runner, history
  <1>3. m \in Outside /\ Outside' \subseteq Outside /\ m \notin Outside'
    BY DEF BeginTurn, Outside, TypeOK
  <1>4. RowsInv'
    <2>1. Sound(Restored, Outside')
      BY <1>1, <1>3, SoundWeaker
    <2> QED
      BY <1>1, <1>2, <2>1 DEF RowsInv, HeldInv, EndsWith, Texts
  <1>5. BetweenInv'
    <2>1. Sound(Restored, {m})
      BY <1>1, <1>3, SoundWeaker
    <2>2. Before(Restored, m, 0)
      BY <1>1, <1>3 DEF Before, Sound
    <2> QED
      BY <1>1, <1>2, <1>3, <2>1, <2>2 DEF BetweenInv, HeldInv, EndsWith, Before
  <1>6. RunnerInv' /\ Restorable(checkpoint, rows, Outside)'
    BY <1>2 DEF RunnerInv, Running, Restorable
  <1> QED
    BY <1>4, <1>5, <1>6 DEF HeldInv

LEMMA PrepareHolds ==
  ASSUME TypeOK, HeldInv, Prepare
  PROVE  HeldInv'
  <1>1. /\ pc = "preparing" /\ pc' = "model" /\ pc # "idle"
        /\ UNCHANGED <<inbox, unsent, turn, iter, injected, absorbed>>
    BY DEF Prepare, channels
  <1>2. /\ turn \notin Outside /\ Before(rows, turn, 0) /\ injected = {} /\ iter = 0
        /\ Sound(rows, {turn}) /\ ~EndsWith(rows, "user") /\ checkpoint = <<>>
        /\ Sound(rows, Outside) /\ absorbed \subseteq Texts(rows)
        /\ PendingQueue => iter < MaxIterations
    BY <1>1 DEF HeldInv, BetweenInv, RowsInv
  <1>3. turn \in Messages /\ turn # None /\ None \notin Outside /\ rows \in Seq(Row)
    BY <1>1, StepTypes, OutsideTypes, ConstantsAssumption DEF TypeOK
  <1>4. Outside' = Outside
    BY <1>1 DEF Outside
  <1>5. \A i \in 1..Len(rows) : rows[i].texts \cap {turn} = {}
    BY <1>2 DEF Sound
  <1>6. ASSUME RowsInv', Before(rows', turn, 0), checkpoint' = <<>>, skip' = Len(rows'),
               Sound(msgs', Outside), Extends(rows', msgs'), rows' \in Seq(Row),
               Before(msgs', turn, 0)
        PROVE  HeldInv'
    <2>1. BetweenInv'
      BY <1>1, <1>2, <1>4, <1>6 DEF BetweenInv, Before
    <2>2. Held(msgs', rows', injected', Outside', turn', Bound(pc', iter'))
      <3>1. injected' \subseteq Texts(msgs') /\ Bound(pc', iter') = 0
        BY <1>1, <1>2 DEF Bound
      <3> QED
        BY <1>1, <1>4, <1>6, <3>1 DEF Held
    <2>3. RunnerInv'
      BY <1>1, <1>6, <2>2 DEF RunnerInv
    <2>4. Restorable(checkpoint, rows, Outside)'
      BY <1>6 DEF Restorable
    <2> QED
      BY <1>6, <2>1, <2>3, <2>4 DEF HeldInv
  <1>7. CASE AnswerQuestion
    <2> DEFINE step == LastAsked(rows)
               row == Result(step, "ask", {turn})
    <2>1. /\ msgs' = Append(rows, row) /\ skip' = Len(rows)
          /\ UNCHANGED <<rows, pendingUser, checkpoint>> /\ Asked(rows) # {}
      BY <1>7 DEF AnswerQuestion, session
    <2>2. /\ step \in Steps
          /\ \E j \in 1..Len(rows) :
               rows[j].role = "assistant" /\ rows[j].step = step /\ "ask" \in rows[j].calls
          /\ \A i \in 1..Len(rows) :
               rows[i].step = step /\ rows[i].role = "tool" => "ask" \notin rows[i].calls
      BY <1>3, <2>1, LastAskedOpen
    <2> HIDE DEF step
    <2>3. /\ row \in Row /\ row.role = "tool" /\ row.texts = {turn} /\ row.step = step
          /\ row.calls = {"ask"}
      BY <1>3, <2>2, RowTypes, RowFields
    <2> HIDE DEF row
    <2>4. step[1] \notin Outside
      BY <1>2, <2>2 DEF Sound
    <2>5. step[1] = turn => step[2] < 0
      BY <1>2, <2>2 DEF Before
    <2>6. Sound(Append(rows, row), Outside)
      <3>1. row.texts \cap Outside = {} /\ row.step[1] \notin Outside
        BY <1>2, <2>3, <2>4
      <3>2. \A i \in 1..Len(rows) : rows[i] # row
        BY <2>2, <2>3
      <3>3. \E j \in 1..Len(rows) :
              rows[j].role = "assistant" /\ rows[j].step = row.step /\ row.calls \subseteq rows[j].calls
        BY <2>2, <2>3
      <3>4. \A i \in 1..Len(rows) : rows[i].texts \cap row.texts = {}
        BY <1>5, <2>3
      <3> QED
        BY <1>2, <2>3, <3>1, <3>2, <3>3, <3>4, SoundAppend
    <2>7. Before(Append(rows, row), turn, 0)
      BY <1>2, <1>3, <2>3, <2>5, BeforeAppend
    <2>8. Extends(rows, Append(rows, row))
      <3>1. Extends(rows, rows)
        BY DEF Extends
      <3> QED
        BY <1>3, <2>3, <3>1, ExtendsAppend
    <2>9. RowsInv'
      BY <1>1, <1>2, <1>4, <2>1 DEF RowsInv, EndsWith, Texts
    <2> QED
      BY <1>2, <1>3, <1>6, <2>1, <2>6, <2>7, <2>8, <2>9
  <1>8. CASE PersistPrompt
    <2> DEFINE s == Append(rows, User({turn}))
    <2>1. rows' = s /\ msgs' = s /\ skip' = Len(rows) + 1 /\ pendingUser' /\ checkpoint' = checkpoint
      BY <1>2, <1>8 DEF PersistPrompt
    <2>2. Held(rows, rows, {}, Outside, turn, 0)
      BY <1>2, <1>3 DEF Held, Extends
    <2>3. Held(s, rows, {} \cup {turn}, Outside, turn, 0)
      <3>1. {turn} \in SUBSET Messages /\ {turn} \cap Outside = {}
        BY <1>2, <1>3
      <3> QED
        BY <1>2, <1>3, <1>5, <2>2, <3>1, HeldUser
    <2>4. User({turn}) \in Row
      BY <1>3, RowTypes
    <2>5. s \in Seq(Row) /\ Len(s) = Len(rows) + 1 /\ Texts(rows) \subseteq Texts(s)
      BY <1>3, <2>4, RowAppend
    <2> HIDE DEF s
    <2>6. Sound(s, Outside) /\ Before(s, turn, 0) /\ Extends(s, s)
      BY <2>3 DEF Held, Extends
    <2>7. RowsInv'
      BY <1>1, <1>2, <1>4, <2>1, <2>5, <2>6 DEF RowsInv, EndsWith, Texts
    <2> QED
      BY <1>2, <1>6, <2>1, <2>5, <2>6, <2>7
  <1>9. CASE PersistFollowUp
    <2> DEFINE row == FollowUp(turn)
               s == Append(rows, row)
    <2>1. rows' = s /\ msgs' = s /\ skip' = Len(s) /\ UNCHANGED <<pendingUser, checkpoint>>
      BY <1>9 DEF PersistFollowUp
    <2>2. /\ row \in Row /\ row.role = "assistant" /\ row.texts = {turn} /\ row.step = NoStep
          /\ NoStep[1] = None
      BY <1>3, RowTypes, RowFields DEF NoStep
    <2> HIDE DEF row
    <2>3. Sound(s, Outside)
      <3>1. row.texts \cap Outside = {} /\ row.step[1] \notin Outside
        BY <1>2, <1>3, <2>2
      <3> QED
        BY <1>2, <1>5, <2>2, <3>1, SoundAppend
    <2>4. Before(s, turn, 0)
      BY <1>2, <1>3, <2>2, BeforeAppend
    <2>5. s \in Seq(Row) /\ Texts(rows) \subseteq Texts(s) /\ ~EndsWith(s, "user")
      BY <1>3, <2>2, RowAppend
    <2> HIDE DEF s
    <2>6. RowsInv'
      BY <1>1, <1>2, <1>4, <2>1, <2>3, <2>5 DEF RowsInv, EndsWith, Texts
    <2>7. Extends(s, s)
      BY DEF Extends
    <2> QED
      BY <1>2, <1>6, <2>1, <2>3, <2>4, <2>5, <2>6, <2>7
  <1> QED
    BY <1>7, <1>8, <1>9 DEF Prepare

\* What _save_turn leaves is what the runner held.
LEMMA SaveTurnHolds ==
  ASSUME TypeOK, HeldInv, SaveTurn
  PROVE  HeldInv'
  <1>1. pc = "ending" /\ Running
    BY DEF SaveTurn, Running
  <1>2. /\ skip = Len(rows) /\ Sound(msgs, Outside) /\ Extends(rows, msgs)
        /\ injected \subseteq Texts(msgs) /\ ~EndsWith(msgs, "user")
    BY <1>1 DEF HeldInv, RunnerInv, Held
  <1>3. rows \in Seq(Row) /\ msgs \in Seq(Row) /\ Len(rows) \in Nat /\ Len(msgs) \in Nat
        /\ Len(rows) <= Len(msgs)
    BY <1>2 DEF TypeOK, Extends
  <1> DEFINE new == SubSeq(msgs, Len(rows) + 1, Len(msgs))
             s == rows \o new
  <1>4. rows' = s
    BY <1>2 DEF SaveTurn, TurnRows
  <1>5. s = msgs
    <2>1. /\ new \in Seq(Row) /\ Len(new) = Len(msgs) - Len(rows)
          /\ \A i \in 1..(Len(msgs) - Len(rows)) : new[i] = msgs[Len(rows) + i]
      <3>1. \A i \in (Len(rows) + 1)..Len(msgs) : msgs[i] \in Row
        BY <1>3
      <3> QED
        BY <1>3, <3>1, SubSeqProperties
    <2> HIDE DEF new
    <2>2. /\ s \in Seq(Row) /\ Len(s) = Len(msgs)
          /\ \A i \in 1..Len(msgs) : s[i] = IF i <= Len(rows) THEN rows[i] ELSE new[i - Len(rows)]
      BY <1>3, <2>1, ConcatProperties
    <2> HIDE DEF s
    <2>3. ASSUME NEW i \in 1..Len(msgs) PROVE s[i] = msgs[i]
      <3>1. CASE i <= Len(rows)
        BY <1>2, <1>3, <2>2, <3>1 DEF Extends
      <3>2. CASE ~(i <= Len(rows))
        <4>1. i - Len(rows) \in 1..(Len(msgs) - Len(rows)) /\ Len(rows) + (i - Len(rows)) = i
          BY <1>3, <3>2
        <4> QED
          BY <2>1, <2>2, <3>2, <4>1
      <3> QED
        BY <3>1, <3>2
    <2> QED
      BY <1>3, <2>2, <2>3, SeqEqual
  <1>6. Texts(rows) \subseteq Texts(msgs)
    BY <1>2, <1>3 DEF Texts, Extends
  <1>7. /\ TurnOver /\ UNCHANGED <<inbox, unsent>> /\ pendingUser' = FALSE /\ checkpoint' = <<>>
        /\ absorbed' = absorbed \cup injected
    BY DEF SaveTurn, channels
  <1>8. RowsInv'
    BY <1>2, <1>4, <1>5, <1>6, <1>7 DEF HeldInv, RowsInv, Outside, EndsWith, Texts
  <1>9. Restorable(checkpoint, rows, Outside)'
    BY <1>7 DEF Restorable
  <1> QED
    BY <1>7, <1>8, <1>9, EndedHolds

LEMMA EndedTurnHolds ==
  ASSUME TypeOK, HeldInv,
         Interrupt \/ Crash \/ \E m \in Messages : New(m)
  PROVE  HeldInv'
  <1>1. CASE Interrupt \/ Crash
    <2>1. /\ TurnOver /\ Outside' \subseteq Outside
          /\ UNCHANGED <<rows, pendingUser, checkpoint, absorbed>>
      BY <1>1 DEF Interrupt, Crash, Outside, channels, session, history
    <2>2. Sound(rows, Outside') /\ Restorable(checkpoint, rows, Outside')
      BY <2>1, SoundWeaker, RestorableWeaker DEF HeldInv, RowsInv
    <2>3. RowsInv'
      BY <2>1, <2>2 DEF HeldInv, RowsInv, EndsWith, Texts
    <2> QED
      BY <2>1, <2>2, <2>3, EndedHolds
  <1>2. CASE \E m \in Messages : New(m)
    <2>1. TurnOver /\ Outside' \subseteq Outside /\ rows' = <<>> /\ absorbed' = {}
          /\ (checkpoint' = <<>> \/ checkpoint' = checkpoint)
      BY <1>2 DEF New, Forget, Outside
    <2>2. Len(<<>>) = 0 /\ <<>> \in Seq(Row)
      BY EmptySeq
    <2>3. Sound(<<>>, Outside') /\ ~EndsWith(<<>>, "user")
      BY <2>2 DEF Sound, EndsWith
    <2>4. RowsInv'
      BY <2>1, <2>3 DEF RowsInv, EndsWith, Texts
    <2>5. Restorable(checkpoint, <<>>, Outside')
      <3>1. \A t : Before(<<>>, t, 0)
        BY <2>2 DEF Before
      <3> QED
        BY <2>1, <3>1 DEF HeldInv, Restorable
    <2>6. Restorable(checkpoint, rows, Outside)'
      BY <2>1, <2>5 DEF Restorable
    <2> QED
      BY <2>1, <2>4, <2>6, EndedHolds
  <1> QED
    BY <1>1, <1>2

-----------------------------------------------------------------------------
(***************************************************************************)
(* The runner's steps                                                      *)
(***************************************************************************)

\* What the invariant says of a runner under way.
LEMMA RunnerFacts ==
  ASSUME TypeOK, HeldInv, Running
  PROVE  /\ Held(msgs, rows, injected, Outside, turn, Bound(pc, iter))
         /\ Bound(pc, iter) \in Nat /\ Bound(pc, iter) <= iter + 1
         /\ Held(msgs, rows, injected, Outside, turn, iter + 1)
         /\ pc # "idle" /\ turn \in Messages /\ turn \notin Outside
         /\ iter \in Nat /\ iter \in 0..MaxIterations
         /\ Step = <<turn, iter>> /\ Step \in Steps /\ Step[1] = turn /\ Step[2] = iter
         /\ Restorable(checkpoint, rows, Outside) /\ Before(rows, turn, 0)
         /\ PendingQueue => iter < MaxIterations
         /\ skip = Len(rows) /\ msgs \in Seq(Row)
  <1>1. pc # "idle"
    BY DEF Running
  <1>2. turn \in Messages /\ Step \in Steps
    BY <1>1, StepTypes
  <1>3. iter \in 0..MaxIterations /\ iter \in Nat
    BY ConstantsAssumption DEF TypeOK
  <1>4. Bound(pc, iter) \in Nat /\ Bound(pc, iter) <= iter + 1 /\ iter + 1 \in Nat
    BY <1>3 DEF Bound
  <1>5. Held(msgs, rows, injected, Outside, turn, Bound(pc, iter))
    BY DEF HeldInv, RunnerInv
  <1>6. Outside \subseteq Outside
    OBVIOUS
  <1>7. Held(msgs, rows, injected, Outside, turn, iter + 1)
    BY <1>4, <1>5, <1>6, HeldWeaker
  <1> QED
    BY <1>1, <1>2, <1>3, <1>4, <1>5, <1>7
    DEF HeldInv, RunnerInv, BetweenInv, Step, Held, Sound

\* The checkpoint of a step of the turn under way.
LEMMA StepRestorable ==
  ASSUME TypeOK, HeldInv, Running, NEW w, w \subseteq Outside,
         NEW calls \in SUBSET {"tool", "ask"},
         NEW answered \in SUBSET {"tool", "ask"}, answered \subseteq calls
  PROVE  Restorable(<<Assistant(Step, calls)>> \o Results(Step, answered), rows, w)
  <1>1. Step \in Messages \X (0..MaxIterations) /\ Step[1] \notin w /\ Before(rows, Step[1], 0)
    BY RunnerFacts DEF Step
  <1> QED
    BY <1>1 DEF Restorable

LEMMA ToolCallsHolds ==
  ASSUME TypeOK, HeldInv, NEW calls \in SUBSET {"tool", "ask"}, ToolCalls(calls)
  PROVE  HeldInv'
  <1> DEFINE row == Assistant(Step, calls)
             s == Append(msgs, row)
  <1>1. Running /\ Running' /\ pc = "model" /\ pc' = "tools" /\ calls # {}
    BY DEF ToolCalls, Running
  <1>2. /\ msgs' = s /\ checkpoint' = <<row>> \o Results(Step, calls)
        /\ UNCHANGED <<rows, pendingUser, turn, skip, iter, injected, absorbed>>
        /\ Outside' = Outside /\ Step' = Step
    BY DEF ToolCalls, history, channels, Outside, Step
  <1>3. Bound(pc, iter) = iter /\ Bound(pc', iter') = iter + 1
    BY <1>1, <1>2 DEF Bound
  <1>4. Held(s, rows, injected, Outside, turn, iter + 1) /\ ~EndsWith(s, "user")
    <2>1. Held(msgs, rows, injected, Outside, turn, iter)
      BY <1>1, <1>3, RunnerFacts
    <2>2. /\ turn \in Messages /\ turn \notin Outside /\ iter \in Nat /\ iter \in 0..MaxIterations
          /\ iter <= iter /\ Step = <<turn, iter>>
      BY <1>1, RunnerFacts
    <2> QED
      BY <2>1, <2>2, HeldAssistant
  <1>5. ToolsRun(s, Step)
    <2>1. row \in Row /\ row.calls = calls /\ msgs \in Seq(Row)
      BY <1>1, RunnerFacts, RowTypes, RowFields
    <2>2. /\ Len(msgs) \in Nat /\ Len(s) = Len(msgs) + 1 /\ s # <<>>
          /\ s[Len(msgs) + 1] = row /\ \A i \in 1..Len(msgs) : s[i] = msgs[i]
      BY <2>1, RowAppend
    <2>3. \A i \in 1..Len(msgs) : msgs[i].step # Step
      <3>1. Before(msgs, turn, iter) /\ iter \in Nat /\ Step[1] = turn /\ Step[2] = iter
        BY <1>1, <1>3, RunnerFacts DEF Held
      <3> QED
        BY <3>1 DEF Before
    <2> HIDE DEF row, s
    <2>4. Last(s) = row
      BY <2>2 DEF Last
    <2>5. \A i \in 1..(Len(s) - 1) : s[i].step # Step
      BY <2>2, <2>3
    <2> QED
      BY <1>1, <2>1, <2>2, <2>4, <2>5 DEF ToolsRun, row
  <1>6. Restorable(checkpoint', rows, Outside')
    BY <1>1, <1>2, StepRestorable
  <1>7. PendingQueue => iter' < MaxIterations
    BY <1>1, <1>2, RunnerFacts
  <1> HIDE DEF s, row
  <1> QED
    BY <1>1, <1>2, <1>3, <1>4, <1>5, <1>6, <1>7, RunnerHolds

\* The results of the tools that ran.
LEMMA ToolsHeld ==
  ASSUME TypeOK, HeldInv, pc = "tools",
         NEW answered \in SUBSET {"tool", "ask"}, answered \subseteq Last(msgs).calls
  PROVE  LET s == msgs \o Results(Step, answered) IN
         /\ Held(s, rows, injected, Outside, turn, iter + 1) /\ ~EndsWith(s, "user")
         /\ answered # {} => EndsWith(s, "tool")
         /\ \A i \in 1..Len(s) : s[i].step = Step => s[i].role = "tool" \/ s[i].calls # {}
  <1> DEFINE k == Len(msgs)
             s == msgs \o Results(Step, answered)
             row == Assistant(Step, Last(msgs).calls)
  <1>1. Running /\ ToolsRun(msgs, Step)
    BY DEF Running, HeldInv, RunnerInv
  <1>2. msgs \in Seq(Row) /\ k \in 1..Len(msgs) /\ Len(msgs) \in Nat /\ msgs[k] = row
    BY <1>1, RunnerFacts DEF ToolsRun, Last
  <1>3. row.role = "assistant" /\ row.step = Step /\ row.calls = Last(msgs).calls
        /\ row.calls # {}
    BY <1>1, RowFields DEF ToolsRun
  <1> HIDE DEF row
  <1>4. \A i \in 1..Len(msgs) : i # k => msgs[i].step # Step
    <2>1. \A i \in 1..Len(msgs) : i # k => i \in 1..(Len(msgs) - 1)
      BY <1>2
    <2> QED
      BY <1>1, <2>1 DEF ToolsRun
  <1>5. Held(msgs, rows, injected, Outside, turn, iter + 1) /\ Step \in Steps
        /\ iter + 1 \in Nat /\ (Step[1] = turn => Step[2] < iter + 1)
    BY <1>1, RunnerFacts
  <1>6. Open(msgs, Outside, Step, k)
    BY <1>2, <1>3, <1>4, <1>5 DEF Open, Held
  <1>7. answered \subseteq msgs[k].calls
    BY <1>2, <1>3
  <1> HIDE DEF k
  <1>8. /\ Held(s, rows, injected, Outside, turn, iter + 1) /\ Open(s, Outside, Step, k)
        /\ answered = {} => s = msgs
        /\ answered # {} => EndsWith(s, "tool")
    BY <1>4, <1>5, <1>6, <1>7, HeldResults
  <1>9. s[k] = row
    <2>1. Extends(msgs, msgs) /\ Before(msgs, turn, iter + 1)
      BY <1>5 DEF Extends, Held
    <2>2. Extends(msgs, s)
      BY <1>2, <1>5, <2>1, ResultsBefore
    <2> QED
      BY <1>2, <2>2 DEF Extends
  <1> HIDE DEF s
  <1>10. ~EndsWith(s, "user")
    <2>1. Last(msgs) = row
      BY <1>1 DEF ToolsRun, row
    <2> QED
      BY <1>3, <1>8, <2>1 DEF EndsWith
  <1>11. \A i \in 1..Len(s) : s[i].step = Step => s[i].role = "tool" \/ s[i].calls # {}
    BY <1>3, <1>8, <1>9 DEF Open
  <1> QED
    BY <1>8, <1>10, <1>11 DEF s

LEMMA ToolsDoneHolds ==
  ASSUME TypeOK, HeldInv, ToolsDone
  PROVE  HeldInv'
  <1> DEFINE calls == Last(msgs).calls
             answered == calls \ {"ask"}
             s == msgs \o Results(Step, answered)
  <1>1. Running /\ Running' /\ pc = "tools" /\ pc' \in {"ending", "drain"}
    BY DEF ToolsDone, Running
  <1>2. /\ msgs' = s
        /\ UNCHANGED <<rows, pendingUser, turn, skip, iter, injected, absorbed>>
        /\ Outside' = Outside
    BY DEF ToolsDone, history, channels, Outside
  <1>3. calls \in SUBSET {"tool", "ask"} /\ Last(msgs) = Assistant(Step, calls)
    <2>1. ToolsRun(msgs, Step) /\ msgs \in Seq(Row)
      BY <1>1, RunnerFacts DEF HeldInv, RunnerInv
    <2>2. Last(msgs) \in Row
      BY <2>1 DEF ToolsRun, Last
    <2> QED
      BY <2>1, <2>2 DEF ToolsRun, Row
  <1>4. answered \in SUBSET {"tool", "ask"} /\ answered \subseteq calls
    BY <1>3
  <1>5. \/ checkpoint' = checkpoint
        \/ checkpoint' = <<Assistant(Step, calls)>> \o Results(Step, answered)
    BY <1>3 DEF ToolsDone
  <1> HIDE DEF answered
  <1>6. Held(s, rows, injected, Outside, turn, iter + 1) /\ ~EndsWith(s, "user")
    BY <1>1, <1>4, ToolsHeld
  <1>7. Restorable(checkpoint', rows, Outside')
    BY <1>1, <1>2, <1>3, <1>4, <1>5, StepRestorable, RunnerFacts
  <1>8. Bound(pc', iter') = iter + 1 /\ (PendingQueue => iter' < MaxIterations)
    BY <1>1, <1>2, RunnerFacts DEF Bound
  <1> HIDE DEF s, calls
  <1> QED
    BY <1>1, <1>2, <1>6, <1>7, <1>8, RunnerHolds

LEMMA ToolFailsHolds ==
  ASSUME TypeOK, HeldInv, ToolFails
  PROVE  HeldInv'
  <1>1. Running /\ Running' /\ pc = "tools" /\ pc' \in {"closing", "ending"}
    BY DEF ToolFails, Running
  <1>2. /\ UNCHANGED <<rows, pendingUser, checkpoint, turn, skip, iter, injected, absorbed>>
        /\ Outside' = Outside
    BY DEF ToolFails, history, channels, session, Outside
  <1>3. PICK answered \in SUBSET {"tool", "ask"} :
          /\ answered \subseteq Last(msgs).calls /\ answered # {}
          /\ msgs' = WithPlaceholder(msgs \o Results(Step, answered))
    <2>1. ToolsRun(msgs, Step) /\ msgs \in Seq(Row)
      BY <1>1, RunnerFacts DEF HeldInv, RunnerInv
    <2>2. Last(msgs) \in Row
      BY <2>1 DEF ToolsRun, Last
    <2>3. Last(msgs).calls \in SUBSET {"tool", "ask"} /\ {"tool"} \in SUBSET {"tool", "ask"}
      BY <2>2 DEF Row
    <2>4. "tool" \in Last(msgs).calls
      BY DEF ToolFails
    <2>5. \/ msgs' = WithPlaceholder(msgs \o Results(Step, Last(msgs).calls))
          \/ msgs' = WithPlaceholder(msgs \o Results(Step, {"tool"}))
      BY DEF ToolFails
    <2> QED
      BY <2>3, <2>4, <2>5
  <1> DEFINE s == msgs \o Results(Step, answered)
             row == Assistant(Step, {})
  <1>4. /\ Held(s, rows, injected, Outside, turn, iter + 1) /\ EndsWith(s, "tool")
        /\ \A i \in 1..Len(s) : s[i].step = Step => s[i].role = "tool" \/ s[i].calls # {}
    BY <1>1, <1>3, ToolsHeld
  <1> HIDE DEF s
  <1>5. msgs' = Append(s, row)
    <2>1. msgs' = WithPlaceholder(s) /\ ~EndsWith(s, "assistant")
      BY <1>3, <1>4 DEF EndsWith, s
    <2> QED
      BY <2>1 DEF WithPlaceholder
  <1>6. /\ row \in Row /\ row.role = "assistant" /\ row.texts = {} /\ row.step = Step
        /\ row.calls = {} /\ Step[1] = turn /\ Step[2] = iter /\ turn \notin Outside
        /\ iter \in Nat
    BY <1>1, RunnerFacts, RowTypes, RowFields
  <1> HIDE DEF row
  <1>7. s \in Seq(Row) /\ Sound(s, Outside) /\ rows \in Seq(Row) /\ Extends(rows, s)
        /\ Before(s, turn, iter + 1) /\ injected \subseteq Texts(s)
    BY <1>4 DEF Held, Sound
  <1>8. Sound(Append(s, row), Outside)
    <2>1. \A i \in 1..Len(s) : s[i] # row
      BY <1>4, <1>6
    <2> QED
      BY <1>6, <1>7, <2>1, SoundAppend
  <1>9. Before(Append(s, row), turn, iter + 1)
    BY <1>6, <1>7, BeforeAppend
  <1>10. /\ Extends(rows, Append(s, row)) /\ Texts(s) \subseteq Texts(Append(s, row))
         /\ ~EndsWith(Append(s, row), "user")
    BY <1>6, <1>7, ExtendsAppend, RowAppend
  <1>11. Held(msgs', rows, injected', Outside', turn, Bound(pc', iter'))
    <2>1. Bound(pc', iter') = iter + 1
      BY <1>1, <1>2 DEF Bound
    <2> QED
      BY <1>2, <1>5, <1>7, <1>8, <1>9, <1>10, <2>1 DEF Held
  <1>12. /\ Restorable(checkpoint', rows, Outside')
         /\ PendingQueue => iter' < MaxIterations
    BY <1>1, <1>2, RunnerFacts
  <1> QED
    BY <1>1, <1>2, <1>5, <1>10, <1>11, <1>12, RunnerHolds

\* The turn goes on with the follow-ups drained behind s.
LEMMA DrainContinuesHolds ==
  ASSUME EveryPromptAnswered, TypeOK, HeldInv, Running,
         NEW S \in Drainable, Drained(S), NEW s,
         Held(s, rows, injected, Outside, turn, iter + 1), ~EndsWith(s, "user"),
         Continue(Inject(s, S)),
         UNCHANGED <<rows, pendingUser, turn, skip, absorbed>>,
         Restorable(checkpoint', rows, Outside')
  PROVE  HeldInv'
  <1>1. pc # "idle" /\ turn \notin Outside /\ iter + 1 \in Nat
    BY RunnerFacts
  <1>2. /\ Held(Inject(s, S), rows, injected', Outside', turn, iter + 1)
        /\ Outside' \subseteq Outside /\ PendingQueue
    BY <1>1, DrainHolds
  <1>3. turn \notin Outside' /\ "maxIterations" \notin Ops
    BY <1>1, <1>2 DEF EveryPromptAnswered
  <1>4. /\ Held(msgs', rows, injected', Outside', turn, Bound(pc', iter'))
        /\ pc' \in {"model", "closing"}
        /\ pc' = "closing" => ~EndsWith(msgs', "user")
        /\ iter' < MaxIterations
    BY <1>1, <1>2, <1>3, ContinueHolds
  <1>5. Running'
    BY <1>4 DEF Running
  <1> QED
    BY <1>2, <1>4, <1>5, RunnerHolds

\* The turn goes on with s, and nothing was drained.
LEMMA ContinuesHolds ==
  ASSUME EveryPromptAnswered, TypeOK, HeldInv, Running, NEW s,
         Held(s, rows, injected, Outside, turn, iter + 1), Continue(s),
         UNCHANGED <<rows, pendingUser, turn, skip, absorbed, inbox, unsent, injected>>,
         Restorable(checkpoint', rows, Outside)
  PROVE  HeldInv'
  <1>1. pc # "idle" /\ turn \notin Outside
    BY RunnerFacts
  <1>2. /\ Held(msgs', rows, injected, Outside, turn, Bound(pc', iter'))
        /\ pc' \in {"model", "closing"}
        /\ pc' = "closing" => ~EndsWith(msgs', "user")
        /\ "maxIterations" \notin Ops => iter' < MaxIterations
    BY <1>1, ContinueHolds
  <1>3. Running' /\ Outside' = Outside
    BY <1>2 DEF Running, Outside
  <1>4. PendingQueue => iter' < MaxIterations
    BY <1>2 DEF EveryPromptAnswered
  <1> QED
    BY <1>2, <1>3, <1>4, RunnerHolds

\* The turn closes or ends with s, and nothing was drained.
LEMMA ClosesHolds ==
  ASSUME TypeOK, HeldInv, Running, NEW s,
         Held(s, rows, injected, Outside, turn, iter + 1), ~EndsWith(s, "user"),
         msgs' = s, iter' = iter, pc' \in {"closing", "ending"},
         UNCHANGED <<rows, pendingUser, turn, skip, absorbed, inbox, unsent, injected>>,
         Restorable(checkpoint', rows, Outside)
  PROVE  HeldInv'
  <1>1. Running' /\ Outside' = Outside /\ Bound(pc', iter') = iter + 1
    BY DEF Running, Outside, Bound
  <1>2. PendingQueue => iter' < MaxIterations
    BY RunnerFacts
  <1> QED
    BY <1>1, <1>2, RunnerHolds

LEMMA DrainAfterToolsHolds ==
  ASSUME EveryPromptAnswered, TypeOK, HeldInv, DrainAfterTools
  PROVE  HeldInv'
  <1>1. Running /\ UNCHANGED <<rows, pendingUser, checkpoint, turn, skip, absorbed>>
    BY DEF DrainAfterTools, Running, session, history
  <1>2. /\ Held(msgs, rows, injected, Outside, turn, iter + 1)
        /\ Restorable(checkpoint, rows, Outside)
    BY <1>1, RunnerFacts
  <1>3. ~EndsWith(msgs, "user")
    BY <1>1 DEF DrainAfterTools, HeldInv, RunnerInv
  <1>4. ASSUME NEW S \in Drainable, Drained(S), Continue(Inject(msgs, S)) PROVE HeldInv'
    <2>1. Outside' \subseteq Outside
      BY <1>4 DEF Drained, Outside
    <2>2. Restorable(checkpoint', rows, Outside')
      BY <1>1, <1>2, <2>1, RestorableWeaker
    <2> QED
      BY <1>1, <1>2, <1>3, <1>4, <2>2, DrainContinuesHolds
  <1>5. CASE NothingDrained /\ Continue(msgs)
    BY <1>1, <1>2, <1>5, ContinuesHolds DEF NothingDrained, channels
  <1> QED
    BY <1>4, <1>5 DEF DrainAfterTools

LEMMA AnswerHolds ==
  ASSUME EveryPromptAnswered, TypeOK, HeldInv, Answer
  PROVE  HeldInv'
  <1> DEFINE s == Append(msgs, Assistant(Step, {}))
  <1>1. /\ Running /\ pc = "model" /\ checkpoint' = <<Assistant(Step, {})>>
        /\ UNCHANGED <<rows, pendingUser, turn, skip, absorbed>>
    BY DEF Answer, Running, history
  <1>2. Held(s, rows, injected, Outside, turn, iter + 1) /\ ~EndsWith(s, "user")
    <2>1. Held(msgs, rows, injected, Outside, turn, iter)
      BY <1>1, RunnerFacts DEF Bound
    <2>2. /\ turn \in Messages /\ turn \notin Outside /\ iter \in Nat /\ iter \in 0..MaxIterations
          /\ iter <= iter /\ Step = <<turn, iter>> /\ {} \in SUBSET {"tool", "ask"}
      BY <1>1, RunnerFacts
    <2> QED
      BY <2>1, <2>2, HeldAssistant
  <1>3. \A w : w \subseteq Outside => Restorable(checkpoint', rows, w)
    <2>1. <<Assistant(Step, {})>> \o Results(Step, {}) = <<Assistant(Step, {})>>
      <3>1. <<Assistant(Step, {})>> \in Seq(Row) /\ <<>> \in Seq(Row)
        BY <1>1, RunnerFacts, RowTypes
      <3>2. <<>> \o <<>> = <<>> /\ Results(Step, {}) = <<>> \o <<>>
        BY <3>1, ConcatEmptySeq DEF Results
      <3>3. <<Assistant(Step, {})>> \o <<>> = <<Assistant(Step, {})>>
        BY <3>1, ConcatEmptySeq
      <3> QED
        BY <3>2, <3>3
    <2>2. {} \in SUBSET {"tool", "ask"}
      OBVIOUS
    <2> QED
      BY <1>1, <2>1, <2>2, StepRestorable
  <1>4. \/ \E S \in Drainable : Drained(S) /\ Continue(Inject(s, S))
        \/ NothingDrained /\ msgs' = s /\ pc' = "ending" /\ UNCHANGED iter
    BY DEF Answer
  <1> HIDE DEF s
  <1>5. ASSUME NEW S \in Drainable, Drained(S), Continue(Inject(s, S)) PROVE HeldInv'
    <2>1. Outside' \subseteq Outside
      BY <1>5 DEF Drained, Outside
    <2> QED
      BY <1>1, <1>2, <1>3, <1>5, <2>1, DrainContinuesHolds
  <1>6. CASE NothingDrained /\ msgs' = s /\ pc' = "ending" /\ UNCHANGED iter
    BY <1>1, <1>2, <1>3, <1>6, ClosesHolds DEF NothingDrained, channels
  <1> QED
    BY <1>4, <1>5, <1>6

\* Without a pending queue nothing is drained.
LEMMA NoAnswerHolds ==
  ASSUME EveryPromptAnswered, TypeOK, HeldInv, NoAnswer
  PROVE  HeldInv'
  <1>1. /\ Running /\ pc = "model" /\ ~PendingQueue
        /\ UNCHANGED <<rows, pendingUser, checkpoint, turn, skip, absorbed>>
    BY DEF NoAnswer, Running, history, session, EveryPromptAnswered
  <1>2. NothingDrained /\ msgs' = WithPlaceholder(msgs) /\ pc' = "closing" /\ iter' = iter
    BY <1>1 DEF NoAnswer, Drainable, Drained
  <1>3. Held(msgs, rows, injected, Outside, turn, iter)
        /\ Held(msgs, rows, injected, Outside, turn, iter + 1)
    BY <1>1, RunnerFacts DEF Bound
  <1>4. /\ Held(msgs', rows, injected, Outside, turn, iter + 1)
        /\ ~EndsWith(msgs', "user")
    <2>1. CASE EndsWith(msgs, "assistant") /\ Last(msgs).calls = {}
      BY <1>2, <1>3, <2>1 DEF WithPlaceholder, EndsWith
    <2>2. CASE ~(EndsWith(msgs, "assistant") /\ Last(msgs).calls = {})
      <3>1. msgs' = Append(msgs, Assistant(Step, {}))
        BY <1>2, <2>2 DEF WithPlaceholder
      <3>2. /\ turn \in Messages /\ turn \notin Outside /\ iter \in Nat
            /\ iter \in 0..MaxIterations /\ iter <= iter /\ Step = <<turn, iter>>
            /\ {} \in SUBSET {"tool", "ask"}
        BY <1>1, RunnerFacts
      <3>3. LET u == Append(msgs, Assistant(Step, {})) IN
            Held(u, rows, injected, Outside, turn, iter + 1) /\ ~EndsWith(u, "user")
        BY <1>3, <3>2, HeldAssistant
      <3> QED
        BY <3>1, <3>3
    <2> QED
      BY <2>1, <2>2
  <1>5. Restorable(checkpoint', rows, Outside)
    BY <1>1, RunnerFacts
  <1> QED
    BY <1>1, <1>2, <1>4, <1>5, ClosesHolds DEF NothingDrained, channels

LEMMA RetryHolds ==
  ASSUME EveryPromptAnswered, TypeOK, HeldInv, Retry
  PROVE  HeldInv'
  <1> DEFINE row == Assistant(Step, {})
             s == msgs \o <<row, User({})>>
             u == Append(msgs, row)
  <1>1. /\ Running /\ pc = "model"
        /\ UNCHANGED <<rows, pendingUser, checkpoint, turn, skip, absorbed, inbox, unsent, injected>>
    BY DEF Retry, Running, history, session, channels
  <1>2. Restorable(checkpoint', rows, Outside)
    BY <1>1, RunnerFacts
  <1>3. CASE Continue(msgs)
    BY <1>1, <1>2, <1>3, RunnerFacts, ContinuesHolds
  <1>4. CASE Continue(s)
    <2>1. Held(u, rows, injected, Outside, turn, iter + 1) /\ ~EndsWith(u, "user")
      <3>1. Held(msgs, rows, injected, Outside, turn, iter)
        BY <1>1, RunnerFacts DEF Bound
      <3>2. /\ turn \in Messages /\ turn \notin Outside /\ iter \in Nat
            /\ iter \in 0..MaxIterations /\ iter <= iter /\ Step = <<turn, iter>>
            /\ {} \in SUBSET {"tool", "ask"}
        BY <1>1, RunnerFacts
      <3> QED
        BY <3>1, <3>2, HeldAssistant
    <2>2. row \in Row /\ User({}) \in Row /\ msgs \in Seq(Row) /\ turn \in Messages
      BY <1>1, RunnerFacts, RowTypes
    <2> HIDE DEF row
    <2>3. s = Append(u, User({}))
      <3>1. u \in Seq(Row) /\ Len(u) = Len(msgs) + 1 /\ Len(msgs) \in Nat
            /\ u[Len(msgs) + 1] = row /\ \A i \in 1..Len(msgs) : u[i] = msgs[i]
        BY <2>2, RowAppend
      <3>2. <<row, User({})>> = <<row>> \o <<User({})>>
        BY <2>2
      <3>3. <<row>> \in Seq(Row) /\ <<User({})>> \in Seq(Row)
        BY <2>2
      <3>4. msgs \o (<<row>> \o <<User({})>>) = (msgs \o <<row>>) \o <<User({})>>
        BY <2>2, <3>3, ConcatAssociative
      <3>5. msgs \o <<row>> = u
        BY <2>2, ConcatOne
      <3>6. u \o <<User({})>> = Append(u, User({}))
        BY <2>2, <3>1, ConcatOne
      <3> HIDE DEF u
      <3> QED
        BY <3>2, <3>4, <3>5, <3>6
    <2> HIDE DEF u, s
    <2>4. Held(Append(u, User({})), rows, injected \cup {}, Outside, turn, iter + 1)
      <3>1. {} \in SUBSET Messages /\ {} \cap Outside = {} /\ None \notin Outside
            /\ \A i \in 1..Len(u) : u[i].texts \cap {} = {}
        BY OutsideTypes
      <3> QED
        BY <2>1, <2>2, <3>1, HeldUser
    <2>5. injected \cup {} = injected
      OBVIOUS
    <2>6. Held(s, rows, injected, Outside, turn, iter + 1)
      BY <2>3, <2>4, <2>5
    <2> QED
      BY <1>1, <1>2, <1>4, <2>6, ContinuesHolds
  <1> QED
    BY <1>3, <1>4 DEF Retry

LEMMA CloseHolds ==
  ASSUME EveryPromptAnswered, TypeOK, HeldInv, Close
  PROVE  HeldInv'
  <1>1. Running /\ UNCHANGED <<rows, pendingUser, checkpoint, turn, skip, absorbed>>
    BY DEF Close, Running, session, history
  <1>2. /\ Held(msgs, rows, injected, Outside, turn, iter + 1)
        /\ Restorable(checkpoint, rows, Outside)
    BY <1>1, RunnerFacts
  <1>3. ~EndsWith(msgs, "user")
    BY <1>1 DEF Close, HeldInv, RunnerInv
  <1>4. ASSUME NEW S \in Drainable, Drained(S), Continue(Inject(msgs, S)) PROVE HeldInv'
    <2>1. Outside' \subseteq Outside
      BY <1>4 DEF Drained, Outside
    <2>2. Restorable(checkpoint', rows, Outside')
      BY <1>1, <1>2, <2>1, RestorableWeaker
    <2> QED
      BY <1>1, <1>2, <1>3, <1>4, <2>2, DrainContinuesHolds
  <1>5. ASSUME NEW S \in Drainable, Drained(S), iter = MaxIterations PROVE FALSE
    <2>1. PendingQueue
      BY <1>5 DEF Drainable, Drained
    <2> QED
      BY <1>1, <1>5, <2>1, RunnerFacts
  <1>6. CASE NothingDrained /\ pc' = "ending" /\ UNCHANGED <<msgs, iter>>
    BY <1>1, <1>2, <1>3, <1>6, ClosesHolds DEF NothingDrained, channels
  <1> QED
    BY <1>4, <1>5, <1>6 DEF Close

-----------------------------------------------------------------------------
(***************************************************************************)
(* The theorems about the rows                                             *)
(***************************************************************************)

LEMMA SendHolds ==
  ASSUME HeldInv, NEW m \in Messages, Send(m)
  PROVE  HeldInv'
  <1>1. Outside' = Outside
    BY DEF Send, Outside
  <1>2. UNCHANGED <<rows, pendingUser, checkpoint, turn, pc, msgs, skip, iter, injected, absorbed>>
    BY DEF Send, session, runner, history
  <1> QED
    BY <1>1, <1>2 DEF HeldInv, RowsInv, BetweenInv, RunnerInv, Running, Step, EndsWith, Texts, Before

LEMMA HeldInit == Init => HeldInv
  <1> SUFFICES ASSUME Init PROVE HeldInv
    OBVIOUS
  <1>1. Len(<<>>) = 0 /\ <<>> \in Seq(Row)
    BY EmptySeq
  <1>2. Sound(<<>>, Outside)
    BY <1>1 DEF Sound
  <1> QED
    BY <1>2, ConstantsAssumption
    DEF Init, HeldInv, RowsInv, BetweenInv, RunnerInv, Running, Restorable, EndsWith, Texts

LEMMA HeldNext ==
  ASSUME EveryPromptAnswered, TypeOK, HeldInv, [Next]_vars
  PROVE  HeldInv'
  <1>1. CASE UNCHANGED vars
    <2>1. UNCHANGED <<rows, pendingUser, checkpoint, turn, pc, msgs, skip, iter, injected,
                      absorbed, inbox, unsent>>
      BY <1>1 DEF vars, channels, session, runner, history
    <2> QED
      BY <2>1 DEF HeldInv, RowsInv, BetweenInv, RunnerInv, Running, Step, EndsWith, Texts,
                  Outside, Before
  <1>2. CASE TurnStep
    BY <1>2, PrepareHolds, ToolCallsHolds, ToolsDoneHolds, ToolFailsHolds,
       DrainAfterToolsHolds, AnswerHolds, NoAnswerHolds, RetryHolds, CloseHolds, SaveTurnHolds
    DEF TurnStep
  <1> QED
    BY <1>1, <1>2, SendHolds, BeginTurnHolds, EndedTurnHolds DEF Next, Quiescent

LEMMA HeldInvariance == Spec /\ EveryPromptAnswered => []HeldInv
  <1>1. EveryPromptAnswered /\ TypeOK /\ HeldInv /\ [Next]_vars => HeldInv'
    BY HeldNext
  <1>2. EveryPromptAnswered => EveryPromptAnswered'
    BY DEF EveryPromptAnswered
  <1> QED
    BY HeldInit, <1>1, <1>2, TypeCorrect, PTL DEF Spec

\* Every follow-up that joined a turn stays in the session, as the prompts do,
\* and no message is in it twice, through every interruption, crash and repair.
THEOREM MessagesStaySaved == Spec /\ EveryPromptAnswered => []HeldMessagesSaved
  <1>1. PromptsSaved /\ HeldInv => HeldMessagesSaved
    BY DEF HeldInv, RowsInv, Sound, HeldMessagesSaved
  <1> QED
    BY <1>1, HeldInvariance, PromptsStaySaved, PTL

\* No tool result is in the session without its call in front of it.
THEOREM ResultsHaveCalls == Spec /\ EveryPromptAnswered => []NoOrphanResult
  <1>1. HeldInv => NoOrphanResult
    BY DEF HeldInv, RowsInv, Sound, NoOrphanResult
  <1> QED
    BY <1>1, HeldInvariance, PTL

\* No step of a turn, and no result of a call, is in the session twice: what a
\* checkpoint restores was never saved.
THEOREM StepsSavedOnce == Spec /\ EveryPromptAnswered => []StepsOnce
  <1>1. HeldInv => StepsOnce
    BY DEF HeldInv, RowsInv, Sound, StepsOnce
  <1> QED
    BY <1>1, HeldInvariance, PTL

\* Two prompts are never adjacent in the session.
THEOREM PromptsStayApart == Spec /\ EveryPromptAnswered => []PromptsAlternate
  <1>1. HeldInv => PromptsAlternate
    BY DEF HeldInv, RowsInv, Sound, PromptsAlternate
  <1> QED
    BY <1>1, HeldInvariance, PTL
=============================================================================
