-------------------------- MODULE Candidate_proofs --------------------------
(* Theorems about Candidate, for any files, blocks, costs and number of turns. *)
EXTENDS Candidate, FiniteSetTheorems, SequenceTheorems, WellFoundedInduction, TLAPS

-----------------------------------------------------------------------------
(* The inductive invariant.                                                    *)

(* The texts a SEARCH may have: what a model wrote, or what it was corrected to.*)
SearchTexts == {b.search : b \in Blocks} \cup Windows(copies.original)

AnyBlock == [search : SearchTexts, replace : {b.replace : b \in Blocks}]

Types ==
    /\ tools \in BOOLEAN
    /\ pc \in Over \cup {"ask", "prescreen", "evaluate", "rank"}
    /\ dialogue \in [attempt : {1, 2}, turn : 0 .. MaxTurns, usage : Nat]
    /\ charged \in Nat
    /\ bill \in [calls : Nat, first : Nat, second : Nat]
    /\ blocks \in Seq(AnyBlock)
    /\ Len(blocks) <= MaxBlocks
    /\ copies.original \in Files

(* What the current attempt has cost so far.                                   *)
AttemptCost == IF dialogue.attempt = 1 THEN bill.first ELSE bill.second

(* While a model is asked, the loop has summed up just that, and every turn was*)
(* one call.                                                                   *)
Asking ==
    /\ charged = 0
    /\ blocks = <<>>
    /\ dialogue.usage = AttemptCost
    /\ dialogue.attempt = 1 => bill.second = 0 /\ bill.calls = dialogue.turn
    /\ bill.calls <= MaxTurns + dialogue.turn

Unpaid == pc \in {"ask", "skipped", "raised"}

BillInv ==
    /\ pc = "ask" => Asking
    /\ charged = IF Unpaid THEN 0 ELSE AttemptCost
    /\ bill.calls <= 2 * MaxTurns + 1
    /\ pc \in {"prescreen", "evaluate", "rank"} => blocks # <<>>

(* Every SEARCH is in the live file once, so that no later validation changes  *)
(* it, and the copies are what the blocks make of the live file.               *)
Settled(bs, file) == \A i \in 1 .. Len(bs) : Unique(bs[i].search, file)

CopiesInv ==
    /\ copies = [original |-> copies.original, tested |-> copies.tested,
                 measured |-> copies.measured, paired |-> copies.paired]
    /\ pc # "ambiguous"
    /\ pc \notin {"accepted", "interrupted"} => live = copies.original
    /\ pc \in {"ask", "prescreen", "evaluate"} => copies.paired = Unpatched
    /\ pc \in {"evaluate", "rank"} =>
          /\ Settled(blocks, live)
          /\ Applies(blocks, live)
          /\ copies.tested = Patched(blocks, live)
    /\ pc = "rank" =>
          /\ copies.measured = copies.tested
          /\ copies.paired \in {copies.tested, Unpatched}
    /\ pc = "accepted" => LiveIsWhatWasJudged

CandidateInv == Types /\ BillInv /\ CopiesInv

-----------------------------------------------------------------------------
(* Lemmas about validation.                                                    *)

(* A validated block is a block whose SEARCH the live file has just once.      *)
LEMMA ValidatedBlock ==
    ASSUME NEW b \in AnyBlock, NEW w \in Validated(b), live = copies.original
    PROVE  w \in AnyBlock /\ Unique(w.search, live)
<1>1. PICK text \in (IF Sites(b.search, live) # {} THEN {b.search} ELSE Windows(live)) :
          Unique(text, live) /\ w = [b EXCEPT !.search = text]
  BY DEF Validated
<1>2. text \in SearchTexts
  BY DEF SearchTexts, AnyBlock
<1>3. w = [search |-> text, replace |-> b.replace]
  BY <1>1 DEF AnyBlock
<1> QED BY <1>1, <1>2, <1>3 DEF AnyBlock

(* What validation makes of a candidate has as many blocks, each of them found *)
(* just once.                                                                  *)
LEMMA ValidationSettles ==
    ASSUME blocks \in Seq(AnyBlock), live = copies.original, NEW v \in Validations(blocks)
    PROVE  v \in Seq(AnyBlock) /\ Len(v) = Len(blocks) /\ Settled(v, live)
<1>1. DOMAIN v = 1 .. Len(blocks) /\ v = [i \in 1 .. Len(blocks) |-> v[i]]
  BY DEF Validations
<1>2. \A i \in 1 .. Len(blocks) : v[i] \in Validated(blocks[i])
  BY DEF Validations
<1>3. \A i \in 1 .. Len(blocks) : v[i] \in AnyBlock /\ Unique(v[i].search, live)
  BY <1>2, ValidatedBlock
<1>4. Len(blocks) \in Nat
  OBVIOUS
<1>5. v \in Seq(AnyBlock) /\ Len(v) = Len(blocks)
  BY <1>1, <1>3, <1>4
<1> QED BY <1>3, <1>5 DEF Settled

(* A block that is found once is left alone.                                   *)
LEMMA ValidatedOnce ==
    ASSUME NEW b \in AnyBlock, Unique(b.search, live), NEW w \in Validated(b)
    PROVE  w = b
<1>1. Sites(b.search, live) # {}
  BY DEF Unique
<1>2. w = [b EXCEPT !.search = b.search]
  BY <1>1 DEF Validated
<1> QED BY <1>2 DEF AnyBlock

(* So the second validation changes nothing.                                   *)
LEMMA ValidationIsStable ==
    ASSUME blocks \in Seq(AnyBlock), Settled(blocks, live), NEW v \in Validations(blocks)
    PROVE  v = blocks
<1>1. DOMAIN v = 1 .. Len(blocks) /\ v = [i \in 1 .. Len(blocks) |-> v[i]]
  BY DEF Validations
<1>2. \A i \in 1 .. Len(blocks) : v[i] \in Validated(blocks[i])
  BY DEF Validations
<1>3. \A i \in 1 .. Len(blocks) : v[i] = blocks[i]
  BY <1>2, ValidatedOnce DEF Settled
<1>4. blocks = [i \in 1 .. Len(blocks) |-> blocks[i]]
  OBVIOUS
<1> QED BY <1>1, <1>3, <1>4

(* What is left of an answer is a sequence of blocks, no longer than it.       *)
LEMMA ParsedBlocks ==
    ASSUME NEW n \in 1 .. MaxBlocks, NEW cut \in BOOLEAN, NEW answer \in [1 .. n -> Blocks]
    PROVE  /\ Parsed(answer, cut) \in Seq(AnyBlock)
           /\ Len(Parsed(answer, cut)) <= MaxBlocks
<1>1. \A b \in Blocks : b \in AnyBlock
  <2> SUFFICES ASSUME NEW b \in Blocks PROVE b \in AnyBlock
    OBVIOUS
  <2>1. b = [search |-> b.search, replace |-> b.replace]
    BY CandidateAssumption
  <2> QED BY <2>1 DEF AnyBlock, SearchTexts
<1>2. MaxBlocks \in Nat /\ n \in Nat
  BY CandidateAssumption
<1>3. answer \in Seq(AnyBlock) /\ Len(answer) = n
  BY <1>1, <1>2
<1>4. Front(answer) \in Seq(AnyBlock) /\ Len(Front(answer)) <= n
  BY <1>2, <1>3 DEF Front
<1> QED BY <1>2, <1>3, <1>4 DEF Parsed

-----------------------------------------------------------------------------
(* The invariant is inductive.                                                 *)

(* Types hold at the start and after every step, given that blocks which have  *)
(* to be validated are held against the file they came with.                   *)
LEMMA TypesKept ==
    ASSUME Types, pc \notin {"accepted", "interrupted"} => live = copies.original,
           copies = [original |-> copies.original, tested |-> copies.tested,
                     measured |-> copies.measured, paired |-> copies.paired],
           [Next]_vars
    PROVE  Types' /\ copies'.original = copies.original
<1> USE DEF Types, Go, dialogueVars, Over
<1>1. copies'.original = copies.original
  BY DEF Next, vars, CallsTools, AnswersWithCandidate, AnswersWithNothing, AnswerLost, Answers,
         Overflows, CallFails, Prescreen, PrescreenFails, Evaluate, EvaluateFails, Remeasure,
         Accept, AcceptInterrupted, Turndown, Ended
<1>2. AnyBlock' = AnyBlock
  BY <1>1 DEF AnyBlock, SearchTexts, Windows
<1>3. \A u \in Usages : u \in Nat
  BY CandidateAssumption
<1>4. MaxTurns \in Nat
  BY CandidateAssumption
<1>5. ASSUME NEW u \in Usages, Billed(u)
      PROVE  bill' \in [calls : Nat, first : Nat, second : Nat]
  <2>1. bill.calls + 1 \in Nat /\ bill.first + u \in Nat /\ bill.second + u \in Nat
    BY <1>3
  <2>2. \/ bill' = [bill EXCEPT !.calls = bill.calls + 1, !.first = bill.first + u]
        \/ bill' = [bill EXCEPT !.calls = bill.calls + 1, !.second = bill.second + u]
    BY <1>5, Zenon DEF Billed
  <2> QED BY <2>1, <2>2
<1>6. ASSUME NEW u \in Usages, Answers(u)
      PROVE  /\ dialogue' \in [attempt : {1, 2}, turn : 0 .. MaxTurns, usage : Nat]
             /\ charged' \in Nat
             /\ bill' \in [calls : Nat, first : Nat, second : Nat]
             /\ tools' = tools
  <2>1. dialogue.usage + u \in Nat
    BY <1>3
  <2>2. charged + (dialogue.usage + u) \in Nat
    BY <2>1
  <2>3. dialogue' = [dialogue EXCEPT !.usage = 0] /\ tools' = tools /\ Billed(u)
        /\ charged' = charged + (dialogue.usage + u)
    BY <1>6 DEF Answers, TotalUsage
  <2>4. dialogue' \in [attempt : {1, 2}, turn : 0 .. MaxTurns, usage : Nat]
    BY <2>3
  <2> QED BY <1>5, <2>2, <2>3, <2>4
<1>7. CASE CallsTools
  <2>1. PICK u \in Usages :
            /\ Billed(u)
            /\ dialogue' = [dialogue EXCEPT !.turn = @ + 1, !.usage = @ + u]
    BY <1>7 DEF CallsTools
  <2>2. dialogue.turn + 1 \in 0 .. MaxTurns
    BY <1>4, <1>7 DEF CallsTools, ToolsOffered
  <2>3. dialogue.usage + u \in Nat
    BY <1>3
  <2>4. dialogue' \in [attempt : {1, 2}, turn : 0 .. MaxTurns, usage : Nat]
    BY <2>1, <2>2, <2>3
  <2> QED BY <1>1, <1>2, <1>5, <1>7, <2>1, <2>4 DEF CallsTools
<1>8. CASE AnswersWithCandidate
  <2>1. PICK u \in Usages : Answers(u)
    BY <1>8 DEF AnswersWithCandidate
  <2>2. PICK n \in 1 .. MaxBlocks, cut \in BOOLEAN :
            \E answer \in [1 .. n -> Blocks] : blocks' = Parsed(answer, cut)
    BY <1>8 DEF AnswersWithCandidate
  <2>3. blocks' \in Seq(AnyBlock) /\ Len(blocks') <= MaxBlocks
    BY <2>2, ParsedBlocks
  <2> QED BY <1>1, <1>2, <1>6, <1>8, <2>1, <2>3 DEF AnswersWithCandidate
<1>9. CASE AnswersWithNothing \/ AnswerLost
  BY <1>1, <1>2, <1>6, <1>9 DEF AnswersWithNothing, AnswerLost
<1>10. CASE Overflows
  BY <1>1, <1>2, <1>4, <1>10 DEF Overflows
<1>11. CASE Prescreen
  BY <1>1, <1>2, <1>11, ValidationSettles DEF Prescreen
<1>12. CASE Evaluate
  BY <1>1, <1>2, <1>12, ValidationSettles DEF Evaluate
<1>13. CASE CallFails \/ PrescreenFails \/ EvaluateFails \/ Remeasure \/ Accept
              \/ AcceptInterrupted \/ Turndown \/ Ended \/ UNCHANGED vars
  BY <1>1, <1>2, <1>13 DEF CallFails, PrescreenFails, EvaluateFails, Remeasure, Accept,
         AcceptInterrupted, Turndown, Ended, vars
<1> QED BY <1>7, <1>8, <1>9, <1>10, <1>11, <1>12, <1>13 DEF Next

(* The bill is kept: what is charged at the end is what the answering attempt  *)
(* has cost.                                                                   *)
LEMMA BillKept ==
    ASSUME Types, BillInv, CopiesInv, [Next]_vars
    PROVE  BillInv'
<1> USE DEF Types, Go, dialogueVars, Over
<1>1. MaxTurns \in Nat /\ (\A u \in Usages : u \in Nat)
  BY CandidateAssumption
<1>2. CASE CallsTools
  <2>1. PICK u \in Usages :
            /\ Billed(u)
            /\ dialogue' = [dialogue EXCEPT !.turn = @ + 1, !.usage = @ + u]
    BY <1>2 DEF CallsTools
  <2>2. /\ dialogue'.turn = dialogue.turn + 1
        /\ dialogue'.usage = dialogue.usage + u
        /\ dialogue'.attempt = dialogue.attempt
    BY <2>1
  <2>3. Asking
    BY <1>2 DEF CallsTools, BillInv
  <2>4. bill'.calls = bill.calls + 1
    BY <2>1 DEF Billed
  <2>5. AttemptCost' = AttemptCost + u
    BY <1>1, <2>1, <2>2 DEF Billed, AttemptCost
  <2>6. dialogue.attempt = 1 => bill'.second = bill.second
    BY <2>1 DEF Billed
  <2>7. dialogue.turn < MaxTurns /\ pc' = "ask" /\ blocks' = blocks /\ charged' = charged
    BY <1>2 DEF CallsTools, ToolsOffered
  <2>8. Asking'
    <3>1. charged' = 0 /\ blocks' = <<>> /\ dialogue'.usage = AttemptCost'
      BY <2>2, <2>3, <2>5, <2>7 DEF Asking
    <3>2. dialogue'.attempt = 1 => bill'.second = 0 /\ bill'.calls = dialogue'.turn
      BY <2>2, <2>3, <2>4, <2>6 DEF Asking
    <3>3. bill'.calls <= MaxTurns + dialogue'.turn
      BY <1>1, <2>2, <2>3, <2>4 DEF Asking
    <3> QED BY <3>1, <3>2, <3>3 DEF Asking
  <2>9. bill'.calls <= 2 * MaxTurns + 1
    BY <1>1, <2>3, <2>4, <2>7 DEF Asking
  <2> QED BY <2>3, <2>7, <2>8, <2>9 DEF BillInv, Unpaid, Asking
<1>3. ASSUME NEW u \in Usages, Answers(u), pc = "ask"
      PROVE  charged' = AttemptCost' /\ bill'.calls <= 2 * MaxTurns + 1
  <2>1. Asking
    BY <1>3 DEF BillInv
  <2>2. bill'.calls = bill.calls + 1 /\ dialogue'.attempt = dialogue.attempt
    BY <1>3 DEF Answers, Billed
  <2>3. AttemptCost' = AttemptCost + u
    BY <1>1, <1>3, <2>2 DEF Answers, Billed, AttemptCost
  <2>4. charged' = AttemptCost + u
    <3>1. charged' = 0 + (dialogue.usage + u)
      BY <1>3, <2>1 DEF Answers, TotalUsage, Asking
    <3>2. dialogue.usage = AttemptCost /\ dialogue.usage \in Nat
      BY <2>1 DEF Asking
    <3> QED BY <1>1, <3>1, <3>2
  <2> QED BY <1>1, <2>1, <2>2, <2>3, <2>4 DEF Asking
<1>4. CASE AnswersWithCandidate
  <2>1. blocks' # <<>> /\ pc' = "prescreen"
    BY <1>4 DEF AnswersWithCandidate
  <2> QED BY <1>3, <1>4, <2>1 DEF AnswersWithCandidate, BillInv, Unpaid
<1>5. CASE AnswersWithNothing \/ AnswerLost
  BY <1>3, <1>5 DEF AnswersWithNothing, AnswerLost, BillInv, Unpaid
<1>6. CASE Overflows
  <2>1. Asking
    BY <1>6 DEF Overflows, BillInv
  <2>2. dialogue' = [attempt |-> 2, turn |-> 0, usage |-> 0] /\ pc' = "ask"
        /\ UNCHANGED <<charged, bill, blocks>> /\ dialogue.attempt = 1
    BY <1>6 DEF Overflows
  <2>3. AttemptCost' = 0 /\ bill.calls <= MaxTurns
    BY <1>1, <2>1, <2>2 DEF AttemptCost, Asking
  <2>4. Asking'
    BY <1>1, <2>1, <2>2, <2>3 DEF Asking
  <2> QED BY <2>1, <2>2, <2>4 DEF BillInv, Unpaid, Asking
<1>7. CASE CallFails
  <2>1. Asking
    BY <1>7 DEF CallFails, BillInv
  <2> QED BY <1>7, <2>1 DEF CallFails, BillInv, Unpaid, Asking
<1>8. ASSUME NEW v \in Validations(blocks), pc \in {"prescreen", "evaluate"}
      PROVE  v # <<>>
  <2>1. Len(v) = Len(blocks)
    BY <1>8, ValidationSettles DEF CopiesInv
  <2>2. Len(blocks) # 0
    BY <1>8, EmptySeq DEF BillInv
  <2> QED BY <2>1, <2>2, EmptySeq
<1>9. ASSUME UNCHANGED dialogueVars
      PROVE  AttemptCost' = AttemptCost
  BY <1>9 DEF AttemptCost
<1>10. CASE Prescreen
  BY <1>8, <1>9, <1>10 DEF Prescreen, BillInv, Unpaid
<1>11. CASE Evaluate
  BY <1>8, <1>9, <1>11 DEF Evaluate, BillInv, Unpaid
<1>12. CASE PrescreenFails \/ EvaluateFails \/ Remeasure \/ Accept \/ AcceptInterrupted
              \/ Turndown
  BY <1>9, <1>12 DEF PrescreenFails, EvaluateFails, Remeasure, Accept, AcceptInterrupted,
         Turndown, BillInv, Unpaid
<1>13. CASE Ended \/ UNCHANGED vars
  BY <1>13 DEF Ended, vars, BillInv, Unpaid, AttemptCost, Asking
<1> QED BY <1>2, <1>4, <1>5, <1>6, <1>7, <1>10, <1>11, <1>12, <1>13 DEF Next

(* The copies: what is tested, measured, measured again and accepted is one    *)
(* text, and until then the live file is as it was.                            *)
LEMMA CopiesKept ==
    ASSUME Types, CopiesInv, [Next]_vars
    PROVE  CopiesInv'
<1> USE DEF Types, Go, dialogueVars, Over
<1>1. CASE Prescreen
  <2>1. PICK v \in Validations(blocks) :
            /\ Applies(v, live)
            /\ blocks' = v
            /\ copies' = [copies EXCEPT !.tested = Patched(v, live)]
    BY <1>1 DEF Prescreen
  <2>2. pc = "prescreen" /\ pc' = "evaluate" /\ live' = live /\ live = copies.original
    BY <1>1 DEF Prescreen, CopiesInv
  <2>3. Settled(v, live)
    BY <2>2, ValidationSettles
  <2>4. /\ copies'.original = copies.original
        /\ copies'.tested = Patched(v, live)
        /\ copies'.paired = Unpatched
        /\ copies' = [original |-> copies'.original, tested |-> copies'.tested,
                      measured |-> copies'.measured, paired |-> copies'.paired]
    BY <2>1, <2>2 DEF CopiesInv
  <2>5. Settled(blocks', live') /\ Applies(blocks', live') /\ copies'.tested = Patched(blocks', live')
    BY <2>1, <2>2, <2>3, <2>4
  <2> QED BY <2>2, <2>4, <2>5 DEF CopiesInv
<1>2. CASE Evaluate
  <2>1. PICK v \in Validations(blocks) :
            /\ Applies(v, live)
            /\ blocks' = v
            /\ copies' = [copies EXCEPT !.measured = Patched(v, live)]
    BY <1>2 DEF Evaluate
  <2>2. pc = "evaluate" /\ pc' = "rank" /\ live' = live
    BY <1>2 DEF Evaluate
  <2>3. v = blocks
    BY <2>2, ValidationIsStable DEF CopiesInv
  <2>4. /\ copies'.original = copies.original
        /\ copies'.tested = copies.tested
        /\ copies'.measured = Patched(v, live)
        /\ copies'.paired = Unpatched
        /\ copies' = [original |-> copies'.original, tested |-> copies'.tested,
                      measured |-> copies'.measured, paired |-> copies'.paired]
    BY <2>1, <2>2 DEF CopiesInv
  <2>5. /\ Settled(blocks, live) /\ Applies(blocks, live)
        /\ copies.tested = Patched(blocks, live) /\ live = copies.original
    BY <2>2 DEF CopiesInv
  <2>6. blocks' = blocks
    BY <2>1, <2>3
  <2>7. copies'.measured = copies'.tested
    BY <2>3, <2>4, <2>5
  <2> QED BY <2>2, <2>4, <2>5, <2>6, <2>7 DEF CopiesInv
<1>3. CASE Remeasure
  <2>1. /\ pc = "rank" /\ UNCHANGED <<pc, blocks, live>>
        /\ copies' = [copies EXCEPT !.paired = Patched(blocks, live)]
    BY <1>3 DEF Remeasure
  <2>2. /\ copies'.original = copies.original
        /\ copies'.tested = copies.tested
        /\ copies'.measured = copies.measured
        /\ copies'.paired = copies.tested
        /\ copies' = [original |-> copies'.original, tested |-> copies'.tested,
                      measured |-> copies'.measured, paired |-> copies'.paired]
    BY <2>1 DEF CopiesInv
  <2> QED BY <2>1, <2>2 DEF CopiesInv
<1>4. CASE Accept
  <2>1. /\ pc = "rank" /\ live' = Patched(blocks, live) /\ UNCHANGED copies
        /\ pc' = IF Applies(blocks, live) THEN "accepted" ELSE "ambiguous"
    BY <1>4 DEF Accept
  <2>2. pc' = "accepted"
    BY <2>1 DEF CopiesInv
  <2>3. live' = copies.tested /\ copies.measured = copies.tested
        /\ copies.paired \in {copies.tested, Unpatched}
    BY <2>1 DEF CopiesInv
  <2> QED BY <2>1, <2>2, <2>3 DEF CopiesInv, LiveIsWhatWasJudged
<1>5. CASE PrescreenFails \/ EvaluateFails \/ Turndown
  BY <1>5 DEF PrescreenFails, EvaluateFails, Turndown, CopiesInv
<1>6. CASE CallsTools \/ AnswersWithCandidate \/ AnswersWithNothing \/ AnswerLost
             \/ Overflows \/ CallFails
  <2>1. pc = "ask" /\ pc' \in {"ask", "prescreen", "nothing", "lost", "raised", "skipped"}
        /\ UNCHANGED <<live, copies>>
    BY <1>6 DEF CallsTools, AnswersWithCandidate, AnswersWithNothing, AnswerLost, Answers,
           Overflows, CallFails
  <2> QED BY <2>1 DEF CopiesInv
<1>7. CASE Ended \/ UNCHANGED vars
  BY <1>7 DEF Ended, vars, CopiesInv, LiveIsWhatWasJudged
<1>8. CASE AcceptInterrupted
  <2>1. pc' = "interrupted" /\ UNCHANGED <<blocks, copies>>
    BY <1>8 DEF AcceptInterrupted
  <2> QED BY <2>1 DEF CopiesInv
<1> QED BY <1>1, <1>2, <1>3, <1>4, <1>5, <1>6, <1>7, <1>8 DEF Next

(* The inductive invariant of one candidate: types, the bill of the dialogue,  *)
(* and the copies against the live file.                                       *)
THEOREM CandidateInvariant == Spec => []CandidateInv
<1>1. Init => CandidateInv
  <2> SUFFICES ASSUME Init PROVE CandidateInv
    OBVIOUS
  <2>1. MaxTurns \in Nat /\ MaxBlocks \in Nat
    BY CandidateAssumption
  <2>2. Types
    <3>1. dialogue \in [attempt : {1, 2}, turn : 0 .. MaxTurns, usage : Nat]
      BY <2>1 DEF Init
    <3>2. blocks \in Seq(AnyBlock) /\ Len(blocks) = 0
      BY DEF Init
    <3>3. bill \in [calls : Nat, first : Nat, second : Nat] /\ copies.original \in Files
      BY DEF Init
    <3> QED BY <2>1, <3>1, <3>2, <3>3 DEF Init, Types
  <2>3. BillInv
    BY <2>1 DEF Init, BillInv, Asking, AttemptCost, Unpaid
  <2>4. CopiesInv
    BY DEF Init, CopiesInv
  <2> QED BY <2>2, <2>3, <2>4 DEF CandidateInv
<1>2. CandidateInv /\ [Next]_vars => CandidateInv'
  <2> SUFFICES ASSUME CandidateInv, [Next]_vars PROVE CandidateInv'
    OBVIOUS
  <2>1. Types'
    BY TypesKept DEF CandidateInv, CopiesInv
  <2> QED BY <2>1, BillKept, CopiesKept DEF CandidateInv
<1> QED BY <1>1, <1>2, PTL DEF Spec

-----------------------------------------------------------------------------
(* The properties of Candidate.                                                *)

(* Every variable keeps its type: a candidate never has more blocks than its   *)
(* answer, and a SEARCH is one the model wrote or a region of the live file.   *)
THEOREM TypeCorrect == Spec => []TypeOK
<1>1. Types => TypeOK
  <2> SUFFICES ASSUME Types PROVE TypeOK
    OBVIOUS
  <2>1. \A i \in 1 .. Len(blocks) : blocks[i] \in AnyBlock
    BY DEF Types
  <2>2. \A i \in 1 .. Len(blocks) :
            /\ blocks[i].replace \in {b.replace : b \in Blocks}
            /\ blocks[i].search \in {b.search : b \in Blocks} \cup Windows(copies.original)
    BY <2>1 DEF AnyBlock, SearchTexts
  <2> QED BY <2>2 DEF Types, TypeOK
<1> QED BY <1>1, CandidateInvariant, PTL DEF CandidateInv

(* The run is charged for the attempt that answered, all its turns and no      *)
(* others (generate.run, run_tool_loop), and asks at most MaxTurns + 1 times an*)
(* attempt.                                                                    *)
THEOREM AnswersAreCharged == Spec => []ChargedForAnswer
<1>1. CandidateInv => ChargedForAnswer
  <2> SUFFICES ASSUME CandidateInv PROVE ChargedForAnswer
    OBVIOUS
  <2>1. MaxTurns \in Nat
    BY CandidateAssumption
  <2>2. bill.calls <= 2 * (MaxTurns + 1)
    BY <2>1 DEF CandidateInv, Types, BillInv
  <2> QED BY <2>2 DEF CandidateInv, BillInv, AttemptCost, Unpaid, ChargedForAnswer
<1> QED BY <1>1, CandidateInvariant, PTL

(* What an accept writes to the live workspace is the text that was tested and *)
(* measured, although the blocks are validated twice and applied up to four    *)
(* times (validate_patch, apply_patch), and no SEARCH stops it half way; until *)
(* the accept the live file stays.  Only an accept that a Ctrl-C or the disk   *)
(* cuts short, in apply_patch, may leave another text.                         *)
THEOREM AcceptsWhatWasJudged == Spec => []LiveIsWhatWasJudged
<1>1. CandidateInv => LiveIsWhatWasJudged
  BY DEF CandidateInv, CopiesInv, LiveIsWhatWasJudged
<1> QED BY <1>1, CandidateInvariant, PTL

-----------------------------------------------------------------------------
(* EditsAsMeant is about what a loop over the blocks makes of a text, for any  *)
(* number of them, so its proof goes by induction.  The induction rule of the  *)
(* library takes a predicate; this one, for a set of numbers, says the same.   *)

(* A set of numbers has a least one: the intervals below its members are finite*)
(* sets, which strict inclusion orders well.                                   *)
LEMMA LeastNat ==
    ASSUME NEW S \in SUBSET Nat, S # {}
    PROVE  \E m \in S : \A k \in S : m <= k
<1> DEFINE T == {0 .. n : n \in S}
<1>1. IsWellFoundedOn(StrictSubsetOrdering(Nat), FiniteSubsetsOf(Nat))
  BY FS_StrictSubsetOrderingWellFounded
<1>2. T \subseteq FiniteSubsetsOf(Nat)
  <2>1. ASSUME NEW n \in S PROVE 0 .. n \in FiniteSubsetsOf(Nat)
    <3>1. 0 .. n \in SUBSET Nat /\ IsFiniteSet(0 .. n)
      BY FS_Interval
    <3> QED BY <3>1 DEF FiniteSubsetsOf
  <2> QED BY <2>1, Zenon
<1>3. T # {}
  OBVIOUS
<1> HIDE DEF T
<1>4. PICK x \in T : \A y \in T : ~(<<y, x>> \in StrictSubsetOrdering(Nat))
  BY <1>1, <1>2, <1>3, WFMin
<1>5. PICK m \in S : x = 0 .. m
  BY DEF T
<1>6. ASSUME NEW k \in S PROVE m <= k
  <2>1. 0 .. k \in T
    BY DEF T
  <2>2. SUFFICES ASSUME k < m PROVE FALSE
    OBVIOUS
  <2>3. <<0 .. k, x>> \in StrictSubsetOrdering(Nat)
    <3>1. 0 .. k \subseteq Nat /\ 0 .. m \subseteq Nat /\ 0 .. k \subseteq 0 .. m
      BY <2>2
    <3>2. 0 .. k # 0 .. m
      <4>1. m \in 0 .. m /\ m \notin 0 .. k
        BY <2>2
      <4> QED BY <4>1, Zenon
    <3> QED BY <3>1, <3>2, <1>5, FS_Interval DEF StrictSubsetOrdering
  <2> QED BY <1>4, <2>1, <2>3
<1> QED BY <1>6

(* What holds of 0, and of the next number whenever of one, holds of all.      *)
LEMMA SetInduction ==
    ASSUME NEW S \in SUBSET Nat, 0 \in S, \A n \in S : n + 1 \in S
    PROVE  S = Nat
<1> SUFFICES ASSUME Nat \ S # {} PROVE FALSE
  OBVIOUS
<1>1. PICK m \in Nat \ S : \A k \in Nat \ S : m <= k
  BY LeastNat
<1>2. m # 0 /\ m - 1 \in Nat
  OBVIOUS
<1>3. m - 1 \in S
  BY <1>1, <1>2
<1> QED BY <1>2, <1>3

(* The same from one number up to another.                                     *)
LEMMA FromTo ==
    ASSUME NEW c \in Nat, NEW d \in Nat, c <= d, NEW G,
           c \in G, \A k \in c .. d - 1 : k \in G => k + 1 \in G
    PROVE  d \in G
<1> DEFINE H == {k \in Nat : c + k <= d => c + k \in G}
<1>1. 0 \in H
  OBVIOUS
<1>2. ASSUME NEW k \in H PROVE k + 1 \in H
  <2> SUFFICES ASSUME c + (k + 1) <= d PROVE c + (k + 1) \in G
    OBVIOUS
  <2>1. c + k \in c .. d - 1 /\ c + k \in G /\ (c + k) + 1 = c + (k + 1)
    OBVIOUS
  <2> QED BY <2>1
<1>3. H \in SUBSET Nat
  OBVIOUS
<1>4. H = Nat
  <2> HIDE DEF H
  <2> QED BY <1>1, <1>2, <1>3, SetInduction
<1>5. d - c \in Nat /\ c + (d - c) = d
  OBVIOUS
<1>6. d - c \in H
  <2> HIDE DEF H
  <2> QED BY <1>4, <1>5
<1> QED BY <1>5, <1>6

(* The values of a function defined by recursion over 1 .. n.                  *)
Follows(f, T, base, n, step) ==
    /\ f \in [0 .. n -> T]
    /\ f[0] = base
    /\ \A k \in 1 .. n : f[k] = step[<<k, f[k - 1]>>]

(* There is such a function.                                                   *)
LEMMA Recursion ==
    ASSUME NEW T, NEW base \in T, NEW n \in Nat, NEW step \in [(1 .. n) \X T -> T]
    PROVE  \E f : Follows(f, T, base, n, step)
<1> DEFINE Good(m) == \E f \in [0 .. m -> T] :
                         /\ f[0] = base
                         /\ \A k \in 1 .. m : f[k] = step[<<k, f[k - 1]>>]
           S == {m \in Nat : m <= n => Good(m)}
<1>1. 0 \in S
  <2> DEFINE f == [k \in 0 .. 0 |-> base]
  <2>1. f \in [0 .. 0 -> T] /\ f[0] = base /\ 1 .. 0 = {}
    OBVIOUS
  <2> QED BY <2>1
<1>2. ASSUME NEW m \in S, m + 1 <= n PROVE Good(m + 1)
  <2>1. PICK f \in [0 .. m -> T] :
           /\ f[0] = base
           /\ \A k \in 1 .. m : f[k] = step[<<k, f[k - 1]>>]
    BY <1>2
  <2> DEFINE g == [k \in 0 .. m + 1 |-> IF k <= m THEN f[k] ELSE step[<<m + 1, f[m]>>]]
  <2>2. step[<<m + 1, f[m]>>] \in T
    BY <1>2
  <2>3. g \in [0 .. m + 1 -> T]
    BY <2>2
  <2>4. g[0] = base
    BY <2>1
  <2>5. \A k \in 1 .. m + 1 : g[k] = step[<<k, g[k - 1]>>]
    <3>1. ASSUME NEW k \in 1 .. m + 1 PROVE g[k] = step[<<k, g[k - 1]>>]
      <4>1. CASE k <= m
        <5>1. g[k] = f[k] /\ g[k - 1] = f[k - 1] /\ k \in 1 .. m
          BY <4>1
        <5> QED BY <2>1, <5>1
      <4>2. CASE k = m + 1
        <5>1. g[k] = step[<<m + 1, f[m]>>] /\ g[k - 1] = f[m]
          BY <4>2
        <5> QED BY <4>2, <5>1
      <4> QED BY <4>1, <4>2
    <3> QED BY <3>1
  <2> QED BY <2>3, <2>4, <2>5
<1> HIDE DEF Good
<1>3. \A m \in S : m + 1 \in S
  BY <1>2
<1>4. S = Nat
  <2>1. S \in SUBSET Nat
    OBVIOUS
  <2> HIDE DEF S
  <2> QED BY <1>1, <1>3, <2>1, SetInduction
<1>5. n \in S
  BY <1>4
<1>6. Good(n)
  BY <1>5
<1> QED BY <1>6 DEF Good, Follows

-----------------------------------------------------------------------------
(* Concatenation associates.                                                   *)
Associative(S) == \A s, t, u \in Seq(S) : (s \o t) \o u = s \o (t \o u)

LEMMA Associates == ASSUME NEW S PROVE Associative(S)
BY ConcatAssociative DEF Associative

(* Joined texts: the first n of the pieces, one after another.                 *)

Joined(pieces, n) ==
    LET text[k \in 0 .. Len(pieces)] ==
            IF k = 0 THEN <<>> ELSE text[k - 1] \o pieces[k]
    IN  text[n]

(* The text grows piece by piece.                                              *)
LEMMA JoinedGrows ==
    ASSUME NEW S, NEW pieces \in Seq(Seq(S))
    PROVE  /\ Joined(pieces, 0) = <<>>
           /\ \A k \in 1 .. Len(pieces) : Joined(pieces, k) = Joined(pieces, k - 1) \o pieces[k]
           /\ \A k \in 0 .. Len(pieces) : Joined(pieces, k) \in Seq(S)
<1> DEFINE n == Len(pieces)
           step == [p \in (1 .. n) \X Seq(S) |-> p[2] \o pieces[p[1]]]
           text[k \in 0 .. n] == IF k = 0 THEN <<>> ELSE text[k - 1] \o pieces[k]
<1>1. n \in Nat /\ \A k \in 1 .. n : pieces[k] \in Seq(S)
  BY LenProperties, ElementOfSeq
<1>2. <<>> \in Seq(S) /\ step \in [(1 .. n) \X Seq(S) -> Seq(S)]
  <2>1. ASSUME NEW k \in 1 .. n, NEW t \in Seq(S) PROVE t \o pieces[k] \in Seq(S)
    BY <1>1, ConcatProperties
  <2> QED BY <2>1, EmptySeq
<1>3. \A k \in 1 .. n, t \in Seq(S) : step[<<k, t>>] = t \o pieces[k]
  OBVIOUS
<1> HIDE DEF n, step
<1>4. text = [k \in 0 .. n |-> IF k = 0 THEN <<>> ELSE text[k - 1] \o pieces[k]]
  <2> HIDE DEF text
  <2> DEFINE Sound(f) == f = [k \in 0 .. n |-> IF k = 0 THEN <<>> ELSE f[k - 1] \o pieces[k]]
  <2>1. PICK f \in [0 .. n -> Seq(S)] :
           f[0] = <<>> /\ \A k \in 1 .. n : f[k] = step[<<k, f[k - 1]>>]
    <3>1. \E f : Follows(f, Seq(S), <<>>, n, step)
      BY <1>1, <1>2, Recursion, Zenon
    <3> QED BY <3>1 DEF Follows
  <2>2. ASSUME NEW k \in 0 .. n PROVE f[k] = IF k = 0 THEN <<>> ELSE f[k - 1] \o pieces[k]
    <3>1. k # 0 => k \in 1 .. n /\ k - 1 \in 0 .. n
      BY <1>1
    <3> QED BY <1>3, <2>1, <3>1
  <2>3. f = [k \in 0 .. n |-> f[k]]
    OBVIOUS
  <2>4. Sound(f)
    BY <2>2, <2>3, Zenon
  <2>5. text = CHOOSE g : Sound(g)
    BY Zenon DEF text
  <2> HIDE DEF Sound
  <2>6. Sound(text)
    BY <2>4, <2>5, Zenon
  <2> QED BY <2>6 DEF Sound
<1>5. \A k : Joined(pieces, k) = text[k]
  BY DEF Joined, n
<1> HIDE DEF text
<1>6. text[0] = <<>> /\ \A k \in 1 .. n : text[k] = text[k - 1] \o pieces[k]
  <2>1. \A k \in 0 .. n : text[k] = IF k = 0 THEN <<>> ELSE text[k - 1] \o pieces[k]
    BY <1>4, Zenon
  <2>2. 0 \in 0 .. n /\ \A k \in 1 .. n : k \in 0 .. n /\ k # 0
    BY <1>1
  <2> QED BY <2>1, <2>2, Zenon
<1>7. \A k \in 0 .. n : text[k] \in Seq(S)
  <2> DEFINE G == {k \in Nat : k <= n => text[k] \in Seq(S)}
  <2>1. 0 \in G
    BY <1>2, <1>6
  <2>2. ASSUME NEW k \in G PROVE k + 1 \in G
    <3> SUFFICES ASSUME k + 1 <= n PROVE text[k + 1] \in Seq(S)
      OBVIOUS
    <3>1. k + 1 \in 1 .. n /\ (k + 1) - 1 = k /\ k <= n
      BY <1>1
    <3>2. text[k + 1] = text[k] \o pieces[k + 1] /\ text[k] \in Seq(S) /\ pieces[k + 1] \in Seq(S)
      BY <1>1, <1>6, <3>1
    <3> QED BY <3>2, ConcatProperties
  <2>3. G \in SUBSET Nat
    OBVIOUS
  <2>4. G = Nat
    <3> HIDE DEF G
    <3> QED BY <2>1, <2>2, <2>3, SetInduction
  <2> QED BY <2>4
<1> QED BY <1>5, <1>6, <1>7 DEF n

(* What pieces may be from one place, not included, to another: those of       *)
(* another text, one symbol each, or nothing.                                  *)
SameOn(pieces, others, c, d) == \A k \in c + 1 .. d : pieces[k] = others[k]

SymbolsOn(pieces, file, c, d) == \A k \in c + 1 .. d : pieces[k] = <<file[k]>>

NothingOn(pieces, c, d) == \A k \in c + 1 .. d : pieces[k] = <<>>

(* Texts joined from the same pieces are the same.                             *)
LEMMA JoinedAlike ==
    ASSUME NEW S, NEW pieces \in Seq(Seq(S)), NEW others \in Seq(Seq(S)),
           NEW n \in Nat, n <= Len(pieces), n <= Len(others), SameOn(pieces, others, 0, n)
    PROVE  Joined(pieces, n) = Joined(others, n)
<1> DEFINE G == {k \in 0 .. n : Joined(pieces, k) = Joined(others, k)}
<1>1. /\ Joined(pieces, 0) = <<>> /\ Joined(others, 0) = <<>>
      /\ \A k \in 1 .. n : Joined(pieces, k) = Joined(pieces, k - 1) \o pieces[k]
      /\ \A k \in 1 .. n : Joined(others, k) = Joined(others, k - 1) \o others[k]
  <2>1. \A k \in 1 .. n : k \in 1 .. Len(pieces) /\ k \in 1 .. Len(others)
    BY LenProperties
  <2> QED BY <2>1, JoinedGrows
<1>2. 0 \in G
  BY <1>1
<1>3. ASSUME NEW k \in 0 .. n - 1, k \in G PROVE k + 1 \in G
  <2>1. k + 1 \in 1 .. n /\ k + 1 \in 0 .. n /\ (k + 1) - 1 = k
        /\ pieces[k + 1] = others[k + 1]
    BY DEF SameOn
  <2> QED BY <1>1, <1>3, <2>1
<1>4. n \in G
  <2> HIDE DEF G
  <2> QED BY <1>2, <1>3, FromTo
<1> QED BY <1>4

(* Texts whose pieces differ only up to one end alike.                         *)
EndAlike(pieces, others, S) ==
    \A c, d \in Nat :
        c <= d /\ d <= Len(pieces) /\ d <= Len(others) /\ SameOn(pieces, others, c, d) =>
            \E rest \in Seq(S) : /\ Joined(pieces, d) = Joined(pieces, c) \o rest
                                 /\ Joined(others, d) = Joined(others, c) \o rest

LEMMA JoinedTail ==
    ASSUME NEW S, NEW pieces \in Seq(Seq(S)), NEW others \in Seq(Seq(S))
    PROVE  EndAlike(pieces, others, S)
<1> SUFFICES ASSUME NEW c \in Nat, NEW d \in Nat, c <= d, d <= Len(pieces), d <= Len(others),
                    SameOn(pieces, others, c, d)
             PROVE  \E rest \in Seq(S) : /\ Joined(pieces, d) = Joined(pieces, c) \o rest
                                         /\ Joined(others, d) = Joined(others, c) \o rest
  BY Zenon DEF EndAlike
<1> DEFINE Ends(k, rest) == /\ Joined(pieces, k) = Joined(pieces, c) \o rest
                            /\ Joined(others, k) = Joined(others, c) \o rest
           G == {k \in c .. d : \E rest \in Seq(S) : Ends(k, rest)}
<1>1. /\ \A k \in 1 .. d : Joined(pieces, k) = Joined(pieces, k - 1) \o pieces[k]
      /\ \A k \in 1 .. d : Joined(others, k) = Joined(others, k - 1) \o others[k]
      /\ \A k \in 1 .. d : pieces[k] \in Seq(S)
      /\ Joined(pieces, c) \in Seq(S) /\ Joined(others, c) \in Seq(S)
  <2>1. /\ \A k \in 1 .. d : k \in 1 .. Len(pieces) /\ k \in 1 .. Len(others)
        /\ c \in 0 .. Len(pieces) /\ c \in 0 .. Len(others)
    BY LenProperties
  <2> QED BY <2>1, JoinedGrows, ElementOfSeq
<1>2. c \in G
  <2>1. <<>> \in Seq(S) /\ c \in c .. d
    BY EmptySeq
  <2>2. Ends(c, <<>>)
    BY <1>1, ConcatEmptySeq
  <2> QED BY <2>1, <2>2
<1>3. ASSUME NEW k \in c .. d - 1, k \in G PROVE k + 1 \in G
  <2>1. k + 1 \in 1 .. d /\ k + 1 \in c + 1 .. d /\ k + 1 \in c .. d /\ (k + 1) - 1 = k
    OBVIOUS
  <2>2. PICK rest \in Seq(S) : Ends(k, rest)
    BY <1>3
  <2> DEFINE last == pieces[k + 1]
  <2>3. last \in Seq(S) /\ last = others[k + 1]
    BY <1>1, <2>1 DEF SameOn
  <2>4. /\ Joined(pieces, k + 1) = (Joined(pieces, c) \o rest) \o last
        /\ Joined(others, k + 1) = (Joined(others, c) \o rest) \o last
    BY <1>1, <2>1, <2>2, <2>3
  <2> HIDE DEF last
  <2>5. /\ (Joined(pieces, c) \o rest) \o last = Joined(pieces, c) \o (rest \o last)
        /\ (Joined(others, c) \o rest) \o last = Joined(others, c) \o (rest \o last)
        /\ rest \o last \in Seq(S)
    <3>1. Joined(pieces, c) \in Seq(S) /\ Joined(others, c) \in Seq(S) /\ last \in Seq(S)
      BY <1>1, <2>3
    <3>2. rest \o last \in Seq(S)
      BY <3>1, ConcatProperties
    <3>3. Associative(S)
      BY Associates
    <3>4. (Joined(pieces, c) \o rest) \o last = Joined(pieces, c) \o (rest \o last)
      BY <3>1, <3>3, Zenon DEF Associative
    <3>5. (Joined(others, c) \o rest) \o last = Joined(others, c) \o (rest \o last)
      BY <3>1, <3>3, Zenon DEF Associative
    <3> QED BY <3>2, <3>4, <3>5
  <2>6. Ends(k + 1, rest \o last)
    BY <2>4, <2>5
  <2> HIDE DEF Ends
  <2> QED BY <2>1, <2>5, <2>6
<1>4. d \in G
  <2> HIDE DEF G
  <2> QED BY <1>2, <1>3, FromTo
<1> QED BY <1>4

(* Pieces of one symbol each join to that part of the text.                    *)
GrowBySymbols(pieces, file) ==
    \A c, d \in Nat :
        c <= d /\ d <= Len(file) /\ d <= Len(pieces) /\ SymbolsOn(pieces, file, c, d) =>
            Joined(pieces, d) = Joined(pieces, c) \o SubSeq(file, c + 1, d)

LEMMA JoinedSymbols ==
    ASSUME NEW S, NEW pieces \in Seq(Seq(S)), NEW file \in Seq(S)
    PROVE  GrowBySymbols(pieces, file)
<1> SUFFICES ASSUME NEW c \in Nat, NEW d \in Nat, c <= d, d <= Len(file), d <= Len(pieces),
                    SymbolsOn(pieces, file, c, d)
             PROVE  Joined(pieces, d) = Joined(pieces, c) \o SubSeq(file, c + 1, d)
  BY Zenon DEF GrowBySymbols
<1> DEFINE G == {k \in c .. d : Joined(pieces, k) = Joined(pieces, c) \o SubSeq(file, c + 1, k)}
<1>1. Len(pieces) \in Nat /\ Len(file) \in Nat /\ \A k \in 1 .. Len(file) : file[k] \in S
  BY LenProperties, ElementOfSeq
<1>2. /\ \A k \in 1 .. d : Joined(pieces, k) = Joined(pieces, k - 1) \o pieces[k]
      /\ Joined(pieces, c) \in Seq(S)
  <2>1. c \in 0 .. Len(pieces) /\ \A k \in 1 .. d : k \in 1 .. Len(pieces)
    BY <1>1
  <2> QED BY <2>1, JoinedGrows
<1>3. c \in G
  <2>1. SubSeq(file, c + 1, c) = <<>>
    BY SubSeqEmpty
  <2> QED BY <1>2, <2>1, ConcatEmptySeq
<1>4. ASSUME NEW k \in c .. d - 1, k \in G PROVE k + 1 \in G
  <2> DEFINE old == SubSeq(file, c + 1, k)
             next == <<file[k + 1]>>
  <2>1. /\ k + 1 \in 1 .. d /\ k + 1 \in c + 1 .. d /\ (k + 1) - 1 = k /\ k + 1 \in c .. d
        /\ c + 1 \in 1 .. Len(file) /\ k + 1 \in c + 1 .. Len(file) /\ k + 1 \in 1 .. Len(file)
    BY <1>1
  <2>2. Joined(pieces, k + 1) = (Joined(pieces, c) \o old) \o next
    BY <1>2, <1>4, <2>1 DEF SymbolsOn
  <2>3. SubSeq(file, c + 1, k + 1) = old \o next
    BY <2>1, SubSeqRecursiveSecond
  <2>4. old \in Seq(S) /\ next \in Seq(S)
    <3>1. \A i \in c + 1 .. k : file[i] \in S
      BY <1>1
    <3>2. c + 1 \in Int /\ k \in Int /\ file[k + 1] \in S
      BY <1>1, <2>1
    <3> QED BY <3>1, <3>2, SubSeqProperties
  <2> HIDE DEF old, next
  <2>5. (Joined(pieces, c) \o old) \o next = Joined(pieces, c) \o (old \o next)
    <3>1. Joined(pieces, c) \in Seq(S)
      BY <1>2
    <3>2. Associative(S)
      BY Associates
    <3> QED BY <2>4, <3>1, <3>2, Zenon DEF Associative
  <2> QED BY <2>1, <2>2, <2>3, <2>5
<1>5. d \in G
  <2> HIDE DEF G
  <2> QED BY <1>3, <1>4, FromTo
<1> QED BY <1>5

(* Empty pieces add nothing.                                                   *)
LEMMA JoinedNothing ==
    ASSUME NEW S, NEW pieces \in Seq(Seq(S)),
           NEW c \in Nat, NEW d \in Nat, c <= d, d <= Len(pieces), NothingOn(pieces, c, d)
    PROVE  Joined(pieces, d) = Joined(pieces, c)
<1> DEFINE G == {k \in c .. d : Joined(pieces, k) = Joined(pieces, c)}
<1>1. /\ \A k \in 1 .. d : Joined(pieces, k) = Joined(pieces, k - 1) \o pieces[k]
      /\ Joined(pieces, c) \in Seq(S)
  <2>1. c \in 0 .. Len(pieces) /\ \A k \in 1 .. d : k \in 1 .. Len(pieces)
    BY LenProperties
  <2> QED BY <2>1, JoinedGrows
<1>2. ASSUME NEW k \in c .. d - 1, k \in G PROVE k + 1 \in G
  <2>1. k + 1 \in 1 .. d /\ k + 1 \in c + 1 .. d /\ (k + 1) - 1 = k /\ k + 1 \in c .. d
    OBVIOUS
  <2>2. Joined(pieces, k + 1) = Joined(pieces, c) \o <<>>
    BY <1>1, <1>2, <2>1 DEF NothingOn
  <2> QED BY <1>1, <2>1, <2>2, ConcatEmptySeq
<1>3. c \in G
  OBVIOUS
<1>4. d \in G
  <2> HIDE DEF G
  <2> QED BY <1>2, <1>3, FromTo
<1> QED BY <1>4

(* The join of the community modules is this one.                              *)
LEMMA FlattenIsJoined ==
    ASSUME NEW S, NEW pieces \in Seq(Seq(S)), Len(pieces) # 0
    PROVE  FlattenSeq(pieces) = Joined(pieces, Len(pieces))
<1> DEFINE n == Len(pieces)
           flatten[i \in 1 .. n] == IF i = 1 THEN pieces[i] ELSE flatten[i - 1] \o pieces[i]
           Sound(f) == f = [i \in 1 .. n |-> IF i = 1 THEN pieces[i] ELSE f[i - 1] \o pieces[i]]
           G == {k \in 1 .. n : flatten[k] = Joined(pieces, k)}
<1>1. /\ n \in Nat /\ n # 0 /\ \A k \in 1 .. n : pieces[k] \in Seq(S)
      /\ Joined(pieces, 0) = <<>>
      /\ \A k \in 1 .. n : Joined(pieces, k) = Joined(pieces, k - 1) \o pieces[k]
  BY LenProperties, ElementOfSeq, JoinedGrows
<1>2. FlattenSeq(pieces) = flatten[n]
  BY Zenon DEF FlattenSeq
<1> HIDE DEF flatten, n
<1>3. Joined(pieces, 1) = pieces[1]
  <2>1. 1 \in 1 .. n /\ 1 - 1 = 0
    BY <1>1
  <2>2. Joined(pieces, 1) = <<>> \o pieces[1] /\ pieces[1] \in Seq(S)
    BY <1>1, <2>1
  <2> QED BY <2>2, ConcatEmptySeq
<1>4. Sound(flatten)
  <2> DEFINE g == [i \in 1 .. n |-> Joined(pieces, i)]
  <2>1. ASSUME NEW i \in 1 .. n
        PROVE  g[i] = IF i = 1 THEN pieces[i] ELSE g[i - 1] \o pieces[i]
    <3>1. CASE i = 1
      BY <1>3, <3>1
    <3>2. CASE i # 1
      <4>1. i - 1 \in 1 .. n
        BY <1>1, <3>2
      <4> QED BY <1>1, <3>2, <4>1
    <3> QED BY <3>1, <3>2
  <2>2. g = [i \in 1 .. n |-> g[i]]
    OBVIOUS
  <2> HIDE DEF g
  <2>3. Sound(g)
    BY <2>1, <2>2, Zenon
  <2>4. flatten = CHOOSE f : Sound(f)
    BY Zenon DEF flatten
  <2> HIDE DEF Sound
  <2> QED BY <2>3, <2>4, Zenon
<1>5. \A i \in 1 .. n : flatten[i] = IF i = 1 THEN pieces[i] ELSE flatten[i - 1] \o pieces[i]
  BY <1>4, Zenon
<1>6. 1 \in G
  BY <1>1, <1>3, <1>5
<1>7. ASSUME NEW k \in 1 .. n - 1, k \in G PROVE k + 1 \in G
  <2>1. k + 1 \in 1 .. n /\ k + 1 # 1 /\ (k + 1) - 1 = k
    BY <1>1
  <2>2. flatten[k + 1] = flatten[k] \o pieces[k + 1]
    BY <1>5, <2>1
  <2>3. Joined(pieces, k + 1) = Joined(pieces, k) \o pieces[k + 1]
    BY <1>1, <2>1
  <2> QED BY <1>7, <2>1, <2>2, <2>3
<1>8. n \in G
  <2>1. 1 \in Nat /\ 1 <= n
    BY <1>1
  <2> HIDE DEF G
  <2> QED BY <1>1, <1>6, <1>7, <2>1, FromTo
<1> QED BY <1>2, <1>8 DEF n

-----------------------------------------------------------------------------
(* One SEARCH in one text.                                                     *)

(* The first of several places is one of them, and the least.                  *)
LEMMA FirstIsLeast ==
    ASSUME NEW S \in SUBSET Nat, S # {}
    PROVE  First(S) \in S /\ \A at \in S : First(S) <= at
<1>1. \E at \in S : \A other \in S : at <= other
  BY LeastNat
<1> QED BY <1>1 DEF First

(* The places of a text, symbol by symbol.                                     *)
LEMMA SitesOf ==
    ASSUME NEW S, NEW text \in Seq(S), NEW file \in Seq(S)
    PROVE  /\ Sites(text, file) \in SUBSET Nat
           /\ \A at \in Sites(text, file) :
                 /\ at \in 1 .. Len(file) + 1 /\ at + Len(text) - 1 <= Len(file)
                 /\ \A k \in 1 .. Len(text) : file[at + k - 1] = text[k]
<1>1. Len(text) \in Nat /\ Len(file) \in Nat /\ \A i \in 1 .. Len(file) : file[i] \in S
  BY LenProperties, ElementOfSeq
<1>2. ASSUME NEW at \in Sites(text, file)
      PROVE  /\ at \in 1 .. Len(file) + 1 /\ at + Len(text) - 1 <= Len(file)
             /\ \A k \in 1 .. Len(text) : file[at + k - 1] = text[k]
  <2>1. /\ at \in 1 .. Len(file) + 1 /\ at + Len(text) - 1 <= Len(file)
        /\ SubSeq(file, at, at + Len(text) - 1) = text
    BY DEF Sites, Occurs
  <2> DEFINE m == Len(text)
             e == at + m - 1
  <2>2. m \in Nat /\ at \in Int /\ e \in Int /\ e - at + 1 = m
    BY <1>1, <2>1
  <2>3. \A i \in at .. e : file[i] \in S
    BY <1>1, <2>1
  <2> HIDE DEF e
  <2>4. \A i \in 1 .. e - at + 1 : SubSeq(file, at, e)[i] = file[at + i - 1]
    BY <2>2, <2>3, SubSeqProperties
  <2> QED BY <2>1, <2>2, <2>4 DEF e
<1> QED BY <1>1, <1>2 DEF Sites

(* And the other way round.                                                    *)
LEMMA SiteFrom ==
    ASSUME NEW S, NEW text \in Seq(S), NEW file \in Seq(S),
           NEW at \in 1 .. Len(file) + 1, at + Len(text) - 1 <= Len(file),
           \A k \in 1 .. Len(text) : file[at + k - 1] = text[k]
    PROVE  at \in Sites(text, file)
<1> DEFINE m == Len(text)
           e == at + m - 1
           part == SubSeq(file, at, e)
<1>1. Len(text) \in Nat /\ Len(file) \in Nat /\ \A i \in 1 .. Len(file) : file[i] \in S
  BY LenProperties, ElementOfSeq
<1>2. m \in Nat /\ at \in Int /\ e \in Int /\ e - at + 1 = m /\ (at <= e <=> m # 0)
  BY <1>1
<1>3. \A i \in at .. e : file[i] \in S
  BY <1>1
<1>4. \A k \in 1 .. m : file[at + k - 1] = text[k]
  OBVIOUS
<1> HIDE DEF e
<1>5. /\ part \in Seq(S) /\ Len(part) = IF at <= e THEN e - at + 1 ELSE 0
      /\ \A i \in 1 .. e - at + 1 : part[i] = file[at + i - 1]
  BY <1>2, <1>3, SubSeqProperties
<1> HIDE DEF part
<1>6. Len(part) = m /\ \A i \in 1 .. m : part[i] = text[i]
  BY <1>2, <1>4, <1>5
<1>7. part = text
  BY <1>5, <1>6, SeqEqual
<1> QED BY <1>7 DEF Sites, Occurs, part, e

(* Where str.count finds a text once, all its places overlap the first.        *)
LEMMA UniqueOverlap ==
    ASSUME NEW S, NEW text \in Seq(S), NEW file \in Seq(S), Unique(text, file),
           NEW at \in Sites(text, file), NEW other \in Sites(text, file), at < other
    PROVE  other - at < Len(text)
<1> DEFINE sites == Sites(text, file)
           first == First(sites)
           m == Len(text)
<1>1. /\ sites \in SUBSET Nat /\ at \in sites /\ other \in sites
      /\ m \in Nat /\ (text = <<>> => m = 0)
  BY SitesOf, LenProperties
<1>2. sites # {} /\ \A s \in sites : s < first + IF text = <<>> THEN 1 ELSE m
  BY DEF Unique
<1> HIDE DEF sites, m
<1>3. first \in sites /\ first <= at
  BY <1>1, FirstIsLeast
<1> HIDE DEF first
<1>4. first \in Nat /\ at \in Nat /\ other \in Nat
  BY <1>1, <1>3
<1>5. text # <<>>
  <2> SUFFICES ASSUME text = <<>> PROVE FALSE
    OBVIOUS
  <2>1. other < first + 1
    BY <1>1, <1>2
  <2> QED BY <1>3, <1>4, <2>1
<1>6. other < first + m
  BY <1>1, <1>2, <1>5
<1>7. other - at < m
  BY <1>1, <1>3, <1>4, <1>6
<1> QED BY <1>7 DEF m

(* A text that cannot overlap itself has but one place then.                   *)
LEMMA OneSite ==
    ASSUME NEW S, NEW text \in Seq(S), NEW file \in Seq(S),
           Unique(text, file), Borderless(text),
           NEW at \in Sites(text, file), NEW other \in Sites(text, file)
    PROVE  at = other
<1>1. /\ Len(text) \in Nat /\ at \in Nat /\ other \in Nat
      /\ \A i \in 1 .. Len(text) : text[i] \in S
  BY SitesOf, LenProperties, ElementOfSeq
<1>2. ASSUME NEW p \in Sites(text, file), NEW q \in Sites(text, file), p < q PROVE FALSE
  <2> DEFINE m == Len(text)
             k == m - (q - p)
             head == SubSeq(text, 1, k)
             tail == SubSeq(text, m - k + 1, m)
  <2>1. /\ p \in Nat /\ q \in Nat /\ m \in Nat /\ q - p < m
        /\ \A i \in 1 .. m : file[p + i - 1] = text[i]
        /\ \A i \in 1 .. m : file[q + i - 1] = text[i]
    BY <1>1, <1>2, SitesOf, UniqueOverlap
  <2>2. head # tail \/ k \notin 1 .. m - 1
    BY DEF Borderless
  <2>3. \A i \in 1 .. m : text[i] \in S
    BY <1>1
  <2> HIDE DEF m
  <2>4. k \in 1 .. m - 1
    BY <1>2, <2>1
  <2>5. m - k = q - p
    BY <2>1
  <2> HIDE DEF k
  <2>6. /\ head \in Seq(S) /\ Len(head) = k /\ \A i \in 1 .. k : head[i] = text[i]
    <3>1. 1 \in Int /\ k \in Int /\ 1 <= k /\ k - 1 + 1 = k /\ \A i \in 1 .. k : text[i] \in S
      BY <2>1, <2>3, <2>4
    <3>2. /\ head \in Seq(S) /\ Len(head) = IF 1 <= k THEN k - 1 + 1 ELSE 0
          /\ \A i \in 1 .. k - 1 + 1 : head[i] = text[1 + i - 1]
      BY <3>1, SubSeqProperties
    <3> HIDE DEF head
    <3> QED BY <3>1, <3>2
  <2>7. /\ tail \in Seq(S) /\ Len(tail) = k /\ \A i \in 1 .. k : tail[i] = text[m - k + i]
    <3>1. /\ m - k + 1 \in Int /\ m \in Int /\ m - k + 1 <= m /\ m - (m - k + 1) + 1 = k
          /\ \A i \in m - k + 1 .. m : text[i] \in S
      BY <2>1, <2>3, <2>4
    <3> DEFINE from == m - k + 1
    <3>2. from \in Int /\ from <= m /\ m - from + 1 = k /\ \A i \in from .. m : text[i] \in S
      BY <3>1
    <3>3. \A i \in 1 .. k : from + i - 1 = m - k + i
      BY <2>1, <2>4
    <3>4. tail = SubSeq(text, from, m)
      OBVIOUS
    <3> HIDE DEF from, tail
    <3>5. /\ tail \in Seq(S) /\ Len(tail) = IF from <= m THEN m - from + 1 ELSE 0
          /\ \A i \in 1 .. m - from + 1 : tail[i] = text[from + i - 1]
      BY <3>1, <3>2, <3>4, SubSeqProperties
    <3> QED BY <3>2, <3>3, <3>5
  <2>8. ASSUME NEW i \in 1 .. k PROVE text[i] = text[m - k + i]
    <3>1. i \in 1 .. m /\ m - k + i \in 1 .. m /\ p + (m - k + i) - 1 = q + i - 1
      BY <2>1, <2>4, <2>5
    <3>2. file[q + i - 1] = text[i] /\ file[p + (m - k + i) - 1] = text[m - k + i]
      BY <2>1, <3>1
    <3> QED BY <3>1, <3>2
  <2>9. head = tail
    <3>1. Len(head) = Len(tail) /\ \A i \in 1 .. Len(head) : head[i] = tail[i]
      BY <2>6, <2>7, <2>8
    <3> HIDE DEF head, tail
    <3> QED BY <2>6, <2>7, <3>1, SeqEqual
  <2> QED BY <2>2, <2>4, <2>9
<1> QED BY <1>1, <1>2

(* In a text made of three parts, the symbols of each.                         *)
LEMMA ThreeParts ==
    ASSUME NEW S, NEW before \in Seq(S), NEW text \in Seq(S), NEW after \in Seq(S)
    PROVE  LET file == (before \o text) \o after
           IN  /\ file \in Seq(S)
               /\ Len(before) \in Nat /\ Len(text) \in Nat /\ Len(after) \in Nat
               /\ Len(file) = Len(before) + Len(text) + Len(after)
               /\ \A i \in 1 .. Len(before) : file[i] = before[i]
               /\ \A i \in 1 .. Len(text) : file[Len(before) + i] = text[i]
               /\ \A i \in 1 .. Len(after) : file[Len(before) + Len(text) + i] = after[i]
<1> DEFINE file == (before \o text) \o after
           a == Len(before)
           m == Len(text)
           c == Len(after)
           front == before \o text
<1>1. a \in Nat /\ m \in Nat /\ c \in Nat
  BY LenProperties
<1>2. /\ front \in Seq(S) /\ Len(front) = a + m
      /\ \A i \in 1 .. a + m : front[i] = IF i <= a THEN before[i] ELSE text[i - a]
  BY ConcatProperties
<1>3. /\ file \in Seq(S) /\ Len(file) = Len(front) + c
      /\ \A i \in 1 .. Len(front) + c : file[i] = IF i <= Len(front) THEN front[i] ELSE after[i - Len(front)]
  <2> HIDE DEF front
  <2>1. front \in Seq(S)
    BY <1>2
  <2>2. front \o after \in Seq(S) /\ Len(front \o after) = Len(front) + c
        /\ \A i \in 1 .. Len(front) + c :
              (front \o after)[i] = IF i <= Len(front) THEN front[i] ELSE after[i - Len(front)]
    BY <2>1, ConcatProperties
  <2> QED BY <2>2 DEF front
<1> HIDE DEF file, front, a, m, c
<1>4. Len(file) = a + m + c
  BY <1>2, <1>3
<1>5. \A i \in 1 .. a : file[i] = before[i]
  BY <1>1, <1>2, <1>3
<1>6. \A i \in 1 .. m : file[a + i] = text[i]
  <2>1. ASSUME NEW i \in 1 .. m PROVE file[a + i] = text[i]
    <3>1. a + i \in 1 .. a + m /\ a + i \in 1 .. (a + m) + c /\ ~(a + i <= a) /\ (a + i) - a = i
          /\ a + i <= a + m
      BY <1>1
    <3> QED BY <1>2, <1>3, <3>1
  <2> QED BY <2>1
<1>7. \A i \in 1 .. c : file[a + m + i] = after[i]
  <2>1. ASSUME NEW i \in 1 .. c PROVE file[a + m + i] = after[i]
    <3>1. a + m + i \in 1 .. (a + m) + c /\ ~(a + m + i <= a + m) /\ (a + m + i) - (a + m) = i
      BY <1>1
    <3> QED BY <1>2, <1>3, <3>1
  <2> QED BY <2>1
<1> QED BY <1>1, <1>3, <1>4, <1>5, <1>6, <1>7 DEF file, a, m, c

(* One block, whose SEARCH is between two other parts of the text: apply_patch *)
(* replaces it there.                                                          *)
LEMMA ReplacedThere ==
    ASSUME NEW S, NEW before \in Seq(S), NEW after \in Seq(S), NEW b,
           b.search \in Seq(S), b.replace \in Seq(S), b.search # <<>>, Borderless(b.search),
           Applicable(b, (before \o b.search) \o after)
    PROVE  Replaced(b, (before \o b.search) \o after) = (before \o b.replace) \o after
<1> DEFINE text == b.search
           file == (before \o text) \o after
           a == Len(before)
           m == Len(text)
           c == Len(after)
           sites == Sites(text, file)
<1>1. text \in Seq(S)
  OBVIOUS
<1>2. /\ file \in Seq(S) /\ a \in Nat /\ m \in Nat /\ c \in Nat /\ Len(file) = a + m + c
      /\ \A i \in 1 .. a : file[i] = before[i]
      /\ \A i \in 1 .. m : file[a + i] = text[i]
      /\ \A i \in 1 .. c : file[a + m + i] = after[i]
  <2> HIDE DEF text
  <2> QED BY <1>1, ThreeParts
<1>3. Applicable(b, file) /\ Borderless(text) /\ text # <<>>
  OBVIOUS
<1>4. Replaced(b, file) =
         LET at == First(sites)
         IN  IF sites = {} THEN file
             ELSE SubSeq(file, 1, at - 1) \o b.replace \o SubSeq(file, at + m, Len(file))
  BY DEF Replaced
<1>5. sites = {} \/ Unique(text, file)
  BY <1>3 DEF Applicable
<1> HIDE DEF file, text
<1>6. m # 0
  BY <1>1, <1>3, EmptySeq
<1>7. a + 1 \in sites
  <2>1. a + 1 \in 1 .. Len(file) + 1 /\ (a + 1) + m - 1 <= Len(file)
    <3> HIDE DEF a, m, c
    <3> QED BY <1>2, <1>6
  <2>2. ASSUME NEW k \in 1 .. Len(text) PROVE file[(a + 1) + k - 1] = text[k]
    <3>1. (a + 1) + k - 1 = a + k
      BY <1>2
    <3> HIDE DEF a
    <3> QED BY <1>2, <3>1
  <2> HIDE DEF a
  <2> QED BY <1>1, <1>2, <2>1, <2>2, SiteFrom
<1>8. First(sites) = a + 1
  <2>1. Unique(text, file) /\ sites \in SUBSET Nat
    BY <1>1, <1>2, <1>5, <1>7, SitesOf
  <2>2. \A p, q \in sites : p = q
    BY <1>1, <1>2, <1>3, <2>1, OneSite
  <2> HIDE DEF sites
  <2>3. First(sites) \in sites
    BY <1>7, <2>1, FirstIsLeast
  <2> QED BY <1>7, <2>2, <2>3
<1>9. \A i \in 1 .. a + m + c : file[i] \in S
  <2>1. \A i \in 1 .. Len(file) : file[i] \in S
    BY <1>2, ElementOfSeq
  <2> QED BY <1>2, <2>1
<1>10. SubSeq(file, 1, (a + 1) - 1) = before
  <2> DEFINE part == SubSeq(file, 1, a)
  <2>1. (a + 1) - 1 = a /\ a \in Int /\ 1 \in Int /\ a - 1 + 1 = a /\ (1 <= a <=> a # 0)
    BY <1>2
  <2>2. \A i \in 1 .. a : file[i] \in S
    <3> HIDE DEF a, m, c
    <3> QED BY <1>2, <1>9
  <2> HIDE DEF a
  <2>3. /\ part \in Seq(S) /\ Len(part) = IF 1 <= a THEN a - 1 + 1 ELSE 0
        /\ \A i \in 1 .. a - 1 + 1 : part[i] = file[1 + i - 1]
    BY <2>1, <2>2, SubSeqProperties
  <2> HIDE DEF part
  <2>4. Len(part) = a /\ \A i \in 1 .. a : part[i] = before[i]
    BY <1>2, <2>1, <2>3
  <2>5. part = before
    BY <2>3, <2>4, SeqEqual DEF a
  <2> QED BY <2>1, <2>5 DEF part
<1>11. SubSeq(file, (a + 1) + m, Len(file)) = after
  <2> DEFINE from == (a + 1) + m
             to == Len(file)
             part == SubSeq(file, from, to)
  <2> HIDE DEF a, m, c
  <2>1. /\ from \in Int /\ to \in Int /\ to - from + 1 = c /\ (from <= to <=> c # 0)
        /\ \A i \in 1 .. c : from + i - 1 = a + m + i
    BY <1>2
  <2>2. \A i \in from .. to : file[i] \in S
    BY <1>2, <1>9
  <2> HIDE DEF from, to
  <2>3. /\ part \in Seq(S) /\ Len(part) = IF from <= to THEN to - from + 1 ELSE 0
        /\ \A i \in 1 .. to - from + 1 : part[i] = file[from + i - 1]
    BY <2>1, <2>2, SubSeqProperties
  <2> HIDE DEF part
  <2>4. Len(part) = c /\ \A i \in 1 .. c : part[i] = after[i]
    BY <1>2, <2>1, <2>3
  <2>5. part = after
    BY <2>3, <2>4, SeqEqual DEF c
  <2> QED BY <2>5 DEF part, from, to
<1>12. Replaced(b, file) = SubSeq(file, 1, (a + 1) - 1) \o b.replace \o SubSeq(file, (a + 1) + m, Len(file))
  <2> HIDE DEF a, m, sites
  <2>1. sites # {}
    BY <1>7
  <2> QED BY <1>4, <1>8, <2>1
<1>13. Replaced(b, file) = before \o b.replace \o after
  BY <1>10, <1>11, <1>12
<1> QED BY <1>13 DEF file, text

-----------------------------------------------------------------------------
(* The blocks one after another.                                               *)

TextBlock(S) == [search : Seq(S), replace : Seq(S)]

(* Replacing keeps a text a text.                                              *)
LEMMA ReplacedType ==
    ASSUME NEW S, NEW b \in TextBlock(S), NEW file \in Seq(S)
    PROVE  Replaced(b, file) \in Seq(S)
<1> DEFINE sites == Sites(b.search, file)
           at == First(sites)
           m == Len(b.search)
           front == SubSeq(file, 1, at - 1)
           back == SubSeq(file, at + m, Len(file))
<1>1. /\ b.search \in Seq(S) /\ b.replace \in Seq(S) /\ m \in Nat /\ Len(file) \in Nat
      /\ \A i \in 1 .. Len(file) : file[i] \in S
  BY LenProperties, ElementOfSeq DEF TextBlock
<1>2. CASE sites = {}
  BY <1>2 DEF Replaced
<1>3. CASE sites # {}
  <2>1. Replaced(b, file) = front \o b.replace \o back
    BY <1>3 DEF Replaced
  <2>2. at \in 1 .. Len(file) + 1
    <3>1. sites \in SUBSET Nat /\ \A s \in sites : s \in 1 .. Len(file) + 1
      BY <1>1, SitesOf
    <3> HIDE DEF sites
    <3> QED BY <1>3, <3>1, FirstIsLeast
  <2> HIDE DEF at, m
  <2>3. front \in Seq(S)
    <3>1. 1 \in Int /\ at - 1 \in Int /\ \A i \in 1 .. at - 1 : file[i] \in S
      BY <1>1, <2>2
    <3> QED BY <3>1, SubSeqProperties
  <2>4. back \in Seq(S)
    <3>1. at + m \in Int /\ Len(file) \in Int /\ \A i \in at + m .. Len(file) : file[i] \in S
      BY <1>1, <2>2
    <3> QED BY <3>1, SubSeqProperties
  <2> HIDE DEF front, back
  <2>5. front \o b.replace \in Seq(S)
    BY <1>1, <2>3, ConcatProperties
  <2>6. (front \o b.replace) \o back \in Seq(S)
    BY <2>4, <2>5, ConcatProperties
  <2> QED BY <2>1, <2>6
<1> QED BY <1>2, <1>3

(* The loop of apply_patch makes each text from the one before.                *)
LEMMA AfterBlocksGrows ==
    ASSUME NEW S, NEW bs \in Seq(TextBlock(S)), NEW file \in Seq(S)
    PROVE  /\ AfterBlocks(bs, 0, file) = file
           /\ \A k \in 1 .. Len(bs) :
                 AfterBlocks(bs, k, file) = Replaced(bs[k], AfterBlocks(bs, k - 1, file))
<1> DEFINE n == Len(bs)
           step == [p \in (1 .. n) \X Seq(S) |-> Replaced(bs[p[1]], p[2])]
           text[k \in 0 .. n] == IF k = 0 THEN file ELSE Replaced(bs[k], text[k - 1])
           Sound(f) == f = [k \in 0 .. n |-> IF k = 0 THEN file ELSE Replaced(bs[k], f[k - 1])]
<1>1. n \in Nat /\ \A k \in 1 .. n : bs[k] \in TextBlock(S)
  BY LenProperties, ElementOfSeq
<1>2. step \in [(1 .. n) \X Seq(S) -> Seq(S)]
  <2>1. ASSUME NEW k \in 1 .. n, NEW t \in Seq(S) PROVE Replaced(bs[k], t) \in Seq(S)
    BY <1>1, ReplacedType
  <2> QED BY <2>1
<1>3. \A k \in 1 .. n, t \in Seq(S) : step[<<k, t>>] = Replaced(bs[k], t)
  OBVIOUS
<1> HIDE DEF n, step
<1>4. Sound(text)
  <2> HIDE DEF text
  <2>1. PICK f \in [0 .. n -> Seq(S)] :
           f[0] = file /\ \A k \in 1 .. n : f[k] = step[<<k, f[k - 1]>>]
    <3>1. \E f : Follows(f, Seq(S), file, n, step)
      BY <1>1, <1>2, Recursion, Zenon
    <3> QED BY <3>1 DEF Follows
  <2>2. ASSUME NEW k \in 0 .. n PROVE f[k] = IF k = 0 THEN file ELSE Replaced(bs[k], f[k - 1])
    <3>1. k # 0 => k \in 1 .. n /\ k - 1 \in 0 .. n
      BY <1>1
    <3> QED BY <1>3, <2>1, <3>1
  <2>3. f = [k \in 0 .. n |-> f[k]]
    OBVIOUS
  <2>4. Sound(f)
    BY <2>2, <2>3, Zenon
  <2>5. text = CHOOSE g : Sound(g)
    BY Zenon DEF text
  <2> HIDE DEF Sound
  <2> QED BY <2>4, <2>5, Zenon
<1>5. \A k : AfterBlocks(bs, k, file) = text[k]
  BY DEF AfterBlocks, n
<1> HIDE DEF text
<1>6. \A k \in 0 .. n : text[k] = IF k = 0 THEN file ELSE Replaced(bs[k], text[k - 1])
  BY <1>4, Zenon
<1>7. 0 \in 0 .. n /\ \A k \in 1 .. n : k \in 0 .. n /\ k # 0
  BY <1>1
<1>8. text[0] = file /\ \A k \in 1 .. n : text[k] = Replaced(bs[k], text[k - 1])
  BY <1>6, <1>7, Zenon
<1> QED BY <1>5, <1>8, Zenon DEF n

(* Blocks that all apply are all applied.                                      *)
LEMMA PatchedWhole ==
    ASSUME NEW bs, Len(bs) \in Nat, NEW file, Applies(bs, file)
    PROVE  Patched(bs, file) = AfterBlocks(bs, Len(bs), file)
<1> DEFINE n == Len(bs)
<1>1. \A i \in 1 .. n : Applicable(bs[i], AfterBlocks(bs, i - 1, file))
  BY DEF Applies
<1>2. n \in Nat
  OBVIOUS
<1>3. Reached(bs, file) =
         Cardinality({k \in 1 .. n : \A i \in 1 .. k : Applicable(bs[i], AfterBlocks(bs, i - 1, file))})
  BY DEF Reached
<1> HIDE DEF n
<1>4. \A k \in 1 .. n : \A i \in 1 .. k : i \in 1 .. n
  BY <1>2
<1>5. {k \in 1 .. n : \A i \in 1 .. k : Applicable(bs[i], AfterBlocks(bs, i - 1, file))} = 1 .. n
  BY <1>1, <1>4, Zenon
<1>6. Cardinality(1 .. n) = n
  BY <1>2, FS_Interval
<1> QED BY <1>3, <1>5, <1>6 DEF Patched, n

(* One block, edited in the pieces: those of its site are emptied, and its     *)
(* REPLACE is put there.                                                       *)
Edited(b, at, pieces, others, file) ==
    LET e == at + Len(b.search) - 1
    IN  /\ at \in Sites(b.search, file)
        /\ SameOn(pieces, others, 0, at - 1)
        /\ SymbolsOn(pieces, file, at - 1, e)
        /\ others[at] = b.replace
        /\ NothingOn(others, at, e)
        /\ SameOn(pieces, others, e, Len(file) + 1)

(* It is what apply_patch does to the joined text.                             *)
LEMMA OneMoreEdit ==
    ASSUME NEW S, NEW file \in Seq(S), NEW b \in TextBlock(S),
           b.search # <<>>, Borderless(b.search),
           NEW pieces \in Seq(Seq(S)), Len(pieces) = Len(file) + 1,
           NEW others \in Seq(Seq(S)), Len(others) = Len(file) + 1,
           NEW at, Edited(b, at, pieces, others, file),
           Applicable(b, Joined(pieces, Len(file) + 1))
    PROVE  Replaced(b, Joined(pieces, Len(file) + 1)) = Joined(others, Len(file) + 1)
<1> DEFINE c == at - 1
           d == Len(file) + 1
           e == at + Len(b.search) - 1
           before == Joined(pieces, c)
<1>1. b.search \in Seq(S) /\ b.replace \in Seq(S)
  BY DEF TextBlock
<1>2. at \in Sites(b.search, file) /\ SubSeq(file, at, e) = b.search
  BY DEF Edited, Sites, Occurs
<1>3. /\ at \in Nat /\ c \in Nat /\ e \in Nat /\ d \in Nat /\ c <= d /\ c <= e /\ e <= Len(file) /\ e <= d
      /\ at <= e /\ at \in 1 .. d /\ c + 1 = at /\ c \in 0 .. d /\ e \in 0 .. d
  <2> DEFINE m == Len(b.search)
             n == Len(file)
  <2>1. m \in Nat /\ m # 0 /\ n \in Nat
    BY <1>1, LenProperties, EmptySeq
  <2>2. at \in 1 .. n + 1 /\ at + m - 1 <= n /\ e = at + m - 1
    BY <1>1, <1>2, SitesOf
  <2> HIDE DEF m, n
  <2>3. d = n + 1
    BY DEF n
  <2> HIDE DEF d, e
  <2>4. /\ at \in Nat /\ c \in Nat /\ e \in Nat /\ d \in Nat /\ c <= d /\ c <= e /\ e <= n /\ e <= d
        /\ at <= e /\ at \in 1 .. d /\ c + 1 = at /\ c \in 0 .. d /\ e \in 0 .. d
    <3>1. at \in Nat
      BY <2>1, <2>2
    <3>2. c \in Nat /\ c + 1 = at
      BY <2>1, <2>2
    <3>3. d \in Nat /\ e \in Nat /\ e <= n
      BY <2>1, <2>2, <2>3
    <3>4. at <= e
      BY <2>1, <2>2, <3>1
    <3> HIDE DEF c
    <3> QED BY <2>1, <2>2, <2>3, <3>1, <3>2, <3>3, <3>4
  <2> QED BY <2>4 DEF n
<1>4. /\ SameOn(pieces, others, 0, c) /\ SymbolsOn(pieces, file, c, e)
      /\ SameOn(pieces, others, e, d) /\ others[at] = b.replace /\ NothingOn(others, at, e)
      /\ Len(pieces) = d /\ Len(others) = d
  BY DEF Edited
<1> HIDE DEF c, d, e
<1>5. Joined(pieces, e) = before \o b.search
  <2>1. Joined(pieces, e) = before \o SubSeq(file, c + 1, e)
    <3>1. /\ c \in Nat /\ e \in Nat /\ c <= e /\ e <= Len(file) /\ e <= Len(pieces)
          /\ SymbolsOn(pieces, file, c, e)
      BY <1>3, <1>4
    <3>2. GrowBySymbols(pieces, file)
      BY JoinedSymbols
    <3> QED BY <3>1, <3>2, Zenon DEF GrowBySymbols
  <2> QED BY <1>2, <1>3, <2>1
<1>6. Joined(others, e) = before \o b.replace
  <2>1. Joined(others, c) = before
    BY <1>3, <1>4, JoinedAlike
  <2>2. Joined(others, at) = Joined(others, at - 1) \o others[at]
    BY <1>3, <1>4, JoinedGrows
  <2>3. at - 1 = c
    BY DEF c
  <2>4. Joined(others, e) = Joined(others, at)
    BY <1>3, <1>4, JoinedNothing
  <2> QED BY <1>4, <2>1, <2>2, <2>3, <2>4
<1>7. PICK rest \in Seq(S) :
         /\ Joined(pieces, d) = Joined(pieces, e) \o rest
         /\ Joined(others, d) = Joined(others, e) \o rest
  <2>1. /\ e \in Nat /\ d \in Nat /\ e <= d /\ d <= Len(pieces) /\ d <= Len(others)
        /\ SameOn(pieces, others, e, d)
    BY <1>3, <1>4
  <2>2. EndAlike(pieces, others, S)
    BY JoinedTail
  <2> QED BY <2>1, <2>2, Zenon DEF EndAlike
<1>8. Joined(pieces, d) = (before \o b.search) \o rest
  BY <1>5, <1>7
<1>9. Joined(others, d) = (before \o b.replace) \o rest
  BY <1>6, <1>7
<1>10. before \in Seq(S)
  BY <1>3, <1>4, JoinedGrows
<1>11. Applicable(b, (before \o b.search) \o rest)
  BY <1>8 DEF d
<1> HIDE DEF before
<1>12. Replaced(b, (before \o b.search) \o rest) = (before \o b.replace) \o rest
  BY <1>1, <1>10, <1>11, ReplacedThere
<1> QED BY <1>8, <1>9, <1>12 DEF d

(* Pieces of one symbol each are the text they are of.                         *)
LEMMA JoinedWhole ==
    ASSUME NEW S, NEW file \in Seq(S), NEW pieces \in Seq(Seq(S)), Len(pieces) = Len(file) + 1,
           SymbolsOn(pieces, file, 0, Len(file)), pieces[Len(file) + 1] = <<>>
    PROVE  Joined(pieces, Len(file) + 1) = file
<1> DEFINE n == Len(file)
<1>1. n \in Nat /\ Len(pieces) = n + 1
  BY LenProperties
<1>2. Joined(pieces, n) = Joined(pieces, 0) \o SubSeq(file, 1, n)
  <2>1. n \in Nat /\ 0 \in Nat /\ 0 <= n /\ n <= Len(pieces)
    BY <1>1
  <2>2. n <= Len(file) /\ SymbolsOn(pieces, file, 0, n)
    BY <1>1
  <2> HIDE DEF n
  <2>3. Joined(pieces, n) = Joined(pieces, 0) \o SubSeq(file, 0 + 1, n)
    <3>1. GrowBySymbols(pieces, file)
      BY JoinedSymbols
    <3> QED BY <2>1, <2>2, <3>1, Zenon DEF GrowBySymbols
  <2> QED BY <2>3
<1>3. SubSeq(file, 1, n) = file
  BY SubSeqFull
<1>4. Joined(pieces, n + 1) = Joined(pieces, n)
  <2>1. NothingOn(pieces, n, n + 1)
    BY <1>1 DEF NothingOn
  <2>2. n \in Nat /\ n + 1 \in Nat /\ n <= n + 1 /\ n + 1 <= Len(pieces)
    BY <1>1
  <2> HIDE DEF n
  <2> QED BY <2>1, <2>2, JoinedNothing
<1>5. Joined(pieces, 0) = <<>> /\ <<>> \o file = file
  BY JoinedGrows, ConcatEmptySeq
<1> QED BY <1>2, <1>3, <1>4, <1>5, Zenon

(* Pieces that start as the symbols of the file and are edited block by block. *)
EditedByAll(stages, site, bs, file, S) ==
    /\ \A j \in 0 .. Len(bs) : stages[j] \in Seq(Seq(S)) /\ Len(stages[j]) = Len(file) + 1
    /\ SymbolsOn(stages[0], file, 0, Len(file)) /\ stages[0][Len(file) + 1] = <<>>
    /\ \A j \in 1 .. Len(bs) :
          /\ bs[j].search # <<>> /\ Borderless(bs[j].search)
          /\ Edited(bs[j], site[j], stages[j - 1], stages[j], file)

(* The blocks one after another make the text that the pieces join to after as *)
(* many edits.                                                                 *)
LEMMA EditsJoin ==
    ASSUME NEW S, NEW file \in Seq(S), NEW bs \in Seq(TextBlock(S)), Applies(bs, file),
           NEW stages, NEW site, EditedByAll(stages, site, bs, file, S)
    PROVE  AfterBlocks(bs, Len(bs), file) = Joined(stages[Len(bs)], Len(file) + 1)
<1> DEFINE n == Len(bs)
           d == Len(file) + 1
           Text(j) == AfterBlocks(bs, j, file)
           G == {j \in 0 .. n : Text(j) = Joined(stages[j], d)}
<1>1. n \in Nat /\ 0 \in 0 .. n /\ \A j \in 1 .. n : bs[j] \in TextBlock(S)
  BY LenProperties, ElementOfSeq
<1>2. Text(0) = file /\ \A j \in 1 .. n : Text(j) = Replaced(bs[j], Text(j - 1))
  BY AfterBlocksGrows
<1>3. \A j \in 1 .. n : Applicable(bs[j], Text(j - 1))
  BY DEF Applies
<1>4. /\ \A j \in 0 .. n : stages[j] \in Seq(Seq(S)) /\ Len(stages[j]) = d
      /\ \A i \in 1 .. n : bs[i].search # <<>> /\ Borderless(bs[i].search)
      /\ \A j \in 1 .. n : Edited(bs[j], site[j], stages[j - 1], stages[j], file)
      /\ SymbolsOn(stages[0], file, 0, Len(file)) /\ stages[0][Len(file) + 1] = <<>>
  BY Zenon DEF EditedByAll
<1>5. 0 \in G
  <2>1. Joined(stages[0], d) = file
    BY <1>1, <1>4, JoinedWhole
  <2> QED BY <1>1, <1>2, <2>1
<1> HIDE DEF n, Text
<1>6. ASSUME NEW j \in 0 .. n - 1, j \in G PROVE j + 1 \in G
  <2> DEFINE k == j + 1
             b == bs[k]
             pieces == stages[j]
             others == stages[k]
  <2>1. k \in 1 .. n /\ k \in 0 .. n /\ j \in 0 .. n /\ k - 1 = j
    BY <1>1
  <2>2. /\ b \in TextBlock(S) /\ b.search # <<>> /\ Borderless(b.search)
        /\ pieces \in Seq(Seq(S)) /\ Len(pieces) = d
        /\ others \in Seq(Seq(S)) /\ Len(others) = d
        /\ Edited(b, site[k], pieces, others, file)
    BY <1>1, <1>4, <2>1
  <2>3. Text(j) = Joined(pieces, d)
    BY <1>6
  <2>4. Applicable(b, Joined(pieces, d)) /\ Text(k) = Replaced(b, Joined(pieces, d))
    BY <1>2, <1>3, <2>1, <2>3
  <2> HIDE DEF b, pieces, others, k
  <2>5. Replaced(b, Joined(pieces, d)) = Joined(others, d)
    BY <2>2, <2>4, OneMoreEdit
  <2> QED BY <2>1, <2>4, <2>5 DEF k, others
<1>7. n \in G
  <2>1. 0 \in Nat /\ 0 <= n
    BY <1>1
  <2> HIDE DEF G
  <2> QED BY <1>1, <1>5, <1>6, <2>1, FromTo
<1> QED BY <1>7 DEF n, Text

(* The pieces of the text after the first j blocks, whose sites start at site  *)
(* and have len symbols.                                                       *)
Starting(site, j, at) == {i \in 1 .. j : site[i] = at}

Covering(site, len, j, at) == {i \in 1 .. j : site[i] <= at /\ at < site[i] + len[i]}

AnyOf(T) == CHOOSE i \in T : TRUE

PieceAfter(bs, file, site, len, j, at) ==
    IF Starting(site, j, at) # {} THEN bs[AnyOf(Starting(site, j, at))].replace
    ELSE IF Covering(site, len, j, at) # {} \/ at > Len(file) THEN <<>>
    ELSE <<file[at]>>

(* Sites that are apart, none of them empty.                                   *)
Separate(site, len, n) ==
    /\ \A i \in 1 .. n : site[i] \in Nat /\ len[i] \in Nat \ {0}
    /\ \A i, j \in 1 .. n : i # j => \/ site[i] + len[i] <= site[j]
                                    \/ site[j] + len[j] <= site[i]

(* What a piece is: the REPLACE of the only block whose site starts there, and *)
(* what the file has there if no site covers it.                               *)
LEMMA PieceIs ==
    ASSUME NEW bs, NEW file, Len(file) \in Nat, NEW site, NEW len, NEW n \in Nat,
           Separate(site, len, n), NEW j \in 0 .. n, NEW at \in Nat
    PROVE  LET piece == PieceAfter(bs, file, site, len, j, at)
           IN  /\ \A i \in 1 .. j : site[i] = at => piece = bs[i].replace
               /\ Covering(site, len, j, at) = {} =>
                     piece = IF at > Len(file) THEN <<>> ELSE <<file[at]>>
<1> DEFINE piece == PieceAfter(bs, file, site, len, j, at)
<1>1. \A i, k \in 1 .. j : site[i] = at /\ site[k] = at => i = k
  <2> SUFFICES ASSUME NEW i \in 1 .. j, NEW k \in 1 .. j, site[i] = at, site[k] = at, i # k
               PROVE  FALSE
    OBVIOUS
  <2>1. i \in 1 .. n /\ k \in 1 .. n
    OBVIOUS
  <2> QED BY <2>1 DEF Separate
<1>2. ASSUME NEW i \in 1 .. j, site[i] = at PROVE piece = bs[i].replace
  <2>1. Starting(site, j, at) = {i}
    BY <1>1, <1>2 DEF Starting
  <2>2. AnyOf({i}) = i
    BY DEF AnyOf
  <2> QED BY <2>1, <2>2 DEF PieceAfter
<1>3. ASSUME Covering(site, len, j, at) = {} PROVE Starting(site, j, at) = {}
  <2> SUFFICES ASSUME NEW i \in 1 .. j, site[i] = at PROVE FALSE
    BY DEF Starting
  <2>1. i \in 1 .. n
    OBVIOUS
  <2>2. at < site[i] + len[i]
    BY <2>1 DEF Separate
  <2>3. i \in Covering(site, len, j, at)
    BY <2>2 DEF Covering
  <2> QED BY <1>3, <2>3
<1> QED BY <1>2, <1>3 DEF PieceAfter

(* A block changes the pieces of its own site only.                            *)
LEMMA PieceElsewhere ==
    ASSUME NEW bs, NEW file, Len(file) \in Nat, NEW site, NEW len, NEW n \in Nat,
           Separate(site, len, n), NEW j \in 1 .. n, NEW at \in Nat,
           at < site[j] \/ site[j] + len[j] <= at
    PROVE  PieceAfter(bs, file, site, len, j - 1, at) = PieceAfter(bs, file, site, len, j, at)
<1>1. site[j] # at /\ ~(site[j] <= at /\ at < site[j] + len[j])
  BY DEF Separate
<1>2. \A i : i \in 1 .. j <=> i \in 1 .. j - 1 \/ i = j
  OBVIOUS
<1>3. Starting(site, j - 1, at) = Starting(site, j, at)
  BY <1>1, <1>2 DEF Starting
<1>4. Covering(site, len, j - 1, at) = Covering(site, len, j, at)
  BY <1>1, <1>2 DEF Covering
<1> QED BY <1>3, <1>4, Zenon DEF PieceAfter

Stage(bs, file, site, len, j) ==
    [at \in 1 .. Len(file) + 1 |-> PieceAfter(bs, file, site, len, j, at)]

(* The pieces are a sequence of texts.                                         *)
LEMMA StageType ==
    ASSUME NEW S, NEW file \in Seq(S), NEW bs \in Seq(TextBlock(S)), NEW site, NEW len,
           Separate(site, len, Len(bs)), NEW j \in 0 .. Len(bs)
    PROVE  /\ Stage(bs, file, site, len, j) \in Seq(Seq(S))
           /\ Len(Stage(bs, file, site, len, j)) = Len(file) + 1
<1> DEFINE n == Len(bs)
           d == Len(file) + 1
           Piece_(at) == PieceAfter(bs, file, site, len, j, at)
<1>1. /\ n \in Nat /\ d \in Nat /\ j \in 0 .. n
      /\ \A i \in 1 .. n : bs[i] \in TextBlock(S)
      /\ \A at \in 1 .. Len(file) : file[at] \in S
  BY LenProperties, ElementOfSeq
<1>2. ASSUME NEW at \in 1 .. d PROVE Piece_(at) \in Seq(S)
  <2>1. CASE Starting(site, j, at) # {}
    <3> DEFINE i == AnyOf(Starting(site, j, at))
    <3>1. i \in Starting(site, j, at)
      BY <2>1 DEF AnyOf
    <3> HIDE DEF n
    <3>2. i \in 1 .. n
      BY <1>1, <3>1 DEF Starting
    <3>3. Piece_(at) = bs[i].replace
      BY <2>1 DEF PieceAfter
    <3> HIDE DEF i
    <3> QED BY <1>1, <3>2, <3>3 DEF TextBlock
  <2>2. CASE Starting(site, j, at) = {} /\ (Covering(site, len, j, at) # {} \/ at > Len(file))
    <3>1. Piece_(at) = <<>>
      BY <2>2 DEF PieceAfter
    <3> QED BY <3>1, EmptySeq
  <2>3. CASE Starting(site, j, at) = {} /\ Covering(site, len, j, at) = {} /\ ~(at > Len(file))
    <3>1. Piece_(at) = <<file[at]>>
      BY <2>3 DEF PieceAfter
    <3>2. file[at] \in S
      BY <1>1, <2>3, LenProperties
    <3> QED BY <3>1, <3>2
  <2> QED BY <2>1, <2>2, <2>3
<1> DEFINE stage == [at \in 1 .. d |-> Piece_(at)]
<1>3. stage \in Seq(Seq(S)) /\ Len(stage) = d
  <2> HIDE DEF Piece_, d, n
  <2> QED BY <1>1, <1>2
<1> QED BY <1>3 DEF Stage

(* From one stage to the next, one block is edited.                            *)
LEMMA StageEdited ==
    ASSUME NEW S, NEW file \in Seq(S), NEW bs \in Seq(TextBlock(S)), NEW site, NEW len,
           Separate(site, len, Len(bs)),
           \A i \in 1 .. Len(bs) : /\ len[i] = Len(bs[i].search)
                                   /\ site[i] \in Sites(bs[i].search, file),
           NEW j \in 1 .. Len(bs)
    PROVE  Edited(bs[j], site[j], Stage(bs, file, site, len, j - 1), Stage(bs, file, site, len, j), file)
<1> DEFINE n == Len(bs)
           size == Len(file)
           s == site[j]
           m == len[j]
           pieces == Stage(bs, file, site, len, j - 1)
           others == Stage(bs, file, site, len, j)
<1>1. /\ n \in Nat /\ size \in Nat /\ j \in 1 .. n /\ j \in 0 .. n /\ j - 1 \in 0 .. n
      /\ Separate(site, len, n)
  BY LenProperties
<1>2. s \in Sites(bs[j].search, file) /\ m = Len(bs[j].search)
  OBVIOUS
<1>3. bs[j].search \in Seq(S)
  <2>1. bs[j] \in TextBlock(S)
    BY ElementOfSeq
  <2> QED BY <2>1 DEF TextBlock
<1>4. s \in 1 .. size + 1 /\ s + m - 1 <= size /\ m \in Nat \ {0}
  <2>1. s \in 1 .. size + 1 /\ s + m - 1 <= size
    BY <1>2, <1>3, SitesOf
  <2>2. m \in Nat \ {0}
    BY <1>1 DEF Separate
  <2> QED BY <2>1, <2>2
<1>5. \A at \in 1 .. size + 1 : /\ at \in Nat
                                /\ pieces[at] = PieceAfter(bs, file, site, len, j - 1, at)
                                /\ others[at] = PieceAfter(bs, file, site, len, j, at)
  BY DEF Stage
<1> HIDE DEF n, pieces, others
<1>6. ASSUME NEW at \in 1 .. size + 1, at < s \/ s + m <= at
      PROVE  pieces[at] = others[at]
  <2>1. PieceAfter(bs, file, site, len, j - 1, at) = PieceAfter(bs, file, site, len, j, at)
    BY <1>1, <1>5, <1>6, PieceElsewhere
  <2> QED BY <1>5, <2>1
<1>7. ASSUME NEW at \in s .. s + m - 1 PROVE pieces[at] = <<file[at]>>
  <2>1. at \in 1 .. size + 1 /\ at \in Nat /\ ~(at > size) /\ s <= at /\ at < s + m
    BY <1>1, <1>4
  <2>2. Covering(site, len, j - 1, at) = {}
    <3> SUFFICES ASSUME NEW i \in 1 .. j - 1, site[i] <= at, at < site[i] + len[i] PROVE FALSE
      BY DEF Covering
    <3>1. i \in 1 .. n /\ i # j
      BY <1>1
    <3>2. /\ site[i] \in Nat /\ len[i] \in Nat
          /\ site[i] + len[i] <= s \/ s + m <= site[i]
      BY <1>1, <3>1 DEF Separate
    <3> HIDE DEF s, m
    <3> QED BY <1>4, <2>1, <3>2
  <2>3. PieceAfter(bs, file, site, len, j - 1, at) = <<file[at]>>
    BY <1>1, <2>1, <2>2, PieceIs
  <2> QED BY <1>5, <2>1, <2>3
<1>8. others[s] = bs[j].replace
  <2>1. s \in Nat /\ s \in 1 .. size + 1 /\ j \in 1 .. j
    BY <1>1, <1>4
  <2>2. PieceAfter(bs, file, site, len, j, s) = bs[j].replace
    BY <1>1, <2>1, PieceIs
  <2> QED BY <1>5, <2>1, <2>2
<1>9. ASSUME NEW at \in s + 1 .. s + m - 1 PROVE others[at] = <<>>
  <2>1. at \in 1 .. size + 1 /\ at \in Nat /\ s < at /\ at < s + m /\ s <= at
    BY <1>1, <1>4
  <2>2. j \in Covering(site, len, j, at)
    BY <1>1, <2>1 DEF Covering
  <2>3. Starting(site, j, at) = {}
    <3> SUFFICES ASSUME NEW i \in 1 .. j, site[i] = at PROVE FALSE
      BY DEF Starting
    <3>1. i \in 1 .. n /\ i # j
      BY <1>1, <2>1
    <3>2. /\ site[i] \in Nat /\ len[i] \in Nat \ {0}
          /\ site[i] + len[i] <= s \/ s + m <= site[i]
      BY <1>1, <3>1 DEF Separate
    <3> HIDE DEF s, m
    <3> QED BY <1>4, <2>1, <3>2
  <2>4. PieceAfter(bs, file, site, len, j, at) = <<>>
    BY <2>2, <2>3 DEF PieceAfter
  <2> QED BY <1>5, <2>1, <2>4
<1> DEFINE e == s + m - 1
<1>10. e \in Nat /\ SameOn(pieces, others, 0, s - 1)
  <2>1. \A at \in 0 + 1 .. s - 1 : at \in 1 .. size + 1 /\ at < s
    BY <1>1, <1>4
  <2>2. e \in Nat
    BY <1>4
  <2> QED BY <1>6, <2>1, <2>2 DEF SameOn
<1>11. SymbolsOn(pieces, file, s - 1, e)
  <2>1. (s - 1) + 1 = s
    BY <1>4
  <2> QED BY <1>7, <2>1 DEF SymbolsOn
<1>12. NothingOn(others, s, e)
  BY <1>9 DEF NothingOn
<1>13. SameOn(pieces, others, e, size + 1)
  <2>1. \A at \in e + 1 .. size + 1 : at \in 1 .. size + 1 /\ s + m <= at
    BY <1>1, <1>4
  <2> QED BY <1>6, <2>1 DEF SameOn
<1> QED BY <1>2, <1>8, <1>10, <1>11, <1>12, <1>13 DEF Edited, pieces, others

(* Blocks whose sites are apart make the text that the pieces of all of them   *)
(* join to.                                                                    *)
LEMMA EditsMade ==
    ASSUME NEW S, NEW file \in Seq(S), NEW bs \in Seq(TextBlock(S)), NEW site, NEW len,
           Separate(site, len, Len(bs)), Applies(bs, file),
           \A i \in 1 .. Len(bs) : /\ len[i] = Len(bs[i].search)
                                   /\ site[i] \in Sites(bs[i].search, file)
                                   /\ Borderless(bs[i].search)
    PROVE  Patched(bs, file) = FlattenSeq(Stage(bs, file, site, len, Len(bs)))
<1> DEFINE n == Len(bs)
           size == Len(file)
           stages == [j \in 0 .. n |-> Stage(bs, file, site, len, j)]
<1>1. /\ n \in Nat /\ size \in Nat /\ Len(bs) \in Nat /\ n \in 0 .. n /\ 0 \in 0 .. n
      /\ \A j \in 1 .. n : j \in 0 .. n /\ j - 1 \in 0 .. n
  <2>1. Len(bs) \in Nat /\ size \in Nat
    BY LenProperties
  <2> QED BY <2>1
<1>2. \A j \in 0 .. n : /\ stages[j] = Stage(bs, file, site, len, j)
                        /\ stages[j] \in Seq(Seq(S))
                        /\ Len(stages[j]) = size + 1
  <2> SUFFICES ASSUME NEW j \in 0 .. n
               PROVE  /\ stages[j] = Stage(bs, file, site, len, j)
                      /\ stages[j] \in Seq(Seq(S))
                      /\ Len(stages[j]) = size + 1
    OBVIOUS
  <2>1. stages[j] = Stage(bs, file, site, len, j)
    OBVIOUS
  <2>2. /\ Stage(bs, file, site, len, j) \in Seq(Seq(S))
        /\ Len(Stage(bs, file, site, len, j)) = size + 1
    BY StageType
  <2> HIDE DEF stages
  <2> QED BY <2>1, <2>2
<1>3. \A i \in 1 .. n : bs[i].search # <<>> /\ Borderless(bs[i].search)
  <2> SUFFICES ASSUME NEW i \in 1 .. n PROVE bs[i].search # <<>>
    OBVIOUS
  <2>1. Len(bs[i].search) # 0
    BY DEF Separate
  <2>2. Len(<<>>) = 0
    OBVIOUS
  <2> QED BY <2>1, <2>2, Zenon
<1>4. \A at \in 1 .. size + 1 : stages[0][at] = IF at > size THEN <<>> ELSE <<file[at]>>
  <2> SUFFICES ASSUME NEW at \in 1 .. size + 1
               PROVE  stages[0][at] = IF at > size THEN <<>> ELSE <<file[at]>>
    OBVIOUS
  <2>1. stages[0][at] = PieceAfter(bs, file, site, len, 0, at)
    BY <1>1, <1>2 DEF Stage
  <2>2. Covering(site, len, 0, at) = {} /\ at \in Nat
    BY <1>1 DEF Covering
  <2>3. PieceAfter(bs, file, site, len, 0, at) = IF at > size THEN <<>> ELSE <<file[at]>>
    BY <1>1, <2>2, PieceIs
  <2> QED BY <2>1, <2>3
<1>5. SymbolsOn(stages[0], file, 0, size) /\ stages[0][size + 1] = <<>>
  <2>1. \A at \in 0 + 1 .. size : at \in 1 .. size + 1 /\ ~(at > size)
    BY <1>1
  <2>2. size + 1 \in 1 .. size + 1 /\ size + 1 > size
    BY <1>1
  <2> QED BY <1>4, <2>1, <2>2 DEF SymbolsOn
<1>6. \A j \in 1 .. n : Edited(bs[j], site[j], stages[j - 1], stages[j], file)
  <2> SUFFICES ASSUME NEW j \in 1 .. n
               PROVE  Edited(bs[j], site[j], stages[j - 1], stages[j], file)
    OBVIOUS
  <2>1. Edited(bs[j], site[j], Stage(bs, file, site, len, j - 1), Stage(bs, file, site, len, j), file)
    BY StageEdited
  <2>2. stages[j - 1] = Stage(bs, file, site, len, j - 1)
        /\ stages[j] = Stage(bs, file, site, len, j)
    BY <1>1, <1>2
  <2> QED BY <2>1, <2>2
<1> HIDE DEF stages
<1>7. AfterBlocks(bs, n, file) = Joined(stages[n], size + 1)
  <2>1. EditedByAll(stages, site, bs, file, S)
    BY <1>2, <1>3, <1>5, <1>6, Zenon DEF EditedByAll
  <2> QED BY <2>1, EditsJoin
<1>8. Patched(bs, file) = AfterBlocks(bs, n, file)
  BY <1>1, PatchedWhole
<1>9. FlattenSeq(stages[n]) = Joined(stages[n], size + 1)
  <2>1. stages[n] \in Seq(Seq(S)) /\ Len(stages[n]) = size + 1 /\ Len(stages[n]) # 0
    BY <1>1, <1>2
  <2> QED BY <2>1, FlattenIsJoined
<1> QED BY <1>1, <1>2, <1>7, <1>8, <1>9

-----------------------------------------------------------------------------
(* EditsAsMeant.                                                               *)

(* The symbols of all texts.                                                   *)
Symbols == UNION ({Range(b.search) : b \in Blocks} \cup {Range(b.replace) : b \in Blocks}
                     \cup {Range(file) : file \in Files})

(* Whatever the texts are made of, a candidate's are sequences of these.       *)
LEMMA TextsAreSequences ==
    ASSUME Types
    PROVE  copies.original \in Seq(Symbols) /\ blocks \in Seq(TextBlock(Symbols))
<1> DEFINE file == copies.original
<1>1. \A b \in Blocks : Range(b.search) \subseteq Symbols /\ Range(b.replace) \subseteq Symbols
  BY DEF Symbols
<1>2. \A f \in Files : Range(f) \subseteq Symbols
  BY DEF Symbols
<1>3. \A b \in Blocks : b.search \in Seq(Symbols) /\ b.replace \in Seq(Symbols)
  <2> SUFFICES ASSUME NEW b \in Blocks PROVE b.search \in Seq(Symbols) /\ b.replace \in Seq(Symbols)
    OBVIOUS
  <2>1. b.search \in Seq(Range(b.search)) /\ b.replace \in Seq(Range(b.replace))
    BY CandidateAssumption
  <2> QED BY <1>1, <2>1, SeqMonotonic
<1>4. file \in Seq(Symbols)
  <2>1. file \in Files /\ file \in Seq(Range(file))
    BY CandidateAssumption DEF Types
  <2> QED BY <1>2, <2>1, SeqMonotonic
<1>5. \A text \in Windows(file) : text \in Seq(Symbols)
  <2> SUFFICES ASSUME NEW text \in Windows(file) PROVE text \in Seq(Symbols)
    OBVIOUS
  <2>1. PICK from \in 1 .. Len(file), to \in 1 .. Len(file) : text = SubSeq(file, from, to)
    BY DEF Windows
  <2>2. Len(file) \in Nat /\ \A i \in 1 .. Len(file) : file[i] \in Symbols
    BY <1>4, LenProperties, ElementOfSeq
  <2>3. from \in Int /\ to \in Int /\ \A i \in from .. to : file[i] \in Symbols
    BY <2>2
  <2>4. SubSeq(file, from, to) \in Seq(Symbols)
    BY <2>3, SubSeqProperties
  <2> QED BY <2>1, <2>4
<1>6. AnyBlock \subseteq TextBlock(Symbols)
  BY <1>3, <1>5 DEF AnyBlock, SearchTexts, TextBlock
<1>7. blocks \in Seq(TextBlock(Symbols))
  BY <1>6, SeqMonotonic DEF Types
<1> QED BY <1>4, <1>7

(* Meant, piece by piece.                                                      *)
LEMMA MeantIsStage ==
    ASSUME NEW site, NEW len, Len(blocks) \in Nat,
           \A i \in 1 .. Len(blocks) : site[i] = Site(blocks[i]) /\ len[i] = Len(blocks[i].search)
    PROVE  Meant = FlattenSeq(Stage(blocks, copies.original, site, len, Len(blocks)))
<1>1. ASSUME NEW at
      PROVE  Piece(at) = PieceAfter(blocks, copies.original, site, len, Len(blocks), at)
  <2> DEFINE here == {i \in 1 .. Len(blocks) : Site(blocks[i]) = at}
             over == {i \in 1 .. Len(blocks) :
                         Site(blocks[i]) <= at /\ at < Site(blocks[i]) + Len(blocks[i].search)}
  <2>1. Starting(site, Len(blocks), at) = here
    BY DEF Starting
  <2>2. Covering(site, len, Len(blocks), at) = over
    BY DEF Covering
  <2>3. Piece(at) = IF here # {} THEN blocks[AnyOf(here)].replace
                    ELSE IF over # {} \/ at > Len(copies.original) THEN <<>>
                    ELSE <<copies.original[at]>>
    BY DEF Piece, AnyOf
  <2> HIDE DEF here, over
  <2> QED BY <2>1, <2>2, <2>3 DEF PieceAfter
<1>2. [at \in 1 .. Len(copies.original) + 1 |-> Piece(at)] =
         Stage(blocks, copies.original, site, len, Len(blocks))
  BY <1>1, Zenon DEF Stage
<1> QED BY <1>2, Zenon DEF Meant

(* An empty SEARCH only passes in an empty file, and so with it any block of   *)
(* the candidate; sites are apart only if there is one such block.             *)
LEMMA EmptySearch ==
    ASSUME NEW S, copies.original \in Seq(S), blocks \in Seq(TextBlock(S)),
           Settled(blocks, copies.original), Applies(blocks, copies.original), Apart,
           NEW e \in 1 .. Len(blocks), blocks[e].search = <<>>
    PROVE  Patched(blocks, copies.original) = Meant
<1> DEFINE file == copies.original
           n == Len(blocks)
           size == Len(file)
<1>1. n \in Nat /\ size \in Nat /\ e \in 1 .. n /\ \A i \in 1 .. n : blocks[i] \in TextBlock(S)
  BY LenProperties, ElementOfSeq
<1>2. /\ \A i \in 1 .. n : Unique(blocks[i].search, file)
      /\ \A i \in 1 .. n : blocks[i].search \in Seq(S) /\ blocks[i].replace \in Seq(S)
  BY <1>1 DEF Settled, TextBlock
<1>3. <<>> \in Seq(S) /\ Len(<<>>) = 0
  BY EmptySeq
<1>4. size = 0
  <2> DEFINE sites == Sites(<<>>, file)
             first == First(sites)
  <2>1. Unique(<<>>, file)
    BY <1>2
  <2>2. sites # {} /\ \A at \in sites : at < first + 1
    BY <2>1 DEF Unique
  <2>3. \A at \in 1 .. size + 1 : at \in sites
    <3> SUFFICES ASSUME NEW at \in 1 .. size + 1 PROVE at \in sites
      OBVIOUS
    <3>1. at + 0 - 1 <= size /\ 1 .. 0 = {}
      BY <1>1
    <3> QED BY <1>1, <1>3, <3>1, SiteFrom
  <2>4. sites \in SUBSET Nat
    BY <1>3, SitesOf
  <2> HIDE DEF sites
  <2>5. first \in sites /\ \A at \in sites : first <= at
    BY <2>2, <2>4, FirstIsLeast
  <2> HIDE DEF first
  <2>6. 1 \in sites /\ size + 1 \in sites
    BY <1>1, <2>3
  <2>7. first \in Nat /\ first <= 1 /\ size + 1 < first + 1
    BY <2>2, <2>4, <2>5, <2>6
  <2> QED BY <1>1, <2>7
<1>5. file = <<>>
  BY <1>4, EmptySeq
<1>6. \A i \in 1 .. n : Site(blocks[i]) = 1 /\ Len(blocks[i].search) = 0
  <2> SUFFICES ASSUME NEW i \in 1 .. n PROVE Site(blocks[i]) = 1 /\ Len(blocks[i].search) = 0
    OBVIOUS
  <2> DEFINE text == blocks[i].search
             sites == Sites(text, file)
  <2>1. text \in Seq(S) /\ Len(text) \in Nat
    BY <1>2, LenProperties
  <2>2. sites # {}
    BY <1>2 DEF Unique
  <2>3. sites \in SUBSET Nat
        /\ \A at \in sites : at \in 1 .. size + 1 /\ at + Len(text) - 1 <= size
    BY <2>1, SitesOf
  <2> HIDE DEF sites
  <2> DEFINE at == First(sites)
             m == Len(text)
  <2>4. at \in 1 .. size + 1 /\ at + m - 1 <= size /\ m \in Nat
    BY <2>1, <2>2, <2>3, FirstIsLeast
  <2> HIDE DEF size, at, m
  <2>5. at = 1 /\ m = 0
    BY <1>4, <2>4
  <2> QED BY <2>5 DEF Site, sites, text, at, m
<1>7. n = 1
  <2> SUFFICES ASSUME n # 1 PROVE FALSE
    OBVIOUS
  <2>1. 1 \in 1 .. n /\ 2 \in 1 .. n
    <3> HIDE DEF n
    <3> QED BY <1>1
  <2>2. Site(blocks[1]) # Site(blocks[2])
    BY <2>1 DEF Apart
  <2> QED BY <1>6, <2>1, <2>2
<1> DEFINE b == blocks[1]
<1>8. /\ b \in TextBlock(S) /\ b.search = <<>> /\ b.replace \in Seq(S) /\ Site(b) = 1
      /\ Sites(b.search, file) # {}
  <2>1. 1 \in 1 .. n
    BY <1>7
  <2>2. Len(b.search) = 0
    BY <1>6, <2>1
  <2>3. b.search = <<>>
    BY <1>2, <2>1, <2>2, EmptySeq
  <2>4. Sites(b.search, file) # {}
    BY <1>2, <2>1 DEF Unique
  <2> QED BY <1>1, <1>2, <1>6, <2>1, <2>3, <2>4
<1> HIDE DEF b
<1>9. Patched(blocks, file) = b.replace
  <2>1. AfterBlocks(blocks, 1, file) = Replaced(b, file)
    <3>1. AfterBlocks(blocks, 0, file) = file
      BY AfterBlocksGrows
    <3>2. 1 \in 1 .. n /\ 1 - 1 = 0
      BY <1>7
    <3>3. AfterBlocks(blocks, 1, file) = Replaced(blocks[1], AfterBlocks(blocks, 1 - 1, file))
      BY <3>2, AfterBlocksGrows
    <3> QED BY <3>1, <3>2, <3>3 DEF b
  <2>2. Replaced(b, file) = SubSeq(<<>>, 1, 0) \o b.replace \o SubSeq(<<>>, 1, 0)
    <3>1. First(Sites(b.search, file)) = 1
      BY <1>8 DEF Site
    <3>2. Replaced(b, file) =
             SubSeq(file, 1, 1 - 1) \o b.replace \o SubSeq(file, 1 + Len(b.search), Len(file))
      BY <1>8, <3>1 DEF Replaced
    <3>3. 1 - 1 = 0 /\ 1 + Len(b.search) = 1 /\ Len(file) = 0
      BY <1>3, <1>4, <1>8
    <3> QED BY <1>5, <3>2, <3>3
  <2>3. SubSeq(<<>>, 1, 0) = <<>>
    BY SubSeqEmpty
  <2>4. (<<>> \o b.replace) \o <<>> = b.replace
    BY <1>8, ConcatEmptySeq
  <2>5. Patched(blocks, file) = AfterBlocks(blocks, 1, file)
    BY <1>1, <1>7, PatchedWhole
  <2> QED BY <2>1, <2>2, <2>3, <2>4, <2>5
<1>10. Meant = b.replace
  <2> DEFINE pieces == [at \in 1 .. 1 |-> b.replace]
  <2>1. Piece(1) = b.replace
    <3> DEFINE here == {i \in 1 .. n : Site(blocks[i]) = 1}
    <3>1. here = {1}
      BY <1>6, <1>7
    <3>2. (CHOOSE i \in {1} : TRUE) = 1
      OBVIOUS
    <3>3. here # {} => Piece(1) = blocks[CHOOSE i \in here : TRUE].replace
      BY DEF Piece
    <3> HIDE DEF here
    <3> QED BY <3>1, <3>2, <3>3 DEF b
  <2>2. [at \in 1 .. size + 1 |-> Piece(at)] = pieces
    BY <1>4, <2>1
  <2>3. Meant = FlattenSeq(pieces)
    BY <2>2, Zenon DEF Meant
  <2>4. pieces \in Seq(Seq(S)) /\ Len(pieces) = 1 /\ pieces[1] = b.replace
    BY <1>8
  <2> HIDE DEF pieces
  <2>5. FlattenSeq(pieces) = Joined(pieces, 1)
    <3>1. Len(pieces) # 0
      BY <2>4
    <3>2. FlattenSeq(pieces) = Joined(pieces, Len(pieces))
      BY <2>4, <3>1, FlattenIsJoined
    <3> QED BY <2>4, <3>2
  <2>6. Joined(pieces, 1) = Joined(pieces, 0) \o pieces[1] /\ Joined(pieces, 0) = <<>>
    <3>1. 1 \in 1 .. Len(pieces) /\ 1 - 1 = 0
      BY <2>4
    <3> QED BY <2>4, <3>1, JoinedGrows
  <2> QED BY <1>8, <2>3, <2>4, <2>5, <2>6, ConcatEmptySeq
<1> QED BY <1>9, <1>10

(* Blocks that are all found, once, at sites that are apart and by texts that  *)
(* cannot overlap themselves, make the edit that is meant.                     *)
LEMMA ApartMakesMeant ==
    ASSUME NEW S, copies.original \in Seq(S), blocks \in Seq(TextBlock(S)),
           Settled(blocks, copies.original), Applies(blocks, copies.original), Apart,
           \A i \in 1 .. Len(blocks) : Borderless(blocks[i].search),
           \A i \in 1 .. Len(blocks) : blocks[i].search # <<>>
    PROVE  Patched(blocks, copies.original) = Meant
<1> DEFINE file == copies.original
           n == Len(blocks)
           site == [i \in 1 .. n |-> Site(blocks[i])]
           len == [i \in 1 .. n |-> Len(blocks[i].search)]
<1>1. /\ n \in Nat /\ Len(blocks) \in Nat
      /\ \A i \in 1 .. n : blocks[i].search \in Seq(S)
  <2>1. \A i \in 1 .. n : blocks[i] \in TextBlock(S)
    BY ElementOfSeq
  <2> QED BY <2>1, LenProperties DEF TextBlock
<1>2. \A i \in 1 .. n : site[i] = Site(blocks[i]) /\ len[i] = Len(blocks[i].search)
  OBVIOUS
<1>3. ASSUME NEW i \in 1 .. n
      PROVE  /\ Site(blocks[i]) \in Sites(blocks[i].search, file)
             /\ Site(blocks[i]) \in Nat /\ Len(blocks[i].search) \in Nat \ {0}
  <2> DEFINE text == blocks[i].search
             sites == Sites(text, file)
  <2>1. text \in Seq(S) /\ text # <<>>
    BY <1>1
  <2>2. sites # {}
    BY DEF Settled, Unique
  <2>3. sites \in SUBSET Nat
    BY <2>1, SitesOf
  <2>4. Len(text) \in Nat \ {0}
    <3> HIDE DEF text
    <3> QED BY <2>1, LenProperties, EmptySeq
  <2> HIDE DEF sites
  <2>5. First(sites) \in sites
    BY <2>2, <2>3, FirstIsLeast
  <2>6. First(sites) \in Nat
    BY <2>3, <2>5
  <2> QED BY <2>4, <2>5, <2>6 DEF Site, sites
<1> HIDE DEF site, len
<1>4. Separate(site, len, n)
  <2>1. \A i \in 1 .. n : site[i] \in Nat /\ len[i] \in Nat \ {0}
    BY <1>2, <1>3
  <2>2. \A i, j \in 1 .. n : i # j => \/ site[i] + len[i] <= site[j]
                                      \/ site[j] + len[j] <= site[i]
    <3> SUFFICES ASSUME NEW i \in 1 .. n, NEW j \in 1 .. n, i # j
                 PROVE  site[i] + len[i] <= site[j] \/ site[j] + len[j] <= site[i]
      OBVIOUS
    <3>1. \/ Site(blocks[i]) + Len(blocks[i].search) <= Site(blocks[j])
          \/ Site(blocks[j]) + Len(blocks[j].search) <= Site(blocks[i])
      BY DEF Apart
    <3>2. /\ site[i] = Site(blocks[i]) /\ len[i] = Len(blocks[i].search)
          /\ site[j] = Site(blocks[j]) /\ len[j] = Len(blocks[j].search)
      BY <1>2
    <3> QED BY <3>1, <3>2, Zenon
  <2> QED BY <2>1, <2>2, Zenon DEF Separate
<1>5. \A i \in 1 .. n : /\ len[i] = Len(blocks[i].search)
                        /\ site[i] \in Sites(blocks[i].search, file)
                        /\ Borderless(blocks[i].search)
  BY <1>2, <1>3
<1>6. Patched(blocks, file) = FlattenSeq(Stage(blocks, file, site, len, n))
  BY <1>4, <1>5, EditsMade
<1>7. Meant = FlattenSeq(Stage(blocks, file, site, len, n))
  BY <1>1, <1>2, MeantIsStage
<1> QED BY <1>6, <1>7, Zenon

(* From the prescreen on, the blocks are what it tested, also once they are    *)
(* accepted.                                                                   *)
EditInv ==
    pc \in {"evaluate", "rank", "accepted"} =>
        /\ Settled(blocks, copies.original)
        /\ Applies(blocks, copies.original)
        /\ copies.tested = Patched(blocks, copies.original)

LEMMA EditsKept ==
    ASSUME CandidateInv, CandidateInv', EditInv, [Next]_vars
    PROVE  EditInv'
<1>1. CASE pc' \in {"evaluate", "rank"}
  <2>1. CopiesInv'
    BY DEF CandidateInv
  <2> QED BY <1>1, <2>1 DEF CopiesInv, EditInv
<1>2. CASE pc' = "accepted"
  <2>1. pc \in {"rank", "accepted"} /\ UNCHANGED <<blocks, copies>>
    BY <1>2 DEF Next, vars, Go, dialogueVars, CallsTools, AnswersWithCandidate,
           AnswersWithNothing, AnswerLost, Overflows, CallFails, Prescreen, PrescreenFails,
           Evaluate, EvaluateFails, Remeasure, Accept, AcceptInterrupted, Turndown, Ended
  <2> QED BY <2>1 DEF EditInv
<1>3. CASE pc' \notin {"evaluate", "rank", "accepted"}
  BY <1>3 DEF EditInv
<1> QED BY <1>1, <1>2, <1>3

(* Whatever validation corrects and whatever the files and blocks are, what    *)
(* the prescreen tested is the original with the settled blocks applied.       *)
THEOREM EditInvariant == Spec => []EditInv
<1>1. Init => EditInv
  BY DEF Init, EditInv
<1>2. CandidateInv /\ CandidateInv' /\ EditInv /\ [Next]_vars => EditInv'
  BY EditsKept
<1> QED BY <1>1, <1>2, CandidateInvariant, PTL DEF Spec

(* A SEARCH that validate_patch lets pass has one site, or sites that overlap; *)
(* and blocks whose sites are apart edit what they were validated for, although*)
(* apply_patch looks for each in what those before it have made of the file.   *)
THEOREM EditsAreAsMeant == Spec => []EditsAsMeant
<1>1. CandidateInv /\ EditInv => EditsAsMeant
  <2> SUFFICES ASSUME CandidateInv, EditInv, pc \in {"evaluate", "rank", "accepted"}
               PROVE  /\ \A i \in 1 .. Len(blocks) :
                            LET text == blocks[i].search
                            IN  \A at, other \in Sites(text, copies.original) :
                                    at < other => other - at < Len(text)
                      /\ Apart /\ (\A i \in 1 .. Len(blocks) : Borderless(blocks[i].search)) =>
                            copies.tested = Meant
    BY Zenon DEF EditsAsMeant
  <2>1. /\ copies.original \in Seq(Symbols) /\ blocks \in Seq(TextBlock(Symbols))
        /\ Settled(blocks, copies.original) /\ Applies(blocks, copies.original)
        /\ copies.tested = Patched(blocks, copies.original)
    BY TextsAreSequences DEF CandidateInv, EditInv
  <2>2. ASSUME NEW i \in 1 .. Len(blocks),
               NEW at \in Sites(blocks[i].search, copies.original),
               NEW other \in Sites(blocks[i].search, copies.original), at < other
        PROVE  other - at < Len(blocks[i].search)
    <3>1. blocks[i] \in TextBlock(Symbols)
      BY <2>1, ElementOfSeq
    <3>2. blocks[i].search \in Seq(Symbols) /\ Unique(blocks[i].search, copies.original)
      BY <2>1, <3>1 DEF TextBlock, Settled
    <3> QED BY <2>1, <2>2, <3>2, UniqueOverlap
  <2>3. ASSUME Apart, \A i \in 1 .. Len(blocks) : Borderless(blocks[i].search)
        PROVE  copies.tested = Meant
    <3>1. CASE \E i \in 1 .. Len(blocks) : blocks[i].search = <<>>
      BY <2>1, <2>3, <3>1, EmptySearch
    <3>2. CASE \A i \in 1 .. Len(blocks) : blocks[i].search # <<>>
      BY <2>1, <2>3, <3>2, ApartMakesMeant
    <3> QED BY <3>1, <3>2
  <2> QED BY <2>2, <2>3, Zenon
<1> QED BY <1>1, CandidateInvariant, EditInvariant, PTL
=============================================================================
