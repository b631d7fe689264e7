----------------------------- MODULE Candidate -----------------------------
(* One candidate, from the question to the edited workspace: the dialogue with *)
(* the provider (phases.generate.run, tool_loop.run_tool_loop), the parsing of *)
(* the answer, the validation of its SEARCH/REPLACE blocks against the live    *)
(* file and their application to the prescreen's copy, the copies that are     *)
(* measured and, when it is accepted, the live workspace (optimizers.patch).   *)
(*                                                                             *)
(* A text is a sequence of symbols; blocks of different files do not touch, so *)
(* there is one file.                                                          *)
EXTENDS Integers, Sequences, FiniteSets, SequencesExt

CONSTANTS
    Files,                  \* contents the live file may have
    Blocks,                 \* the blocks a model may write
    MaxBlocks,              \* bound: blocks of one candidate
    MaxTurns,               \* run_tool_loop(max_turns)
    Usages                  \* what a call may cost; nothing for a provider that does not say

ASSUME CandidateAssumption ==
    /\ MaxBlocks \in Nat \ {0}
    /\ MaxTurns \in Nat
    /\ Usages \subseteq Nat /\ Usages # {}
    /\ \A b \in Blocks : /\ b = [search |-> b.search, replace |-> b.replace]
                         /\ b.search \in Seq(Range(b.search))
                         /\ b.replace \in Seq(Range(b.replace))
    /\ \A file \in Files : file \in Seq(Range(file))

VARIABLES
    tools,                  \* provider.supports_tools()
    pc,                     \* the place the iteration is at
    dialogue,               \* the attempt, its turn and the usage it has summed up
    charged,                \* ctx.total_input_tokens and total_output_tokens
    bill,                   \* history: calls made, and what those of each attempt cost
    blocks,                 \* the candidate's blocks, which validation corrects in place
    live,                   \* the file in the workspace
    copies                  \* history: the file as it was, and in each copy that was judged

vars == <<tools, pc, dialogue, charged, bill, blocks, live, copies>>

dialogueVars == <<dialogue, charged, bill>>

Unpatched == "unpatched"

Init ==
    /\ tools \in BOOLEAN
    /\ pc = "ask"
    /\ dialogue = [attempt |-> 1, turn |-> 0, usage |-> 0]
    /\ charged = 0
    /\ bill = [calls |-> 0, first |-> 0, second |-> 0]
    /\ blocks = <<>>
    /\ live \in Files
    /\ copies = [original |-> live, tested |-> Unpatched, measured |-> Unpatched,
                 paired |-> Unpatched]

Go(place) == pc' = place

-----------------------------------------------------------------------------
(* The dialogue.  A model may ask for tools MaxTurns times; then it is asked   *)
(* once more and offered none.  A tool that fails answers with its error.      *)

Billed(u) ==
    bill' = IF dialogue.attempt = 1
              THEN [bill EXCEPT !.calls = @ + 1, !.first = @ + u]
              ELSE [bill EXCEPT !.calls = @ + 1, !.second = @ + u]

(* Mutant: tools are offered in the last call as well.                         *)
ToolsAlwaysOffered == tools

ToolsOffered == tools /\ dialogue.turn < MaxTurns

CallsTools ==
    /\ pc = "ask"
    /\ ToolsOffered
    /\ \E u \in Usages :
          /\ Billed(u)
          /\ dialogue' = [dialogue EXCEPT !.turn = @ + 1, !.usage = @ + u]
    /\ UNCHANGED <<tools, pc, charged, blocks, live, copies>>

(* Mutant: the usage of the turn that answers stands for the whole loop.       *)
LastUsage(u) == u

TotalUsage(u) == dialogue.usage + u

(* What is left of an answer that was cut off in its last block.               *)
Parsed(answer, cut) == IF cut THEN Front(answer) ELSE answer

Answers(u) ==
    /\ Billed(u)
    /\ charged' = charged + TotalUsage(u)
    /\ dialogue' = [dialogue EXCEPT !.usage = 0]
    /\ UNCHANGED <<tools, live, copies>>

AnswersWithCandidate ==
    /\ pc = "ask"
    /\ \E u \in Usages : Answers(u)
    /\ \E n \in 1 .. MaxBlocks, cut \in BOOLEAN :
          \E answer \in [1 .. n -> Blocks] :
              /\ Parsed(answer, cut) # <<>>
              /\ blocks' = Parsed(answer, cut)
    /\ Go("prescreen")

(* No block, or the only one was cut off.                                      *)
AnswersWithNothing ==
    /\ pc = "ask"
    /\ \E u \in Usages : Answers(u)
    /\ Go("nothing")
    /\ UNCHANGED blocks

(* The tokens are charged, and an exception follows before anything is made of *)
(* the answer: in the parser, or writing the event log.                        *)
AnswerLost ==
    /\ pc = "ask"
    /\ \E u \in Usages : Answers(u)
    /\ Go("lost")
    /\ UNCHANGED blocks

(* The prompt did not fit: it is halved and the dialogue starts over, once.    *)
(* What the first attempt has spent is summed up nowhere.                      *)
Overflows ==
    /\ pc = "ask"
    /\ dialogue.attempt = 1
    /\ dialogue' = [attempt |-> 2, turn |-> 0, usage |-> 0]
    /\ UNCHANGED <<tools, pc, charged, bill, blocks, live, copies>>

(* Any other exception leaves the run in the first attempt, and only skips the *)
(* iteration in the second.                                                    *)
CallFails ==
    /\ pc = "ask"
    /\ Go(IF dialogue.attempt = 1 THEN "raised" ELSE "skipped")
    /\ UNCHANGED <<tools, dialogueVars, blocks, live, copies>>

-----------------------------------------------------------------------------
(* Texts.                                                                      *)

Occurs(text, at, file) ==
    /\ at + Len(text) - 1 <= Len(file)
    /\ SubSeq(file, at, at + Len(text) - 1) = text

(* Every place a text is at, overlapping ones too; the empty one is everywhere.*)
Sites(text, file) == {at \in 1 .. Len(file) + 1 : Occurs(text, at, file)}

First(S) == CHOOSE at \in S : \A other \in S : at <= other

(* str.count finds the text once: it goes on where the first occurrence ends,  *)
(* so others may only be there if they overlap that one.                       *)
Unique(text, file) ==
    LET sites == Sites(text, file)
        next  == First(sites) + IF text = <<>> THEN 1 ELSE Len(text)
    IN  sites # {} /\ \A at \in sites : at < next

(* str.replace(search, replace, 1), which does nothing when nothing matches.   *)
Replaced(b, file) ==
    LET at == First(Sites(b.search, file))
    IN  IF Sites(b.search, file) = {} THEN file
        ELSE SubSeq(file, 1, at - 1) \o b.replace
                 \o SubSeq(file, at + Len(b.search), Len(file))

(* Mutant: a text that matches more than once is replaced where it comes first.*)
ApplicableUnchecked(b, file) == TRUE

Applicable(b, file) == Sites(b.search, file) = {} \/ Unique(b.search, file)

-----------------------------------------------------------------------------
(* validate_patch and apply_patch.                                             *)

(* The regions a near miss may be corrected to: which is the nearest, and      *)
(* whether it is near enough, is left open.                                    *)
Windows(file) ==
    {SubSeq(file, from, to) : from \in 1 .. Len(file), to \in 1 .. Len(file)} \ {<<>>}

(* A block as it leaves its validation: nothing if it is refused.  Every block *)
(* is held against the live file, not against what the blocks before it make   *)
(* of it.                                                                      *)
Validated(b) ==
    LET texts == IF Sites(b.search, live) # {} THEN {b.search} ELSE Windows(live)
    IN  {[b EXCEPT !.search = text] : text \in {t \in texts : Unique(t, live)}}

Validations(bs) ==
    LET validated == [i \in 1 .. Len(bs) |-> Validated(bs[i])]
    IN  {v \in [1 .. Len(bs) -> UNION {validated[i] : i \in 1 .. Len(bs)}] :
            \A i \in 1 .. Len(bs) : v[i] \in validated[i]}

(* The states of a file as the blocks are applied one after another.           *)
AfterBlocks(bs, n, file) ==
    LET text[k \in 0 .. Len(bs)] ==
            IF k = 0 THEN file ELSE Replaced(bs[k], text[k - 1])
    IN  text[n]

Applies(bs, file) ==
    \A i \in 1 .. Len(bs) : Applicable(bs[i], AfterBlocks(bs, i - 1, file))

(* apply_patch: it writes block after block, and raises at an ambiguous one.   *)
Reached(bs, file) ==
    Cardinality({n \in 1 .. Len(bs) :
                    \A i \in 1 .. n : Applicable(bs[i], AfterBlocks(bs, i - 1, file))})

Patched(bs, file) == AfterBlocks(bs, Reached(bs, file), file)

-----------------------------------------------------------------------------
(* Mutant: validation corrects a copy of the blocks.                           *)
PrescreenForgetful ==
    /\ pc = "prescreen"
    /\ \E v \in Validations(blocks) :
          /\ Applies(v, live)
          /\ copies' = [copies EXCEPT !.tested = Patched(v, live)]
    /\ Go("evaluate")
    /\ UNCHANGED <<tools, dialogueVars, blocks, live>>

(* The prescreen: its copy is built and tested.                                *)
Prescreen ==
    /\ pc = "prescreen"
    /\ \E v \in Validations(blocks) :
          /\ Applies(v, live)
          /\ blocks' = v
          /\ copies' = [copies EXCEPT !.tested = Patched(v, live)]
    /\ Go("evaluate")
    /\ UNCHANGED <<tools, dialogueVars, live>>

(* Refused by the policy or for its SEARCH texts, or an ambiguous SEARCH met   *)
(* on the way, or the build or the tests.                                      *)
PrescreenFails ==
    /\ pc = "prescreen"
    /\ Go("rejected")
    /\ UNCHANGED <<tools, dialogueVars, blocks, live, copies>>

(* The evaluation validates once more, and measures a copy of its own.         *)
Evaluate ==
    /\ pc = "evaluate"
    /\ \E v \in Validations(blocks) :
          /\ Applies(v, live)
          /\ blocks' = v
          /\ copies' = [copies EXCEPT !.measured = Patched(v, live)]
    /\ Go("rank")
    /\ UNCHANGED <<tools, dialogueVars, live>>

EvaluateFails ==
    /\ pc = "evaluate"
    /\ Go("rejected")
    /\ UNCHANGED <<tools, dialogueVars, blocks, live, copies>>

(* The second measurement of the paired rule, the sanitizer: copies again, of  *)
(* blocks nobody validates any more.                                           *)
Remeasure ==
    /\ pc = "rank"
    /\ copies.paired = Unpatched
    /\ Applies(blocks, live)
    /\ copies' = [copies EXCEPT !.paired = Patched(blocks, live)]
    /\ UNCHANGED <<tools, pc, dialogueVars, blocks, live>>

(* In the live workspace what was written before an exception stays.           *)
Accept ==
    /\ pc = "rank"
    /\ live' = Patched(blocks, live)
    /\ Go(IF Applies(blocks, live) THEN "accepted" ELSE "ambiguous")
    /\ UNCHANGED <<tools, dialogueVars, blocks, copies>>

(* What a write of one of the blocks may leave: write_text empties the file    *)
(* and fills it again.                                                         *)
Torn(bs, file) ==
    UNION {{SubSeq(text, 1, k) : k \in 0 .. Len(text)} :
              text \in {AfterBlocks(bs, n, file) : n \in 1 .. Reached(bs, file)}}

(* A Ctrl-C, or an error of the disk, before or in one of the writes.          *)
AcceptInterrupted ==
    /\ pc = "rank"
    /\ live' \in {live} \cup Torn(blocks, live)
    /\ Go("interrupted")
    /\ UNCHANGED <<tools, dialogueVars, blocks, copies>>

Turndown ==
    /\ pc = "rank"
    /\ Go("rejected")
    /\ UNCHANGED <<tools, dialogueVars, blocks, live, copies>>

Over == {"accepted", "ambiguous", "interrupted", "rejected", "nothing", "lost", "skipped",
         "raised"}

Ended == pc \in Over /\ UNCHANGED vars

Next ==
    \/ CallsTools \/ AnswersWithCandidate \/ AnswersWithNothing \/ AnswerLost
    \/ Overflows \/ CallFails
    \/ Prescreen \/ PrescreenFails \/ Evaluate \/ EvaluateFails
    \/ Remeasure \/ Accept \/ AcceptInterrupted \/ Turndown
    \/ Ended

Spec == Init /\ [][Next]_vars

-----------------------------------------------------------------------------
(* Properties.                                                                 *)

TypeOK ==
    /\ tools \in BOOLEAN
    /\ pc \in Over \cup {"ask", "prescreen", "evaluate", "rank"}
    /\ dialogue \in [attempt : {1, 2}, turn : 0 .. MaxTurns, usage : Nat]
    /\ charged \in Nat
    /\ bill \in [calls : Nat, first : Nat, second : Nat]
    /\ Len(blocks) <= MaxBlocks
    /\ \A i \in 1 .. Len(blocks) :
          /\ blocks[i].replace \in {b.replace : b \in Blocks}
          /\ blocks[i].search \in {b.search : b \in Blocks} \cup Windows(copies.original)
    /\ copies.original \in Files

(* The run is charged for every call of the attempt that answered, also when   *)
(* the answer is lost, and for none of one that overflowed or failed; and no   *)
(* model can keep it asking: an attempt is over after MaxTurns + 1 calls.      *)
ChargedForAnswer ==
    /\ charged = IF pc \in {"ask", "skipped", "raised"} THEN 0
                 ELSE IF dialogue.attempt = 1 THEN bill.first ELSE bill.second
    /\ bill.calls <= 2 * (MaxTurns + 1)

(* The sites of the blocks in the file they were validated against, no two of  *)
(* which share a symbol.                                                       *)
Site(b) == First(Sites(b.search, copies.original))

Apart ==
    \A i, j \in 1 .. Len(blocks) :
        i # j => /\ Site(blocks[i]) # Site(blocks[j])
                 /\ \/ Site(blocks[i]) + Len(blocks[i].search) <= Site(blocks[j])
                    \/ Site(blocks[j]) + Len(blocks[j].search) <= Site(blocks[i])

(* No two copies of the text can overlap.                                      *)
Borderless(text) ==
    \A k \in 1 .. Len(text) - 1 :
        SubSeq(text, 1, k) # SubSeq(text, Len(text) - k + 1, Len(text))

(* The edit the blocks describe when all are made at once.                     *)
Piece(at) ==
    LET here == {i \in 1 .. Len(blocks) : Site(blocks[i]) = at}
        over == {i \in 1 .. Len(blocks) :
                    Site(blocks[i]) <= at /\ at < Site(blocks[i]) + Len(blocks[i].search)}
    IN  IF here # {} THEN blocks[CHOOSE i \in here : TRUE].replace
        ELSE IF over # {} \/ at > Len(copies.original) THEN <<>>
        ELSE <<copies.original[at]>>

Meant == FlattenSeq([at \in 1 .. Len(copies.original) + 1 |-> Piece(at)])

(* A SEARCH that passes has one site, or sites that all overlap; and blocks    *)
(* whose sites are apart, with texts that cannot overlap themselves, edit what *)
(* they were validated for and nothing else, although each is applied to what  *)
(* those before it have made of the file.                                      *)
EditsAsMeant ==
    pc \in {"evaluate", "rank", "accepted"} =>
        /\ \A i \in 1 .. Len(blocks) :
              LET text == blocks[i].search
              IN  \A at, other \in Sites(text, copies.original) :
                      at < other => other - at < Len(text)
        /\ Apart /\ (\A i \in 1 .. Len(blocks) : Borderless(blocks[i].search)) =>
              copies.tested = Meant

(* What an accept leaves in the live workspace is what was built, tested and   *)
(* measured, and no accept stops at a SEARCH: blocks that applied to the copies*)
(* apply to the live file.  Until then the live file is what it was, also when *)
(* the iteration is lost.  Only an accept cut short by a Ctrl-C or by the disk *)
(* may leave something else.                                                   *)
LiveIsWhatWasJudged ==
    /\ pc # "ambiguous"
    /\ pc = "accepted" => /\ live = copies.tested /\ live = copies.measured
                          /\ copies.paired \in {live, Unpatched}
    /\ pc \notin {"accepted", "interrupted"} => live = copies.original
=============================================================================
