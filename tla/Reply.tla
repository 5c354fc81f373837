-------------------------------- MODULE Reply --------------------------------
(***************************************************************************)
(* One model call of a turn: the walk along the escalation chain           *)
(* (run_turn_inner), the streamed reply of a provider and how the gateway  *)
(* puts it together (gateway/src/lib.rs for OpenAI-compatible providers,   *)
(* anthropic.rs for Anthropic), and the verdict on each tool call.         *)
(*                                                                         *)
(* The gateway handles the frames in the order they are sent and loses a   *)
(* suffix of them when the connection ends early, so that sending a frame  *)
(* and handling it is one step.  The arguments of a call come in pieces:   *)
(* the tokens of its command, then Brace, which makes them parse.          *)
(***************************************************************************)
EXTENDS Policy

CONSTANTS
  Chain,             \* the kind of the provider of each tier
  Tools,             \* the tools a model asks for
  SessionKind,       \* meta.kind
  AutoApproveEdits,  \* cfg.policy.auto_approve_edits
  Brace,             \* the piece that ends the arguments of a call
  MaxCalls, MaxPieces, MaxText  \* bounds of the model, per tier

Kinds == {"openai", "anthropic"}

ASSUME ReplyAssumption ==
  /\ Chain \in Seq(Kinds) /\ Chain # <<>>
  /\ Brace \notin Tokens
  /\ AutoApproveEdits \in BOOLEAN
  /\ MaxCalls \in Nat /\ MaxPieces \in Nat /\ MaxText \in Nat

VARIABLES
  pc,        \* the call: "stream", "judge", "done" or "failed"
  tier,      \* tier_idx, from 1
  said,      \* what the provider of this tier has sent: text and calls
  content, calls, usage,  \* the accumulators of chat_stream
  shown,     \* the tiers of the text deltas broadcast
  errors,    \* the error events, by the tier escalated to
  verdicts   \* of the calls taken so far: the command and its verdict

vars == <<pc, tier, said, content, calls, usage, shown, errors, verdicts>>

NoCall == [tool |-> "unnamed", args |-> <<>>]
Last(s) == s[Len(s)]

Init ==
  /\ pc = "stream" /\ tier = 1
  /\ said = [text |-> 0, calls |-> <<>>]
  /\ content = <<>> /\ calls = <<>> /\ usage = {}
  /\ shown = <<>> /\ errors = <<>> /\ verdicts = <<>>

-----------------------------------------------------------------------------
(* The provider sends a frame, and the gateway handles it.                 *)

Sends ==
  /\ pc = "stream"
  /\ UNCHANGED <<pc, tier, errors, verdicts>>

Text ==
  /\ Sends
  /\ said.text < MaxText
  /\ said' = [said EXCEPT !.text = @ + 1]
  /\ content' = Append(content, tier)
  /\ shown' = Append(shown, tier)
  /\ UNCHANGED <<calls, usage>>

\* Every provider's pieces go to the last call.
EntryLast(i) == Len(calls)

\* OpenAI names a call by its index, and the vector grows up to it; Anthropic's
\* calls come one after the other, and a piece belongs to the last.
Entry(i) == IF Chain[tier] = "openai" THEN i ELSE Len(calls)

Grown(i) ==
  [n \in 1 .. IF i > Len(calls) THEN i ELSE Len(calls) |->
     IF n \in DOMAIN calls THEN calls[n] ELSE NoCall]

StartCall ==
  /\ Sends
  /\ Len(said.calls) < MaxCalls
  /\ \E tool \in Tools :
       LET i == Len(said.calls) + 1
       IN  /\ said' = [said EXCEPT !.calls = Append(@, [tool |-> tool, args |-> <<>>])]
           /\ calls' = IF Chain[tier] = "openai"
                       THEN [Grown(i) EXCEPT ![i].tool = tool]
                       ELSE Append(calls, [tool |-> tool, args |-> <<>>])
  /\ UNCHANGED <<content, usage, shown>>

Parses(args) == args # <<>> /\ Last(args) = Brace

Pieces ==
  LET f[i \in 0 .. Len(said.calls)] ==
        IF i = 0 THEN 0 ELSE f[i - 1] + Len(SelectSeq(said.calls[i].args, LAMBDA p : p # Brace))
  IN  f[Len(said.calls)]

Piece ==
  /\ Sends
  /\ \E i \in DOMAIN said.calls :
       /\ Chain[tier] = "anthropic" => i = Len(said.calls)
       /\ ~Parses(said.calls[i].args)
       /\ \E p \in Tokens \cup {Brace} :
            /\ p # Brace => said.calls[i].tool = "terminal" /\ Pieces < MaxPieces
            /\ said' = [said EXCEPT !.calls[i].args = Append(@, p)]
            /\ LET n == Entry(i)
               IN  calls' = IF n \in DOMAIN calls
                            THEN [calls EXCEPT ![n].args = Append(@, p)]
                            ELSE calls
  /\ UNCHANGED <<content, usage, shown>>

\* OpenAI sends both counts at the end; Anthropic the prompt's first.
Usage ==
  /\ Sends
  /\ IF Chain[tier] = "openai" THEN usage' = {"prompt", "completion"}
     ELSE \E part \in {"prompt", "completion"} : usage' = usage \cup {part}
  /\ usage' # usage
  /\ UNCHANGED <<said, content, calls, shown>>

\* The stop marker, or the end of the stream without one.
StreamEnds ==
  /\ pc = "stream"
  /\ pc' = IF calls = <<>> THEN "done" ELSE "judge"
  /\ UNCHANGED <<tier, said, content, calls, usage, shown, errors, verdicts>>

-----------------------------------------------------------------------------
(* An HTTP status, or an error of the connection at any time: the next     *)
(* tier is asked from the beginning, with fresh accumulators.              *)

\* After the last tier, the first again.
NextTierWraps == IF tier < Len(Chain) THEN {tier + 1} ELSE {1}

NextTier == IF tier < Len(Chain) THEN {tier + 1} ELSE {}

\* The next tier goes on with what the failed one has sent.
AccumulatorsKept == UNCHANGED <<content, calls, usage>>

FreshAccumulators == content' = <<>> /\ calls' = <<>> /\ usage' = {}

TransportError ==
  /\ pc = "stream"
  /\ IF NextTier = {}
     THEN pc' = "failed" /\ errors' = Append(errors, 0) /\ UNCHANGED tier
     ELSE \E next \in NextTier :
            tier' = next /\ errors' = Append(errors, next) /\ UNCHANGED pc
  /\ said' = [text |-> 0, calls |-> <<>>]
  /\ FreshAccumulators
  /\ UNCHANGED <<shown, verdicts>>

-----------------------------------------------------------------------------
(* The turn takes the calls in order.                                      *)

\* Arguments that do not parse are taken for none.
Command(args) == IF Parses(args) THEN SubSeq(args, 1, Len(args) - 1) ELSE <<>>

VerdictFor(tool, command) ==
  CASE tool \in {"read_file", "list_dir", "search"} -> "auto"
    [] tool = "edit_file" -> IF AutoApproveEdits THEN "auto" ELSE "ask"
    [] tool = "terminal"  -> Check(command)
    [] tool \in {"dispatch_subagent", "steer_subagent", "run_gate"} ->
         IF SessionKind = "orchestrator" THEN "auto" ELSE "deny"
    [] OTHER -> "deny"

Judge ==
  /\ pc = "judge"
  /\ LET call    == calls[Len(verdicts) + 1]
         command == Command(call.args)
     IN  verdicts' = Append(verdicts, [command |-> command,
                                       verdict |-> VerdictFor(call.tool, command)])
  /\ pc' = IF Len(verdicts') = Len(calls) THEN "done" ELSE "judge"
  /\ UNCHANGED <<tier, said, content, calls, usage, shown, errors>>

Next ==
  \/ Text \/ StartCall \/ Piece \/ Usage \/ StreamEnds \/ TransportError \/ Judge

Spec == Init /\ [][Next]_vars

-----------------------------------------------------------------------------
Call == [tool : Tools \cup {"unnamed"}, args : Seq(Tokens \cup {Brace})]

\* Types; each escalation went one tier up.
TypeOK ==
  /\ pc \in {"stream", "judge", "done", "failed"}
  /\ tier \in 1 .. Len(Chain)
  /\ said \in [text : 0 .. MaxText, calls : Seq(Call)]
  /\ content \in Seq(DOMAIN Chain) /\ calls \in Seq(Call)
  /\ usage \subseteq {"prompt", "completion"}
  /\ shown \in Seq(DOMAIN Chain)
  /\ errors \in Seq(0 .. Len(Chain))
  /\ Len(errors) = tier - 1 + (IF pc = "failed" THEN 1 ELSE 0)
  /\ verdicts \in Seq([command : Seq(Tokens), verdict : Actions])
  /\ Len(verdicts) <= Len(calls)

\* A reply is what one provider sent: nothing of a tier that failed is in its
\* text or its calls, no piece of one call is in another's, and the human was
\* shown its whole text, after that of the tiers that failed.
ReplyOfOneTier ==
  /\ calls = said.calls
  /\ Len(content) = said.text /\ \A i \in DOMAIN content : content[i] = tier
  /\ pc # "failed" =>
       /\ Len(content) <= Len(shown)
       /\ \A i \in DOMAIN shown :
            IF i > Len(shown) - Len(content) THEN shown[i] = tier ELSE shown[i] < tier

\* A command that runs, or that a human is asked about, is one a provider sent
\* whole: a stream that ends early never leaves a shorter command to run.
CommandWhole ==
  \A n \in DOMAIN verdicts :
    said.calls[n].tool = "terminal" /\ verdicts[n].verdict # "deny" =>
      Append(verdicts[n].command, Brace) = said.calls[n].args

\* The verdict on a command line is the stricter of the verdicts on its parts,
\* wherever an operator divides it: nothing is cleared by the company it comes
\* in.  The operators that divide a line are those outside the quotes the
\* splitter sees, and if no escaped quote comes before it every operator outside
\* the quotes shell_words sees.  After an escaped quote the two may disagree: an
\* operator that the splitter takes for quoted does not divide the line, which
\* is judged by the command it begins with.  So is any line that no operator
\* divides.
StrictestWins ==
  \A n \in DOMAIN verdicts :
    LET command  == verdicts[n].command
        Left(k)  == SubSeq(command, 1, k - 1)
        Right(k) == SubSeq(command, k + 1, Len(command))
        divides  == {k \in DOMAIN command : command[k] \in Operators /\
                       \/ OpenQuote(command)[k - 1] = "none"
                       \/ TokensIn(Left(k)) \cap Escaped = {} /\ Parsable(Left(k))}
    IN  /\ \A k \in divides :
             Check(command) = Strictest({Check(Left(k)), Check(Right(k))})
        /\ divides = {} /\ TokensIn(command) \cap Substitution = {} =>
             Check(command) = SegmentVerdict(command)

=============================================================================
