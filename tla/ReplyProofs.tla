---------------------------- MODULE ReplyProofs -----------------------------
(***************************************************************************)
(* For any escalation chain of any kinds of providers, any commands and    *)
(* any bounds: what the gateway puts together is what one provider sent,   *)
(* and what is judged is a whole command of it (JInv).  The verdict on a   *)
(* command is the strictest of those on its parts: the quotes open before  *)
(* a token are the same in the command and in a part that begins outside   *)
(* quotes, by induction over the part, so the segments of a command that   *)
(* an operator divides are those of both sides.  By another induction the  *)
(* two tokenizers see the same quotes where nothing is escaped.            *)
(***************************************************************************)
EXTENDS Reply, WellFoundedInduction, TLAPS

\* The types of what is sent and what is accumulated.
StreamTypes ==
  /\ tier \in DOMAIN Chain
  /\ said \in [text : Nat, calls : Seq(Call)]
  /\ content \in Seq(DOMAIN Chain) /\ calls \in Seq(Call)
  /\ shown \in Seq(DOMAIN Chain)

IInv == StreamTypes /\ ReplyOfOneTier

-----------------------------------------------------------------------------
LEMMA Initially == Init => IInv
<1> SUFFICES ASSUME Init PROVE IInv
  OBVIOUS
<1>1. 1 \in DOMAIN Chain
  BY ReplyAssumption
<1> QED
  BY <1>1 DEF Init, IInv, StreamTypes, ReplyOfOneTier, Call

\* A text delta is accumulated and shown.
LEMMA TextStep == ASSUME IInv, Text PROVE IInv'
<1>1. /\ pc = "stream" /\ pc' = pc /\ tier' = tier
      /\ content' = Append(content, tier) /\ shown' = Append(shown, tier)
      /\ calls' = calls
  BY DEF Text, Sends
<1>2. said'.text = said.text + 1 /\ said'.calls = said.calls
      /\ said' \in [text : Nat, calls : Seq(Call)]
  <2>1. said \in [text : Nat, calls : Seq(Call)]
    BY DEF IInv, StreamTypes
  <2>2. said' = [said EXCEPT !.text = said.text + 1]
    BY DEF Text
  <2> HIDE DEF Call
  <2> QED
    BY <2>1, <2>2
<1>3. StreamTypes'
  BY <1>1, <1>2 DEF IInv, StreamTypes
<1>4. /\ DOMAIN content' = 1 .. Len(content) + 1 /\ Len(content') = Len(content) + 1
      /\ DOMAIN shown' = 1 .. Len(shown) + 1 /\ Len(shown') = Len(shown) + 1
      /\ \A i \in DOMAIN content' : content'[i] = IF i > Len(content) THEN tier ELSE content[i]
      /\ \A i \in DOMAIN shown' : shown'[i] = IF i > Len(shown) THEN tier ELSE shown[i]
  BY <1>1 DEF IInv, StreamTypes
<1>5. Len(content) \in Nat /\ Len(shown) \in Nat
      /\ DOMAIN content = 1 .. Len(content) /\ DOMAIN shown = 1 .. Len(shown)
  BY DEF IInv, StreamTypes
<1>6. Len(content') = said'.text /\ \A i \in DOMAIN content' : content'[i] = tier'
  BY <1>1, <1>2, <1>4, <1>5 DEF IInv, ReplyOfOneTier
<1>7. \A i \in DOMAIN shown' :
        IF i > Len(shown') - Len(content') THEN shown'[i] = tier' ELSE shown'[i] < tier'
  BY <1>1, <1>4, <1>5 DEF IInv, ReplyOfOneTier
<1> QED
  BY <1>1, <1>2, <1>3, <1>4, <1>5, <1>6, <1>7 DEF IInv, ReplyOfOneTier

\* Whatever changes the calls alone keeps them those of the provider.
LEMMA CallsStep ==
  ASSUME IInv, calls' = said'.calls, said' = [said EXCEPT !.calls = calls'],
         calls' \in Seq(Call), UNCHANGED <<pc, tier, content, shown>>
  PROVE  IInv'
<1>1. said'.text = said.text /\ said' \in [text : Nat, calls : Seq(Call)]
  BY DEF IInv, StreamTypes
<1> QED
  BY <1>1 DEF IInv, StreamTypes, ReplyOfOneTier

LEMMA StartCallStep == ASSUME IInv, StartCall PROVE IInv'
<1>1. PICK tool \in Tools :
        /\ said' = [said EXCEPT !.calls = Append(@, [tool |-> tool, args |-> <<>>])]
        /\ calls' = IF Chain[tier] = "openai"
                    THEN [Grown(Len(said.calls) + 1) EXCEPT ![Len(said.calls) + 1].tool = tool]
                    ELSE Append(calls, [tool |-> tool, args |-> <<>>])
  BY DEF StartCall
<1> DEFINE call == [tool |-> tool, args |-> <<>>]
<1>2. calls = said.calls /\ calls \in Seq(Call) /\ said \in [text : Nat, calls : Seq(Call)]
  BY DEF IInv, StreamTypes, ReplyOfOneTier
<1>3. call \in Call
  BY <1>1 DEF Call
<1>4. Append(calls, call) \in Seq(Call)
  BY <1>2, <1>3
<1>5. calls' = Append(calls, call)
  <2>1. CASE Chain[tier] = "openai"
    <3> DEFINE n == Len(calls) + 1
    <3>1. calls' = [Grown(n) EXCEPT ![n].tool = tool]
      BY <1>1, <1>2, <2>1
    <3>2. n \in Nat /\ n > Len(calls) /\ DOMAIN calls = 1 .. Len(calls)
      BY <1>2
    <3>3. Grown(n) = [k \in 1 .. n |-> IF k \in DOMAIN calls THEN calls[k] ELSE NoCall]
      BY <3>2 DEF Grown
    <3>5. [NoCall EXCEPT !.tool = tool] = call
      BY DEF NoCall
    <3>8. Grown(n)[n] = NoCall
      BY <3>2, <3>3
    <3>7. calls' = [Grown(n) EXCEPT ![n] = call]
      <4>1. calls' = [Grown(n) EXCEPT ![n] = [Grown(n)[n] EXCEPT !.tool = tool]]
        BY <3>1
      <4>2. [Grown(n)[n] EXCEPT !.tool = tool] = call
        BY <3>5, <3>8
      <4> HIDE DEF call
      <4> QED
        BY <4>1, <4>2
    <3> HIDE DEF call
    <3>4. calls' = [k \in 1 .. n |-> IF k = n THEN call ELSE calls[k]]
      BY <3>7, <3>2, <3>3
    <3>6. Append(calls, call) = [k \in 1 .. n |-> IF k = n THEN call ELSE calls[k]]
      BY <1>2, <3>2
    <3> QED
      BY <3>4, <3>6
  <2> QED
    BY <1>1, <2>1
<1>6. said' = [said EXCEPT !.calls = calls'] /\ said'.calls = calls'
  BY <1>1, <1>2, <1>5
<1>7. UNCHANGED <<pc, tier, content, shown>>
  BY DEF StartCall, Sends
<1> QED
  BY <1>4, <1>5, <1>6, <1>7, CallsStep

LEMMA PieceStep == ASSUME IInv, Piece PROVE IInv'
<1>1. PICK i \in DOMAIN said.calls, p \in Tokens \cup {Brace} :
        /\ Chain[tier] = "anthropic" => i = Len(said.calls)
        /\ said' = [said EXCEPT !.calls[i].args = Append(@, p)]
        /\ calls' = IF Entry(i) \in DOMAIN calls
                    THEN [calls EXCEPT ![Entry(i)].args = Append(@, p)]
                    ELSE calls
  BY DEF Piece
<1>2. calls = said.calls /\ calls \in Seq(Call) /\ said \in [text : Nat, calls : Seq(Call)]
  BY DEF IInv, StreamTypes, ReplyOfOneTier
<1>3. Chain[tier] \in {"openai", "anthropic"}
  BY ReplyAssumption DEF IInv, StreamTypes, Kinds
<1>4. Entry(i) = i
  BY <1>1, <1>2, <1>3 DEF Entry
<1>5. calls' = [calls EXCEPT ![i].args = Append(@, p)]
  BY <1>1, <1>2, <1>4
<1>6. calls' \in Seq(Call)
  <2>1. calls[i] \in Call
    BY <1>1, <1>2
  <2>2. Append(calls[i].args, p) \in Seq(Tokens \cup {Brace})
    BY <2>1, <1>1 DEF Call
  <2> DEFINE r == [calls[i] EXCEPT !.args = Append(@, p)]
  <2>3. r \in Call
    BY <2>1, <2>2 DEF Call
  <2>4. calls' = [calls EXCEPT ![i] = r]
    BY <1>5
  <2>5. i \in DOMAIN calls /\ calls \in Seq(Call)
    BY <1>1, <1>2
  <2> HIDE DEF r
  <2> QED
    BY <2>3, <2>4, <2>5
<1>7. said' = [said EXCEPT !.calls = calls'] /\ said'.calls = calls'
  BY <1>1, <1>2, <1>5
<1>8. UNCHANGED <<pc, tier, content, shown>>
  BY DEF Piece, Sends
<1> QED
  BY <1>6, <1>7, <1>8, CallsStep

\* The next tier starts from nothing, and everything shown is of earlier ones.
LEMMA TransportErrorStep == ASSUME IInv, TransportError PROVE IInv'
<1>1. /\ content' = <<>> /\ calls' = <<>> /\ shown' = shown
      /\ said' = [text |-> 0, calls |-> <<>>]
  BY DEF TransportError, FreshAccumulators
<1>2. tier \in Nat /\ shown \in Seq(DOMAIN Chain) /\ tier \in DOMAIN Chain
      /\ DOMAIN Chain = 1 .. Len(Chain) /\ Len(Chain) \in Nat
  BY ReplyAssumption DEF IInv, StreamTypes
<1>3. \/ pc' = "failed" /\ tier' = tier
      \/ tier < Len(Chain) /\ tier' = tier + 1 /\ pc' = pc /\ pc = "stream"
  BY <1>2 DEF TransportError, NextTier
<1>4. StreamTypes'
  BY <1>1, <1>2, <1>3 DEF StreamTypes, Call
<1>5. pc' # "failed" => \A i \in DOMAIN shown : shown[i] < tier'
  BY <1>2, <1>3 DEF IInv, ReplyOfOneTier
<1>6. Len(shown) \in Nat /\ DOMAIN shown = 1 .. Len(shown)
  BY <1>2
<1> QED
  BY <1>1, <1>4, <1>5, <1>6 DEF IInv, ReplyOfOneTier

LEMMA Step == ASSUME IInv, [Next]_vars PROVE IInv'
<1>1. CASE Text
  BY <1>1, TextStep
<1>2. CASE StartCall
  BY <1>2, StartCallStep
<1>3. CASE Piece
  BY <1>3, PieceStep
<1>4. CASE Usage
  BY <1>4 DEF Usage, Sends, IInv, StreamTypes, ReplyOfOneTier
<1>5. CASE StreamEnds
  BY <1>5 DEF StreamEnds, IInv, StreamTypes, ReplyOfOneTier
<1>6. CASE TransportError
  BY <1>6, TransportErrorStep
<1>7. CASE Judge
  <2>1. pc = "judge" /\ UNCHANGED <<tier, said, content, calls, shown>>
    BY <1>7 DEF Judge
  <2> QED
    BY <2>1 DEF IInv, StreamTypes, ReplyOfOneTier
<1>8. CASE UNCHANGED vars
  BY <1>8 DEF vars, IInv, StreamTypes, ReplyOfOneTier
<1> QED
  BY <1>1, <1>2, <1>3, <1>4, <1>5, <1>6, <1>7, <1>8 DEF Next

\* The reply that a turn acts on is what the provider of one tier sent, call by
\* call and piece by piece, and the human was shown its text after that of the
\* tiers that failed (chat_stream, chat_anthropic, the chain walk).
THEOREM ReplyFromOneTier == Spec => []ReplyOfOneTier
<1>1. IInv => ReplyOfOneTier
  BY DEF IInv
<1> QED
  BY Initially, Step, <1>1, PTL DEF Spec

-----------------------------------------------------------------------------
(* Induction, which the recursion of OpenQuote needs and the library       *)
(* states with an operator parameter: here over sets.                      *)

LEMMA BelowWellFounded ==
  \E R : IsWellFoundedOn(R, Nat) /\ \A x, y \in Nat : x < y => <<x, y>> \in R
<1>1. IsWellFoundedOn(OpToRel(<, Nat), Nat)
  BY NatLessThanWellFounded
<1>2. \A x, y \in Nat : x < y => <<x, y>> \in OpToRel(<, Nat)
  BY DEF OpToRel
<1> QED
  BY <1>1, <1>2, Zenon

LEMMA MinimalElement ==
  \A R, S, T : IsWellFoundedOn(R, S) /\ T \subseteq S /\ T # {} =>
    \E x \in T : \A y \in T : ~(<<y, x>> \in R)
BY WFMin

LEMMA LeastNumber ==
  \A T : T \subseteq Nat /\ T # {} => \E x \in T : \A y \in T : x <= y
<1>1. PICK R : IsWellFoundedOn(R, Nat) /\ \A x, y \in Nat : x < y => <<x, y>> \in R
  BY BelowWellFounded, Zenon
<1> SUFFICES ASSUME NEW T, T \subseteq Nat, T # {}
             PROVE  \E x \in T : \A y \in T : x <= y
  OBVIOUS
<1>2. PICK x \in T : \A y \in T : ~(<<y, x>> \in R)
  BY <1>1, MinimalElement
<1>3. ASSUME NEW y \in T PROVE x <= y
  <2>1. x \in Nat /\ y \in Nat /\ ~(<<y, x>> \in R)
    BY <1>2
  <2>2. ~(y < x)
    BY <1>1, <2>1
  <2> QED
    BY <2>1, <2>2
<1> QED
  BY <1>3

\* A set of naturals that contains 0 and the successor of each member is Nat.
LEMMA Induction ==
  \A T : T \subseteq Nat /\ 0 \in T /\ (\A n \in T : n + 1 \in T) => T = Nat
<1> SUFFICES ASSUME NEW T, T \subseteq Nat, 0 \in T, \A n \in T : n + 1 \in T, T # Nat
             PROVE  FALSE
  OBVIOUS
<1> DEFINE Others == Nat \ T
<1>1. Others \subseteq Nat /\ Others # {}
  OBVIOUS
<1>2. PICK x \in Others : \A y \in Others : x <= y
  BY <1>1, LeastNumber
<1>3. x \in Nat /\ x # 0 /\ x - 1 \in Nat /\ x = (x - 1) + 1
  BY <1>2
<1>4. x - 1 \in T
  BY <1>2, <1>3
<1> QED
  BY <1>2, <1>3, <1>4

-----------------------------------------------------------------------------
(* split_raw_segments.                                                     *)

\* The quote that is open after token t.
Quoted(open, t) ==
  IF open = "none" THEN IF t \in Quotes THEN t ELSE "none"
  ELSE IF t = open THEN "none" ELSE open

\* The recursion of OpenQuote is well defined.
LEMMA OpenQuoteRecursion ==
  ASSUME NEW c \in Seq(Tokens)
  PROVE  /\ OpenQuote(c)[0] = "none"
         /\ \A i \in 1 .. Len(c) : OpenQuote(c)[i] = Quoted(OpenQuote(c)[i - 1], Bare(c[i]))
<1> DEFINE Good(f, n) ==
             f = [i \in 0 .. n |-> IF i = 0 THEN "none" ELSE Quoted(f[i - 1], Bare(c[i]))]
           T == {n \in Nat : \E f : Good(f, n)}
<1>0. OpenQuote(c) = CHOOSE f : Good(f, Len(c))
  BY DEF OpenQuote, Quoted
<1>1. 0 \in T
  <2>1. Good([i \in 0 .. 0 |-> "none"], 0)
    OBVIOUS
  <2> QED
    BY <2>1
<1>2. ASSUME NEW n \in T PROVE n + 1 \in T
  <2>1. PICK f : Good(f, n)
    OBVIOUS
  <2> DEFINE g == [i \in 0 .. n + 1 |-> IF i = n + 1 THEN Quoted(f[n], Bare(c[i])) ELSE f[i]]
  <2>2. Good(g, n + 1)
    <3>1. n \in Nat
      OBVIOUS
    <3>2. ASSUME NEW i \in 0 .. n + 1
          PROVE  g[i] = IF i = 0 THEN "none" ELSE Quoted(g[i - 1], Bare(c[i]))
      <4>1. CASE i = n + 1
        BY <3>1, <4>1
      <4>2. CASE i # n + 1
        BY <2>1, <3>1, <4>2
      <4> QED
        BY <4>1, <4>2
    <3> QED
      BY <3>1, <3>2
  <2>3. n + 1 \in Nat
    OBVIOUS
  <2> HIDE DEF g, Good
  <2> QED
    BY <2>2, <2>3
<1>3. T = Nat
  <2>1. T \subseteq Nat
    OBVIOUS
  <2> HIDE DEF T
  <2> QED
    BY <1>1, <1>2, <2>1, Induction
<1>4. Len(c) \in Nat /\ \E f : Good(f, Len(c))
  BY <1>3
<1>5. Good(OpenQuote(c), Len(c))
  BY <1>0, <1>4
<1>6. OpenQuote(c)[0] = "none"
  BY <1>4, <1>5
<1>7. \A i \in 1 .. Len(c) : OpenQuote(c)[i] = Quoted(OpenQuote(c)[i - 1], Bare(c[i]))
  BY <1>4, <1>5
<1> QED
  BY <1>6, <1>7

\* The same for shell_words.
ShellQuoted(open, t) == Quoted(open, IF open \in Raw THEN Bare(t) ELSE t)

\* The recursion of ShellQuote is well defined.
LEMMA ShellQuoteRecursion ==
  ASSUME NEW c \in Seq(Tokens)
  PROVE  /\ ShellQuote(c)[0] = "none"
         /\ \A i \in 1 .. Len(c) : ShellQuote(c)[i] = ShellQuoted(ShellQuote(c)[i - 1], c[i])
<1> DEFINE Good(f, n) ==
             f = [i \in 0 .. n |-> IF i = 0 THEN "none" ELSE ShellQuoted(f[i - 1], c[i])]
           T == {n \in Nat : \E f : Good(f, n)}
<1>0. ShellQuote(c) = CHOOSE f : Good(f, Len(c))
  BY DEF ShellQuote, ShellQuoted, Quoted
<1>1. 0 \in T
  <2>1. Good([i \in 0 .. 0 |-> "none"], 0)
    OBVIOUS
  <2> QED
    BY <2>1
<1>2. ASSUME NEW n \in T PROVE n + 1 \in T
  <2>1. PICK f : Good(f, n)
    OBVIOUS
  <2> DEFINE g == [i \in 0 .. n + 1 |-> IF i = n + 1 THEN ShellQuoted(f[n], c[i]) ELSE f[i]]
  <2>2. Good(g, n + 1)
    <3>1. n \in Nat
      OBVIOUS
    <3>2. ASSUME NEW i \in 0 .. n + 1
          PROVE  g[i] = IF i = 0 THEN "none" ELSE ShellQuoted(g[i - 1], c[i])
      <4>1. CASE i = n + 1
        BY <3>1, <4>1
      <4>2. CASE i # n + 1
        BY <2>1, <3>1, <4>2
      <4> QED
        BY <4>1, <4>2
    <3> QED
      BY <3>1, <3>2
  <2>3. n + 1 \in Nat
    OBVIOUS
  <2> HIDE DEF g, Good
  <2> QED
    BY <2>2, <2>3
<1>3. T = Nat
  <2>1. T \subseteq Nat
    OBVIOUS
  <2> HIDE DEF T
  <2> QED
    BY <1>1, <1>2, <2>1, Induction
<1>4. Len(c) \in Nat /\ \E f : Good(f, Len(c))
  BY <1>3
<1>5. Good(ShellQuote(c), Len(c))
  BY <1>0, <1>4
<1>6. ShellQuote(c)[0] = "none"
  BY <1>4, <1>5
<1>7. \A i \in 1 .. Len(c) : ShellQuote(c)[i] = ShellQuoted(ShellQuote(c)[i - 1], c[i])
  BY <1>4, <1>5
<1> QED
  BY <1>6, <1>7

\* Where nothing is escaped the two tokenizers see the same quotes.
LEMMA SameQuotes ==
  ASSUME NEW c \in Seq(Tokens), TokensIn(c) \cap Escaped = {}
  PROVE  \A i \in 0 .. Len(c) : ShellQuote(c)[i] = OpenQuote(c)[i]
<1> DEFINE T == {i \in Nat : i <= Len(c) => ShellQuote(c)[i] = OpenQuote(c)[i]}
<1>1. 0 \in T
  BY OpenQuoteRecursion, ShellQuoteRecursion
<1>2. ASSUME NEW n \in T PROVE n + 1 \in T
  <2> SUFFICES ASSUME n + 1 <= Len(c) PROVE ShellQuote(c)[n + 1] = OpenQuote(c)[n + 1]
    OBVIOUS
  <2>1. n \in Nat /\ ShellQuote(c)[n] = OpenQuote(c)[n]
    OBVIOUS
  <2>2. n + 1 \in 1 .. Len(c) /\ (n + 1) - 1 = n /\ n + 1 \in DOMAIN c
    BY <2>1
  <2>3. OpenQuote(c)[n + 1] = Quoted(OpenQuote(c)[n], Bare(c[n + 1]))
    BY <2>2, OpenQuoteRecursion
  <2>4. ShellQuote(c)[n + 1] = ShellQuoted(ShellQuote(c)[n], c[n + 1])
    BY <2>2, ShellQuoteRecursion
  <2>5. c[n + 1] \notin Escaped
    BY <2>2 DEF TokensIn
  <2>6. Bare(c[n + 1]) = c[n + 1]
    BY <2>5 DEF Bare
  <2> QED
    BY <2>1, <2>3, <2>4, <2>6 DEF ShellQuoted
<1>3. T = Nat
  <2>1. T \subseteq Nat
    OBVIOUS
  <2> HIDE DEF T
  <2> QED
    BY <1>1, <1>2, <2>1, Induction
<1>4. ASSUME NEW i \in 0 .. Len(c) PROVE ShellQuote(c)[i] = OpenQuote(c)[i]
  <2>1. i \in Nat /\ i <= Len(c)
    OBVIOUS
  <2>2. i \in T
    <3> HIDE DEF T
    <3> QED
      BY <1>3, <2>1
  <2> QED
    BY <2>1, <2>2
<1> QED
  BY <1>4

\* What is open after a piece of a command that begins where nothing is open
\* is what is open there in the command.
LEMMA OpenQuoteOfPiece ==
  ASSUME NEW c \in Seq(Tokens), NEW k \in 0 .. Len(c), NEW m \in k .. Len(c),
         OpenQuote(c)[k] = "none"
  PROVE  \A i \in 0 .. m - k : OpenQuote(SubSeq(c, k + 1, m))[i] = OpenQuote(c)[k + i]
<1> DEFINE d == SubSeq(c, k + 1, m)
<1>1. /\ d \in Seq(Tokens) /\ Len(d) = m - k /\ m - k \in Nat /\ k \in Nat /\ Len(c) \in Nat
      /\ m <= Len(c)
      /\ \A i \in 1 .. m - k : d[i] = c[k + i]
  OBVIOUS
<1> HIDE DEF d
<1> DEFINE T == {i \in Nat : i <= m - k => OpenQuote(d)[i] = OpenQuote(c)[k + i]}
<1>2. 0 \in T
  BY <1>1, OpenQuoteRecursion
<1>3. ASSUME NEW n \in T PROVE n + 1 \in T
  <2> SUFFICES ASSUME n + 1 <= m - k
               PROVE  OpenQuote(d)[n + 1] = OpenQuote(c)[k + (n + 1)]
    OBVIOUS
  <2>1. n \in Nat /\ OpenQuote(d)[n] = OpenQuote(c)[k + n]
    BY <1>1
  <2>2. /\ n + 1 \in 1 .. Len(d) /\ (n + 1) - 1 = n
        /\ k + (n + 1) \in 1 .. Len(c) /\ (k + (n + 1)) - 1 = k + n
        /\ d[n + 1] = c[k + (n + 1)]
    BY <1>1, <2>1
  <2>3. OpenQuote(d)[n + 1] = Quoted(OpenQuote(d)[n], Bare(d[n + 1]))
    BY <1>1, <2>2, OpenQuoteRecursion
  <2>4. OpenQuote(c)[k + (n + 1)] = Quoted(OpenQuote(c)[k + n], Bare(c[k + (n + 1)]))
    BY <2>2, OpenQuoteRecursion
  <2> QED
    BY <2>1, <2>2, <2>3, <2>4
<1>4. T = Nat
  <2>1. T \subseteq Nat
    OBVIOUS
  <2> HIDE DEF T
  <2> QED
    BY <1>2, <1>3, <2>1, Induction
<1>5. ASSUME NEW i \in 0 .. m - k PROVE OpenQuote(d)[i] = OpenQuote(c)[k + i]
  <2>1. i \in Nat /\ i <= m - k
    BY <1>1
  <2>2. i \in T
    <3> HIDE DEF T
    <3> QED
      BY <1>4, <2>1
  <2> QED
    BY <2>1, <2>2
<1> QED
  BY <1>5 DEF d

\* The tokens of one word, and of a command in two pieces around an operator.
LEMMA TokensOfPieces ==
  ASSUME NEW c \in Seq(Tokens), NEW k \in DOMAIN c
  PROVE  TokensIn(c) = TokensIn(SubSeq(c, 1, k - 1)) \cup {c[k]}
                         \cup TokensIn(SubSeq(c, k + 1, Len(c)))
<1> DEFINE l == SubSeq(c, 1, k - 1)
           r == SubSeq(c, k + 1, Len(c))
<1>1. /\ k \in 1 .. Len(c) /\ Len(c) \in Nat /\ k \in Nat /\ DOMAIN c = 1 .. Len(c)
      /\ DOMAIN l = 1 .. k - 1 /\ DOMAIN r = 1 .. Len(c) - k
      /\ \A i \in 1 .. k - 1 : l[i] = c[i]
      /\ \A i \in 1 .. Len(c) - k : r[i] = c[k + i]
  OBVIOUS
<1> HIDE DEF l, r
<1>2. TokensIn(l) \subseteq TokensIn(c) /\ TokensIn(r) \subseteq TokensIn(c) /\ c[k] \in TokensIn(c)
  <2>1. \A i \in 1 .. k - 1 : i \in DOMAIN c
    BY <1>1
  <2>2. \A i \in 1 .. Len(c) - k : k + i \in DOMAIN c
    BY <1>1
  <2> QED
    BY <1>1, <2>1, <2>2 DEF TokensIn
<1>3. ASSUME NEW i \in DOMAIN c PROVE c[i] \in TokensIn(l) \cup {c[k]} \cup TokensIn(r)
  <2>1. CASE i < k
    <3>1. i \in DOMAIN l /\ l[i] = c[i]
      BY <1>1, <2>1
    <3> QED
      BY <3>1 DEF TokensIn
  <2>2. CASE i = k
    BY <2>2
  <2>3. CASE i > k
    <3>1. i - k \in DOMAIN r /\ r[i - k] = c[i]
      BY <1>1, <2>3
    <3> QED
      BY <3>1 DEF TokensIn
  <2> QED
    BY <1>1, <2>1, <2>2, <2>3
<1>4. TokensIn(c) \subseteq TokensIn(l) \cup {c[k]} \cup TokensIn(r)
  BY <1>3 DEF TokensIn
<1> QED
  BY <1>2, <1>4 DEF l, r

\* The verdicts on the parts of a command.
LEMMA StrictestOf ==
  ASSUME NEW vs, vs \subseteq Actions, vs # {}
  PROVE  Strictest(vs) = IF "deny" \in vs THEN "deny" ELSE IF "ask" \in vs THEN "ask" ELSE "auto"
<1> DEFINE top == IF "deny" \in vs THEN "deny" ELSE IF "ask" \in vs THEN "ask" ELSE "auto"
<1>1. top \in vs /\ \A u \in vs : Rank(u) <= Rank(top)
  BY DEF Rank, Actions
<1>2. Strictest(vs) \in vs /\ \A u \in vs : Rank(u) <= Rank(Strictest(vs))
  BY <1>1 DEF Strictest
<1>3. Rank(top) <= Rank(Strictest(vs)) /\ Rank(Strictest(vs)) <= Rank(top)
  BY <1>1, <1>2
<1>4. \A u, v \in Actions : Rank(u) <= Rank(v) /\ Rank(v) <= Rank(u) => u = v
  BY DEF Rank, Actions
<1>5. top \in Actions /\ Strictest(vs) \in Actions
  BY <1>1, <1>2
<1> HIDE DEF top
<1>6. Strictest(vs) = top
  BY <1>3, <1>4, <1>5
<1> QED
  BY <1>6 DEF top

\* The verdict of the first rule that matches is an action: there is a first.
LEMMA SegmentAction ==
  ASSUME NEW segment
  PROVE  SegmentVerdict(segment) \in Actions
<1>1. ASSUME NEW argv PROVE CheckSegment(argv) \in Actions
  <2> DEFINE matching == {n \in DOMAIN Rules : Matches(Rules[n].globs, argv)}
             first    == CHOOSE n \in matching : \A k \in matching : n <= k
  <2>1. matching # {} => Rules[first].action \in Actions
    <3> SUFFICES ASSUME matching # {} PROVE Rules[first].action \in Actions
      OBVIOUS
    <3>1. matching \subseteq DOMAIN Rules /\ matching \subseteq Nat
      BY PolicyAssumption
    <3> HIDE DEF matching
    <3>2. \E n \in matching : \A k \in matching : n <= k
      BY <3>1, LeastNumber
    <3>3. first \in matching
      BY <3>2
    <3> QED
      BY <3>1, <3>3, PolicyAssumption
  <2> QED
    BY <2>1 DEF CheckSegment, Actions
<1> QED
  BY <1>1 DEF SegmentVerdict, Actions

LEMMA CheckAction ==
  ASSUME NEW command
  PROVE  Check(command) \in Actions
<1> DEFINE vs == {SegmentVerdict(s) : s \in Segments(command)}
<1>1. vs \subseteq Actions
  BY SegmentAction
<1>2. vs # {}
  <2> DEFINE ends == Cuts(command) \cup {Len(command) + 1}
             EndOf(b) == CHOOSE e \in ends : e > b /\ \A d \in ends : d > b => e <= d
             Part(b)  == SubSeq(command, b + 1, EndOf(b) - 1)
  <2>1. Segments(command) = {Part(b) : b \in Cuts(command) \cup {0}}
    BY DEF Segments
  <2> HIDE DEF Part
  <2>2. Part(0) \in Segments(command)
    BY <2>1
  <2> HIDE DEF Part
  <2> QED
    BY <2>2
<1> HIDE DEF vs
<1>3. Strictest(vs) \in Actions
  BY <1>1, <1>2, StrictestOf DEF Actions
<1> QED
  BY <1>3 DEF Check, vs, Actions

\* Where the segment that begins after b ends.
EndAfter(c, b) ==
  CHOOSE e \in Cuts(c) \cup {Len(c) + 1} :
    e > b /\ \A d \in Cuts(c) \cup {Len(c) + 1} : d > b => e <= d

LEMMA SegmentsByBeginning ==
  ASSUME NEW c
  PROVE  Segments(c) = {SubSeq(c, b + 1, EndAfter(c, b) - 1) : b \in Cuts(c) \cup {0}}
BY DEF Segments, EndAfter

\* It ends at the first cut after b, or at the end of the command.
LEMMA EndIsNext ==
  ASSUME NEW c \in Seq(Tokens), NEW b \in 0 .. Len(c)
  PROVE  /\ EndAfter(c, b) \in Cuts(c) \cup {Len(c) + 1}
         /\ EndAfter(c, b) > b /\ EndAfter(c, b) \in Nat
         /\ \A d \in Cuts(c) \cup {Len(c) + 1} : d > b => EndAfter(c, b) <= d
<1> DEFINE ends  == Cuts(c) \cup {Len(c) + 1}
           later == {e \in ends : e > b}
<1>1. ends \subseteq Nat /\ b \in Nat /\ Len(c) + 1 \in later
  BY DEF Cuts
<1>2. later \subseteq Nat /\ later # {}
  BY <1>1
<1>3. PICK e \in later : \A d \in later : e <= d
  <2> HIDE DEF later
  <2> QED
    BY <1>2, LeastNumber
<1>4. e \in ends /\ e > b /\ \A d \in ends : d > b => e <= d
  BY <1>3
<1>5. EndAfter(c, b) \in ends /\ EndAfter(c, b) > b /\ \A d \in ends : d > b => EndAfter(c, b) <= d
  <2> HIDE DEF ends
  <2> QED
    BY <1>4 DEF EndAfter, ends
<1> QED
  BY <1>1, <1>5

\* It is the only such place.
LEMMA EndIsOne ==
  ASSUME NEW c \in Seq(Tokens), NEW b \in 0 .. Len(c),
         NEW e \in Cuts(c) \cup {Len(c) + 1}, e > b,
         \A d \in Cuts(c) \cup {Len(c) + 1} : d > b => e <= d
  PROVE  EndAfter(c, b) = e
<1>1. /\ EndAfter(c, b) \in Cuts(c) \cup {Len(c) + 1}
      /\ EndAfter(c, b) > b /\ EndAfter(c, b) \in Nat
      /\ \A d \in Cuts(c) \cup {Len(c) + 1} : d > b => EndAfter(c, b) <= d
  BY EndIsNext
<1>2. e \in Nat
  BY DEF Cuts
<1>3. e <= EndAfter(c, b) /\ EndAfter(c, b) <= e
  BY <1>1
<1> QED
  BY <1>1, <1>2, <1>3

\* A command that an unquoted operator divides has the cuts of both parts.
LEMMA CutsOfPieces ==
  ASSUME NEW c \in Seq(Tokens), NEW k \in Cuts(c)
  PROVE  Cuts(c) = Cuts(SubSeq(c, 1, k - 1)) \cup {k}
                     \cup {k + j : j \in Cuts(SubSeq(c, k + 1, Len(c)))}
<1> DEFINE l == SubSeq(c, 1, k - 1)
           r == SubSeq(c, k + 1, Len(c))
<1>1. /\ k \in 1 .. Len(c) /\ Len(c) \in Nat /\ k \in Nat /\ DOMAIN c = 1 .. Len(c)
      /\ c[k] \in Operators /\ OpenQuote(c)[k - 1] = "none"
  BY DEF Cuts
<1>2. /\ l \in Seq(Tokens) /\ DOMAIN l = 1 .. k - 1 /\ r \in Seq(Tokens)
      /\ DOMAIN r = 1 .. Len(c) - k
      /\ \A i \in 1 .. k - 1 : l[i] = c[i]
      /\ \A i \in 1 .. Len(c) - k : r[i] = c[k + i]
  BY <1>1
<1>3. OpenQuote(c)[0] = "none"
  BY OpenQuoteRecursion
<1>4. OpenQuote(c)[k] = "none"
  <2>1. OpenQuote(c)[k] = Quoted("none", Bare(c[k]))
    BY <1>1, OpenQuoteRecursion
  <2>2. c[k] \notin Quotes /\ Bare(c[k]) = c[k]
    BY <1>1, PolicyAssumption DEF Bare
  <2> QED
    BY <2>1, <2>2 DEF Quoted
<1>5. \A i \in 0 .. k - 1 : OpenQuote(l)[i] = OpenQuote(c)[i]
  <2>1. 0 \in 0 .. Len(c) /\ k - 1 \in 0 .. Len(c)
    BY <1>1
  <2>2. \A i \in 0 .. (k - 1) - 0 : OpenQuote(SubSeq(c, 0 + 1, k - 1))[i] = OpenQuote(c)[0 + i]
    BY <1>3, <2>1, OpenQuoteOfPiece
  <2>3. (k - 1) - 0 = k - 1 /\ 0 + 1 = 1 /\ \A i \in 0 .. k - 1 : 0 + i = i
    BY <1>1
  <2> QED
    BY <2>2, <2>3
<1>6. \A i \in 0 .. Len(c) - k : OpenQuote(r)[i] = OpenQuote(c)[k + i]
  <2>1. k \in 0 .. Len(c) /\ Len(c) \in k .. Len(c)
    BY <1>1
  <2> QED
    BY <1>4, <2>1, OpenQuoteOfPiece
<1> HIDE DEF l, r
<1>7. ASSUME NEW i \in DOMAIN c, i < k PROVE i \in Cuts(c) <=> i \in Cuts(l)
  <2>1. i \in DOMAIN l /\ l[i] = c[i] /\ i - 1 \in 0 .. k - 1
    BY <1>1, <1>2, <1>7
  <2> QED
    BY <1>5, <2>1 DEF Cuts
<1>8. ASSUME NEW j \in 1 .. Len(c) - k PROVE k + j \in Cuts(c) <=> j \in Cuts(r)
  <2>1. /\ j \in DOMAIN r /\ r[j] = c[k + j] /\ j - 1 \in 0 .. Len(c) - k
        /\ k + j \in DOMAIN c /\ (k + j) - 1 = k + (j - 1)
    BY <1>1, <1>2
  <2>2. OpenQuote(r)[j - 1] = OpenQuote(c)[(k + j) - 1]
    BY <1>6, <2>1
  <2> QED
    BY <2>1, <2>2 DEF Cuts
<1>9. Cuts(l) \subseteq 1 .. k - 1 /\ Cuts(r) \subseteq 1 .. Len(c) - k /\ Cuts(c) \subseteq 1 .. Len(c)
  BY <1>1, <1>2 DEF Cuts
<1>10. ASSUME NEW i \in Cuts(c)
       PROVE  i \in Cuts(l) \cup {k} \cup {k + j : j \in Cuts(r)}
  <2>1. i \in DOMAIN c /\ i \in Nat
    BY <1>1, <1>9
  <2>2. CASE i < k
    BY <1>7, <2>1, <2>2
  <2>3. CASE i > k
    <3>1. i - k \in 1 .. Len(c) - k /\ k + (i - k) = i
      BY <1>1, <1>9, <2>1, <2>3
    <3>2. i - k \in Cuts(r)
      BY <1>8, <3>1
    <3> QED
      BY <3>1, <3>2
  <2> QED
    BY <1>1, <2>1, <2>2, <2>3
<1>11. ASSUME NEW i \in Cuts(l) PROVE i \in Cuts(c)
  <2>1. i \in DOMAIN c /\ i < k
    BY <1>1, <1>9
  <2> QED
    BY <1>7, <2>1
<1>12. ASSUME NEW j \in Cuts(r) PROVE k + j \in Cuts(c)
  BY <1>8, <1>9
<1>13. Cuts(c) = Cuts(l) \cup {k} \cup {k + j : j \in Cuts(r)}
  BY <1>10, <1>11, <1>12
<1> QED
  BY <1>13 DEF l, r

LEMMA LengthOfPiece ==
  ASSUME NEW c \in Seq(Tokens), NEW k \in 0 .. Len(c), NEW m \in k .. Len(c)
  PROVE  Len(SubSeq(c, k + 1, m)) = m - k
OBVIOUS

\* A piece of a piece of a command is a piece of it.
LEMMA PieceOfPiece ==
  ASSUME NEW c \in Seq(Tokens), NEW k \in 0 .. Len(c), NEW m \in k .. Len(c),
         NEW b \in Nat, NEW e \in Nat, e <= m - k + 1
  PROVE  SubSeq(SubSeq(c, k + 1, m), b + 1, e - 1) = SubSeq(c, (k + b) + 1, (k + e) - 1)
<1> DEFINE d == SubSeq(c, k + 1, m)
<1>1. /\ d \in Seq(Tokens) /\ Len(d) = m - k /\ m - k \in Nat /\ k \in Nat /\ Len(c) \in Nat
      /\ m <= Len(c)
      /\ \A i \in 1 .. m - k : d[i] = c[k + i]
  OBVIOUS
<1> HIDE DEF d
<1>2. CASE e - 1 < b + 1
  BY <1>1, <1>2
<1>3. CASE ~(e - 1 < b + 1)
  <2> DEFINE n == e - 1 - b
  <2>1. n \in Nat /\ b + n <= m - k /\ e - 1 = b + n /\ (k + e) - 1 = k + b + n
    BY <1>1, <1>3
  <2>2. SubSeq(d, b + 1, e - 1) = [i \in 1 .. n |-> d[b + i]]
    BY <1>1, <1>3, <2>1
  <2>3. SubSeq(c, (k + b) + 1, (k + e) - 1) = [i \in 1 .. n |-> c[k + b + i]]
    BY <1>1, <1>3, <2>1
  <2>4. \A i \in 1 .. n : d[b + i] = c[k + b + i]
    <3> SUFFICES ASSUME NEW i \in 1 .. n PROVE d[b + i] = c[k + b + i]
      OBVIOUS
    <3>1. b + i \in 1 .. m - k /\ k + (b + i) = k + b + i
      BY <1>1, <2>1
    <3> QED
      BY <1>1, <3>1
  <2> QED
    BY <2>2, <2>3, <2>4
<1> QED
  BY <1>2, <1>3 DEF d

\* ... and the segments of both parts, and no other.
LEMMA SegmentsOfPieces ==
  ASSUME NEW c \in Seq(Tokens), NEW k \in Cuts(c)
  PROVE  Segments(c) = Segments(SubSeq(c, 1, k - 1)) \cup Segments(SubSeq(c, k + 1, Len(c)))
<1> DEFINE l == SubSeq(c, 1, k - 1)
           r == SubSeq(c, k + 1, Len(c))
<1>1. k \in 1 .. Len(c) /\ Len(c) \in Nat /\ k \in Nat /\ DOMAIN c = 1 .. Len(c)
  BY DEF Cuts
<1>2. /\ l \in Seq(Tokens) /\ Len(l) = k - 1 /\ DOMAIN l = 1 .. k - 1
      /\ r \in Seq(Tokens) /\ Len(r) = Len(c) - k /\ DOMAIN r = 1 .. Len(c) - k
  <2>1. l \in Seq(Tokens) /\ Len(l) = k - 1
    BY <1>1
  <2>2. r \in Seq(Tokens) /\ DOMAIN r = 1 .. Len(c) - k
    BY <1>1
  <2>3. l \in Seq(Tokens) /\ DOMAIN l = 1 .. k - 1
    BY <1>1
  <2>4. Len(r) = Len(c) - k
    <3>1. k \in 0 .. Len(c) /\ Len(c) \in k .. Len(c)
      BY <1>1
    <3> QED
      BY <3>1, LengthOfPiece
  <2> QED
    BY <2>1, <2>2, <2>3, <2>4
<1>3. Cuts(c) = Cuts(l) \cup {k} \cup {k + j : j \in Cuts(r)}
  BY CutsOfPieces
<1>4. \A b, e \in Nat : e <= k => SubSeq(l, b + 1, e - 1) = SubSeq(c, b + 1, e - 1)
  <2> SUFFICES ASSUME NEW b \in Nat, NEW e \in Nat, e <= k
               PROVE  SubSeq(l, b + 1, e - 1) = SubSeq(c, b + 1, e - 1)
    OBVIOUS
  <2>1. 0 \in 0 .. Len(c) /\ k - 1 \in 0 .. Len(c) /\ e <= (k - 1) - 0 + 1
    BY <1>1
  <2>2. SubSeq(SubSeq(c, 0 + 1, k - 1), b + 1, e - 1) = SubSeq(c, (0 + b) + 1, (0 + e) - 1)
    BY <2>1, PieceOfPiece
  <2>3. 0 + 1 = 1 /\ 0 + b = b /\ 0 + e = e
    OBVIOUS
  <2> QED
    BY <2>2, <2>3
<1>5. \A b, e \in Nat : e <= Len(c) - k + 1 =>
        SubSeq(r, b + 1, e - 1) = SubSeq(c, (k + b) + 1, (k + e) - 1)
  <2>1. k \in 0 .. Len(c) /\ Len(c) \in k .. Len(c)
    BY <1>1
  <2> QED
    BY <2>1, PieceOfPiece
<1> HIDE DEF l, r
<1>6. Cuts(l) \subseteq 1 .. k - 1 /\ Cuts(r) \subseteq 1 .. Len(c) - k /\ Cuts(c) \subseteq 1 .. Len(c)
  BY <1>1, <1>2 DEF Cuts
<1>7. ASSUME NEW b \in Cuts(l) \cup {0}
      PROVE  /\ b \in Cuts(c) \cup {0}
             /\ SubSeq(l, b + 1, EndAfter(l, b) - 1) = SubSeq(c, b + 1, EndAfter(c, b) - 1)
  <2>1. b \in 0 .. Len(l) /\ b \in 0 .. Len(c) /\ b \in Nat
    BY <1>1, <1>2, <1>6
  <2> DEFINE e == EndAfter(l, b)
  <2>2. /\ e \in Cuts(l) \cup {k} /\ e > b /\ e \in Nat
        /\ \A d \in Cuts(l) \cup {k} : d > b => e <= d
    <3>1. Len(l) + 1 = k
      BY <1>1, <1>2
    <3> QED
      BY <1>2, <2>1, <3>1, EndIsNext
  <2> HIDE DEF e
  <2>3. e <= k
    BY <1>1, <1>6, <2>2
  <2>4. e \in Cuts(c) \cup {Len(c) + 1}
    BY <1>3, <2>2
  <2>5. ASSUME NEW d \in Cuts(c) \cup {Len(c) + 1}, d > b PROVE e <= d
    <3>1. CASE d \in Cuts(l) \cup {k}
      BY <2>2, <2>5, <3>1
    <3>2. CASE d \notin Cuts(l) \cup {k}
      <4>1. d = Len(c) + 1 \/ \E j \in Cuts(r) : d = k + j
        BY <1>3, <3>2
      <4>2. d >= k
        BY <1>1, <1>6, <4>1
      <4>3. d \in Nat
        BY <1>1, <1>6
      <4> QED
        BY <1>1, <2>2, <2>3, <4>2, <4>3
    <3> QED
      BY <3>1, <3>2
  <2>6. EndAfter(c, b) = e
    BY <2>1, <2>2, <2>4, <2>5, EndIsOne
  <2>7. SubSeq(l, b + 1, e - 1) = SubSeq(c, b + 1, e - 1)
    BY <1>4, <2>1, <2>2, <2>3
  <2> QED
    BY <1>3, <2>6, <2>7 DEF e
<1>8. ASSUME NEW b \in Cuts(r) \cup {0}
      PROVE  /\ k + b \in Cuts(c)
             /\ SubSeq(r, b + 1, EndAfter(r, b) - 1)
                  = SubSeq(c, (k + b) + 1, EndAfter(c, k + b) - 1)
  <2>1. b \in 0 .. Len(r) /\ b \in Nat /\ k + b \in 0 .. Len(c) /\ k + b \in Nat
    BY <1>1, <1>2, <1>6
  <2> DEFINE e == EndAfter(r, b)
  <2>2. /\ e \in Cuts(r) \cup {Len(r) + 1} /\ e > b /\ e \in Nat
        /\ \A d \in Cuts(r) \cup {Len(r) + 1} : d > b => e <= d
    BY <1>2, <2>1, EndIsNext
  <2> HIDE DEF e
  <2>3. e <= Len(c) - k + 1
    BY <1>1, <1>2, <1>6, <2>2
  <2>4. k + e \in Cuts(c) \cup {Len(c) + 1}
    <3>1. CASE e \in Cuts(r)
      BY <1>3, <3>1
    <3>2. CASE e = Len(r) + 1
      BY <1>1, <1>2, <3>2
    <3> QED
      BY <2>2, <3>1, <3>2
  <2>5. ASSUME NEW d \in Cuts(c) \cup {Len(c) + 1}, d > k + b PROVE k + e <= d
    <3>1. d \in Nat
      BY <1>1, <1>6
    <3>2. CASE d = Len(c) + 1
      BY <1>1, <2>2, <2>3, <3>2
    <3>3. CASE d \in Cuts(c)
      <4>1. d \notin Cuts(l) \cup {k}
        BY <1>1, <1>6, <2>1, <2>5, <3>1
      <4>2. PICK j \in Cuts(r) : d = k + j
        BY <1>3, <3>3, <4>1
      <4>3. j > b /\ j \in Nat
        BY <1>1, <1>6, <2>1, <2>5, <4>2
      <4>4. e <= j
        BY <2>2, <4>2, <4>3
      <4> QED
        BY <1>1, <2>2, <4>2, <4>3, <4>4
    <3> QED
      BY <3>2, <3>3
  <2>6. k + e > k + b
    BY <1>1, <2>1, <2>2
  <2>7. EndAfter(c, k + b) = k + e
    BY <2>1, <2>4, <2>5, <2>6, EndIsOne
  <2>8. SubSeq(r, b + 1, e - 1) = SubSeq(c, (k + b) + 1, (k + e) - 1)
    BY <1>5, <2>1, <2>2, <2>3
  <2>9. k + b \in Cuts(c)
    <3>1. CASE b \in Cuts(r)
      BY <1>3, <3>1
    <3>2. CASE b = 0
      BY <1>1, <3>2
    <3> QED
      BY <3>1, <3>2
  <2> QED
    BY <2>7, <2>8, <2>9 DEF e
<1>9. Segments(c) = {SubSeq(c, b + 1, EndAfter(c, b) - 1) : b \in Cuts(c) \cup {0}}
  BY SegmentsByBeginning
<1>10. Segments(l) = {SubSeq(l, b + 1, EndAfter(l, b) - 1) : b \in Cuts(l) \cup {0}}
  BY SegmentsByBeginning
<1>11. Segments(r) = {SubSeq(r, b + 1, EndAfter(r, b) - 1) : b \in Cuts(r) \cup {0}}
  BY SegmentsByBeginning
<1>12. Segments(l) \subseteq Segments(c)
  BY <1>7, <1>9, <1>10
<1>13. Segments(r) \subseteq Segments(c)
  <2> SUFFICES ASSUME NEW b \in Cuts(r) \cup {0}
               PROVE  SubSeq(r, b + 1, EndAfter(r, b) - 1) \in Segments(c)
    BY <1>11
  <2>1. k + b \in Cuts(c) \cup {0}
    BY <1>8
  <2>2. SubSeq(c, (k + b) + 1, EndAfter(c, k + b) - 1) \in Segments(c)
    BY <1>9, <2>1
  <2> QED
    BY <1>8, <2>2
<1>14. ASSUME NEW b \in Cuts(c) \cup {0}
       PROVE  SubSeq(c, b + 1, EndAfter(c, b) - 1) \in Segments(l) \cup Segments(r)
  <2>1. CASE b \in Cuts(l) \cup {0}
    BY <1>7, <1>10, <2>1
  <2>2. CASE b = k
    <3>1. 0 \in Cuts(r) \cup {0} /\ k + 0 = k
      BY <1>1
    <3>2. SubSeq(r, 0 + 1, EndAfter(r, 0) - 1) \in Segments(r)
      BY <1>11, <3>1
    <3> QED
      BY <1>8, <2>2, <3>1, <3>2
  <2>3. CASE \E j \in Cuts(r) : b = k + j
    <3>1. PICK j \in Cuts(r) : b = k + j
      BY <2>3
    <3>2. SubSeq(r, j + 1, EndAfter(r, j) - 1) \in Segments(r)
      BY <1>11
    <3> QED
      BY <1>8, <3>1, <3>2
  <2> QED
    BY <1>3, <2>1, <2>2, <2>3
<1>15. Segments(c) \subseteq Segments(l) \cup Segments(r)
  BY <1>9, <1>14
<1> QED
  BY <1>12, <1>13, <1>15 DEF l, r

\* An operator that no escaped quote precedes divides a command exactly where
\* shell_words finds no quote open in what comes before.
LEMMA DividesAtCuts ==
  ASSUME NEW c \in Seq(Tokens), NEW k \in DOMAIN c,
         TokensIn(SubSeq(c, 1, k - 1)) \cap Escaped = {}
  PROVE  Parsable(SubSeq(c, 1, k - 1)) <=> OpenQuote(c)[k - 1] = "none"
<1> DEFINE l == SubSeq(c, 1, k - 1)
<1>1. k \in 1 .. Len(c) /\ Len(c) \in Nat /\ k \in Nat /\ l \in Seq(Tokens)
  OBVIOUS
<1>2. OpenQuote(c)[0] = "none"
  BY OpenQuoteRecursion
<1>3. 0 \in 0 .. Len(c) /\ k - 1 \in 0 .. Len(c) /\ (k - 1) - 0 = k - 1 /\ 0 + 1 = 1
      /\ 0 + (k - 1) = k - 1 /\ k - 1 \in 0 .. (k - 1) - 0
  BY <1>1
<1>4. OpenQuote(SubSeq(c, 0 + 1, k - 1))[k - 1] = OpenQuote(c)[0 + (k - 1)]
  BY <1>2, <1>3, OpenQuoteOfPiece
<1>5. Len(SubSeq(c, 0 + 1, k - 1)) = (k - 1) - 0
  BY <1>3, LengthOfPiece
<1>6. Len(l) = k - 1 /\ OpenQuote(l)[k - 1] = OpenQuote(c)[k - 1]
  BY <1>3, <1>4, <1>5
<1> HIDE DEF l
<1>7. ShellQuote(l)[k - 1] = OpenQuote(l)[k - 1]
  <2>1. TokensIn(l) \cap Escaped = {}
    BY DEF l
  <2>2. k - 1 \in 0 .. Len(l)
    BY <1>3, <1>6
  <2> QED
    BY <1>1, <2>1, <2>2, SameQuotes
<1>8. Parsable(l) <=> OpenQuote(c)[k - 1] = "none"
  BY <1>6, <1>7 DEF Parsable
<1> QED
  BY <1>8 DEF l

\* The verdict on a command is the stricter of those on its parts around any
\* unquoted operator.
LEMMA StricterOfParts ==
  ASSUME NEW c \in Seq(Tokens), NEW k \in Cuts(c)
  PROVE  Check(c) = Strictest({Check(SubSeq(c, 1, k - 1)), Check(SubSeq(c, k + 1, Len(c)))})
<1> DEFINE l == SubSeq(c, 1, k - 1)
           r == SubSeq(c, k + 1, Len(c))
           V(d) == {SegmentVerdict(s) : s \in Segments(d)}
<1>1. k \in DOMAIN c /\ c[k] \in Operators
  BY DEF Cuts
<1>2. TokensIn(c) = TokensIn(l) \cup {c[k]} \cup TokensIn(r)
  BY <1>1, TokensOfPieces
<1>3. Segments(c) = Segments(l) \cup Segments(r)
  BY SegmentsOfPieces
<1>4. c[k] \notin Substitution
  BY <1>1, PolicyAssumption
<1>5. Check(l) \in Actions /\ Check(r) \in Actions
  BY CheckAction
<1> HIDE DEF l, r
<1>6. \A d : V(d) \subseteq Actions /\ V(d) # {}
  <2> TAKE d
  <2>1. V(d) \subseteq Actions
    BY SegmentAction
  <2>2. V(d) # {}
    BY SegmentsByBeginning
  <2> QED
    BY <2>1, <2>2
<1>7. V(c) = V(l) \cup V(r)
  BY <1>3
<1>8. \A d : Check(d) = IF TokensIn(d) \cap Substitution # {} THEN "deny" ELSE Strictest(V(d))
  BY DEF Check
<1> HIDE DEF V
<1>9. CASE TokensIn(l) \cap Substitution # {} \/ TokensIn(r) \cap Substitution # {}
  <2>1. Check(c) = "deny" /\ "deny" \in {Check(l), Check(r)}
    BY <1>2, <1>8, <1>9
  <2>2. Strictest({Check(l), Check(r)}) = "deny"
    BY <1>5, <2>1, StrictestOf
  <2> QED
    BY <2>1, <2>2 DEF l, r
<1>10. CASE TokensIn(l) \cap Substitution = {} /\ TokensIn(r) \cap Substitution = {}
  <2>1. Check(c) = Strictest(V(l) \cup V(r)) /\ Check(l) = Strictest(V(l)) /\ Check(r) = Strictest(V(r))
    BY <1>2, <1>4, <1>7, <1>8, <1>10
  <2>2. ASSUME NEW d
        PROVE  Strictest(V(d)) = IF "deny" \in V(d) THEN "deny"
                                 ELSE IF "ask" \in V(d) THEN "ask" ELSE "auto"
    BY <1>6, StrictestOf
  <2>3. Strictest(V(l) \cup V(r)) =
          IF "deny" \in V(l) \cup V(r) THEN "deny"
          ELSE IF "ask" \in V(l) \cup V(r) THEN "ask" ELSE "auto"
    <3>1. V(l) \cup V(r) \subseteq Actions /\ V(l) \cup V(r) # {}
      BY <1>6
    <3> QED
      BY <3>1, StrictestOf
  <2>4. Strictest({Check(l), Check(r)}) =
          IF "deny" \in {Check(l), Check(r)} THEN "deny"
          ELSE IF "ask" \in {Check(l), Check(r)} THEN "ask" ELSE "auto"
    BY <1>5, StrictestOf
  <2> QED
    BY <2>1, <2>2, <2>3, <2>4 DEF l, r
<1> QED
  BY <1>9, <1>10

\* A command that nothing divides is one segment.
LEMMA UndividedIsSegment ==
  ASSUME NEW c \in Seq(Tokens), Cuts(c) = {}, TokensIn(c) \cap Substitution = {}
  PROVE  Check(c) = SegmentVerdict(c)
<1>1. EndAfter(c, 0) = Len(c) + 1
  BY EndIsNext
<1>2. Segments(c) = {SubSeq(c, 0 + 1, (Len(c) + 1) - 1)}
  BY <1>1, SegmentsByBeginning
<1>3. SubSeq(c, 0 + 1, (Len(c) + 1) - 1) = c
  OBVIOUS
<1>4. {SegmentVerdict(s) : s \in Segments(c)} = {SegmentVerdict(c)}
  BY <1>2, <1>3
<1>5. SegmentVerdict(c) \in Actions
  BY SegmentAction
<1>6. Strictest({SegmentVerdict(c)}) = SegmentVerdict(c)
  BY <1>5, StrictestOf DEF Actions
<1> QED
  BY <1>4, <1>6 DEF Check

-----------------------------------------------------------------------------
(* The verdicts on the calls of the reply.                                 *)

\* What is counted: the text sent, the escalations.
Counts ==
  /\ pc \in {"stream", "judge", "done", "failed"}
  /\ said.text <= MaxText
  /\ usage \subseteq {"prompt", "completion"}
  /\ errors \in Seq(0 .. Len(Chain))
  /\ Len(errors) = tier - 1 + (IF pc = "failed" THEN 1 ELSE 0)

\* Only the last piece of the arguments can be the one that makes them parse.
BraceLast ==
  \A n \in DOMAIN calls : \A i \in 1 .. Len(calls[n].args) - 1 : calls[n].args[i] \in Tokens

\* The calls are judged in order once the reply is whole, each on the command
\* in its arguments.
Judged ==
  /\ verdicts \in Seq([command : Seq(Tokens), verdict : Actions])
  /\ pc \in {"stream", "failed"} => verdicts = <<>>
  /\ pc = "judge" => Len(verdicts) < Len(calls)
  /\ Len(verdicts) <= Len(calls)
  /\ \A n \in DOMAIN verdicts :
       /\ verdicts[n].command = Command(calls[n].args)
       /\ verdicts[n].verdict = VerdictFor(calls[n].tool, Command(calls[n].args))

JInv == IInv /\ Counts /\ BraceLast /\ Judged

-----------------------------------------------------------------------------
\* Arguments that do not parse leave no command, and that is denied: a stream
\* that ends early leaves nothing to run.
LEMMA EmptyCommandDenied == Check(<<>>) = "deny"
<1>1. <<>> \in Seq(Tokens) /\ TokensIn(<<>>) = {} /\ Cuts(<<>>) = {}
  BY DEF TokensIn, Cuts
<1>2. Check(<<>>) = SegmentVerdict(<<>>)
  BY <1>1, UndividedIsSegment
<1>3. Argv(<<>>) = <<>>
  <2> DEFINE open == ShellQuote(<<>>)
             Next1(f, i, t) ==
               CASE open[i - 1] = "none" /\ open[i] # "none" -> Append(f[i - 1], <<>>)
                 [] open[i - 1] = "none" /\ open[i] = "none" -> Append(f[i - 1], <<t>>)
                 [] open[i - 1] # "none" /\ open[i] = "none" /\ t \in Quotes -> f[i - 1]
                 [] OTHER -> [f[i - 1] EXCEPT ![Len(f[i - 1])] = Append(@, t)]
             Good(f) == f = [i \in 0 .. Len(<<>>) |->
                               IF i = 0 THEN <<>> ELSE Next1(f, i, <<>>[i])]
  <2>1. Argv(<<>>) = (CHOOSE f : Good(f))[Len(<<>>)]
    BY DEF Argv
  <2> HIDE DEF Next1
  <2>2. Good([i \in 0 .. 0 |-> <<>>])
    OBVIOUS
  <2>3. Good(CHOOSE f : Good(f))
    <3> HIDE DEF Good
    <3> QED
      BY <2>2
  <2>4. \A f : Good(f) => f[0] = <<>>
    OBVIOUS
  <2> HIDE DEF Good
  <2>5. Len(<<>>) = 0
    OBVIOUS
  <2> QED
    BY <2>1, <2>3, <2>4, <2>5
<1> QED
  BY <1>2, <1>3 DEF SegmentVerdict

LEMMA VerdictAction ==
  ASSUME NEW tool, NEW command PROVE VerdictFor(tool, command) \in Actions
BY CheckAction DEF VerdictFor, Actions

\* The command is the arguments without the piece that ends them.
LEMMA CommandOfArgs ==
  ASSUME NEW args \in Seq(Tokens \cup {Brace}),
         \A i \in 1 .. Len(args) - 1 : args[i] \in Tokens
  PROVE  /\ Command(args) \in Seq(Tokens)
         /\ Parses(args) => Append(Command(args), Brace) = args
<1>1. CASE ~Parses(args)
  BY <1>1 DEF Command
<1>2. CASE Parses(args)
  <2>1. args # <<>> /\ args[Len(args)] = Brace /\ Len(args) \in Nat /\ Len(args) > 0
    BY <1>2 DEF Parses, Last
  <2> DEFINE n == Len(args) - 1
             c == SubSeq(args, 1, n)
  <2>2. n \in Nat /\ Len(args) = n + 1
    BY <2>1
  <2> HIDE DEF n
  <2>3. c \in Seq(Tokens \cup {Brace}) /\ Len(c) = n /\ \A i \in 1 .. n : c[i] = args[i]
    <3>1. 1 \in 1 .. Len(args) + 1 /\ n \in 0 .. Len(args)
      BY <2>2
    <3>2. c \in Seq(Tokens \cup {Brace})
      BY <3>1
    <3>3. Len(c) = n
      BY <3>1, <2>2
    <3>4. \A i \in 1 .. n : c[i] = args[i]
      BY <3>1, <2>2
    <3> QED
      BY <3>2, <3>3, <3>4
  <2> HIDE DEF c
  <2>4. \A i \in 1 .. n : c[i] \in Tokens
    BY <2>3 DEF n
  <2>5. c \in Seq(Tokens)
    BY <2>2, <2>3, <2>4
  <2>6. Append(c, Brace) = [i \in 1 .. n + 1 |-> IF i = n + 1 THEN Brace ELSE c[i]]
    <3> DEFINE b == Append(c, Brace)
    <3>1. b \in Seq(Tokens \cup {Brace}) /\ Len(b) = n + 1
      BY <2>2, <2>3
    <3>2. \A i \in 1 .. n + 1 : b[i] = IF i = n + 1 THEN Brace ELSE c[i]
      BY <2>2, <2>3
    <3> HIDE DEF b
    <3>3. b = [i \in 1 .. n + 1 |-> b[i]]
      BY <3>1
    <3>4. b = [i \in 1 .. n + 1 |-> IF i = n + 1 THEN Brace ELSE c[i]]
      BY <3>2, <3>3
    <3> QED
      BY <3>4 DEF b
  <2>7. args = [i \in 1 .. n + 1 |-> args[i]]
    BY <2>2
  <2>8. \A i \in 1 .. n + 1 : args[i] = IF i = n + 1 THEN Brace ELSE c[i]
    BY <2>1, <2>2, <2>3
  <2>9. Append(c, Brace) = args
    BY <2>6, <2>7, <2>8
  <2>10. Command(args) = c
    BY <1>2 DEF Command, c, n
  <2> QED
    BY <2>5, <2>9, <2>10
<1> QED
  BY <1>1, <1>2

-----------------------------------------------------------------------------
LEMMA JudgingInitially == Init => JInv
<1> SUFFICES ASSUME Init PROVE JInv
  OBVIOUS
<1>1. IInv
  BY Initially
<1>2. Counts
  BY ReplyAssumption DEF Init, Counts
<1> QED
  BY <1>1, <1>2 DEF Init, JInv, BraceLast, Judged

\* The frames of a reply leave the verdicts alone.
LEMMA SendsStep ==
  ASSUME JInv, [Next]_vars, Sends, said'.text <= MaxText,
         usage' \subseteq {"prompt", "completion"}, BraceLast'
  PROVE  JInv'
<1>1. UNCHANGED <<pc, tier, errors, verdicts>> /\ pc = "stream"
  BY DEF Sends
<1>2. verdicts = <<>>
  BY <1>1 DEF JInv, Judged
<1>3. IInv'
  BY Step DEF JInv
<1>4. Counts'
  BY <1>1 DEF JInv, Counts
<1>5. Len(calls') \in Nat
  BY <1>3 DEF IInv, StreamTypes
<1>6. Judged'
  BY <1>1, <1>2, <1>5 DEF JInv, Judged
<1> QED
  BY <1>3, <1>4, <1>6 DEF JInv

LEMMA JudgingStep == ASSUME JInv, [Next]_vars PROVE JInv'
<1>0. IInv' /\ IInv
  BY Step DEF JInv
<1>1. /\ calls \in Seq(Call) /\ calls' \in Seq(Call) /\ calls = said.calls /\ calls' = said'.calls
      /\ said \in [text : Nat, calls : Seq(Call)] /\ tier \in DOMAIN Chain /\ tier' \in DOMAIN Chain
  BY <1>0 DEF IInv, StreamTypes, ReplyOfOneTier
<1>2. said.text <= MaxText /\ usage \subseteq {"prompt", "completion"} /\ MaxText \in Nat
  BY ReplyAssumption DEF JInv, Counts
<1>3. CASE Text
  <2>1. Sends /\ calls' = calls /\ usage' = usage /\ said.text < MaxText
        /\ said' = [said EXCEPT !.text = said.text + 1]
    BY <1>3 DEF Text
  <2>2. said'.text <= MaxText
    <3>1. said'.text = said.text + 1
      BY <1>1, <2>1
    <3> QED
      BY <1>1, <1>2, <2>1, <3>1
  <2>3. BraceLast'
    BY <2>1 DEF JInv, BraceLast
  <2> QED
    BY <1>2, <2>1, <2>2, <2>3, SendsStep
<1>4. CASE StartCall
  <2>1. PICK tool \in Tools :
          said' = [said EXCEPT !.calls = Append(said.calls, [tool |-> tool, args |-> <<>>])]
    BY <1>4 DEF StartCall
  <2>2. said'.text = said.text /\ calls' = Append(calls, [tool |-> tool, args |-> <<>>])
    BY <1>1, <2>1
  <2> DEFINE call == [tool |-> tool, args |-> <<>>]
  <2>3. call \in Call /\ call.args = <<>>
    BY <2>1 DEF Call
  <2> HIDE DEF call
  <2>4. /\ Len(calls') = Len(calls) + 1 /\ calls'[Len(calls) + 1] = call
        /\ \A n \in DOMAIN calls : calls'[n] = calls[n]
        /\ DOMAIN calls' = 1 .. Len(calls) + 1 /\ DOMAIN calls = 1 .. Len(calls)
    BY <1>1, <2>2, <2>3 DEF call
  <2>5. BraceLast'
    <3> SUFFICES ASSUME NEW n \in DOMAIN calls'
                 PROVE  \A i \in 1 .. Len(calls'[n].args) - 1 : calls'[n].args[i] \in Tokens
      BY DEF BraceLast
    <3>1. CASE n \in DOMAIN calls
      BY <2>4, <3>1 DEF JInv, BraceLast
    <3>2. CASE n \notin DOMAIN calls
      <4>1. calls'[n].args = <<>>
        BY <2>3, <2>4, <3>2
      <4> QED
        BY <4>1
    <3> QED
      BY <3>1, <3>2
  <2> QED
    BY <1>2, <1>4, <2>2, <2>5, SendsStep DEF StartCall
<1>5. CASE Piece
  <2>1. PICK i \in DOMAIN said.calls, p \in Tokens \cup {Brace} :
          /\ ~Parses(said.calls[i].args)
          /\ said' = [said EXCEPT !.calls[i].args = Append(@, p)]
    BY <1>5 DEF Piece
  <2> DEFINE old == calls[i].args
  <2>2. i \in DOMAIN calls /\ calls[i] \in Call
    BY <1>1, <2>1
  <2>3. old \in Seq(Tokens \cup {Brace})
    BY <2>2 DEF Call
  <2>4. /\ said'.text = said.text
        /\ calls' = [calls EXCEPT ![i].args = Append(@, p)]
    BY <1>1, <2>1
  <2>5. \A n \in DOMAIN calls : n # i => calls'[n] = calls[n]
    BY <2>4
  <2>6. DOMAIN calls' = DOMAIN calls /\ calls'[i].args = Append(old, p)
    BY <2>2, <2>4 DEF Call
  <2>7. \A k \in 1 .. Len(old) - 1 : old[k] \in Tokens
    BY <2>2 DEF JInv, BraceLast
  <2>8. old # <<>> => old[Len(old)] # Brace
    BY <1>1, <2>1 DEF Parses, Last
  <2> HIDE DEF old
  <2>9. \A k \in 1 .. Len(old) : old[k] \in Tokens
    <3> SUFFICES ASSUME NEW k \in 1 .. Len(old) PROVE old[k] \in Tokens
      OBVIOUS
    <3>1. old[k] \in Tokens \cup {Brace} /\ old # <<>> /\ Len(old) \in Nat
      BY <2>3
    <3> QED
      BY <2>7, <2>8, <3>1
  <2>10. /\ Len(Append(old, p)) = Len(old) + 1
         /\ \A k \in 1 .. Len(old) : Append(old, p)[k] = old[k]
    BY <2>3
  <2>11. BraceLast'
    <3> SUFFICES ASSUME NEW n \in DOMAIN calls, NEW k \in 1 .. Len(calls'[n].args) - 1
                 PROVE  calls'[n].args[k] \in Tokens
      BY <2>6 DEF BraceLast
    <3>1. CASE n = i
      <4>1. k \in 1 .. Len(old)
        BY <2>3, <2>6, <2>10, <3>1
      <4> QED
        BY <2>6, <2>9, <2>10, <3>1, <4>1
    <3>2. CASE n # i
      BY <2>5, <3>2 DEF JInv, BraceLast
    <3> QED
      BY <3>1, <3>2
  <2> QED
    BY <1>2, <1>5, <2>4, <2>11, SendsStep DEF Piece
<1>6. CASE Usage
  <2>1. Sends /\ UNCHANGED <<said, calls>> /\ usage' \subseteq {"prompt", "completion"}
    BY <1>2, <1>6 DEF Usage
  <2>2. BraceLast'
    BY <2>1 DEF JInv, BraceLast
  <2> QED
    BY <1>2, <2>1, <2>2, SendsStep
<1>7. CASE StreamEnds
  <2>1. /\ pc = "stream" /\ pc' = (IF calls = <<>> THEN "done" ELSE "judge")
        /\ UNCHANGED <<tier, said, content, calls, usage, errors, verdicts>>
    BY <1>7 DEF StreamEnds
  <2>2. verdicts = <<>>
    BY <2>1 DEF JInv, Judged
  <2>3. calls # <<>> => 0 < Len(calls)
    BY <1>1
  <2>4. Counts' /\ BraceLast'
    BY <2>1 DEF JInv, Counts, BraceLast
  <2>5. Judged'
    BY <1>1, <2>1, <2>2, <2>3 DEF JInv, Judged
  <2> QED
    BY <1>0, <2>4, <2>5 DEF JInv
<1>8. CASE TransportError
  <2>1. /\ pc = "stream" /\ calls' = <<>> /\ usage' = {} /\ said' = [text |-> 0, calls |-> <<>>]
        /\ verdicts' = verdicts
    BY <1>8 DEF TransportError, FreshAccumulators
  <2>2. tier \in 1 .. Len(Chain) /\ Len(Chain) \in Nat
    BY <1>1, ReplyAssumption
  <2>3. \/ pc' = "failed" /\ tier' = tier /\ errors' = Append(errors, 0)
        \/ pc' = pc /\ tier' = tier + 1 /\ tier < Len(Chain) /\ errors' = Append(errors, tier + 1)
    BY <1>8, <2>2 DEF TransportError, NextTier
  <2>4. errors \in Seq(0 .. Len(Chain)) /\ Len(errors) = tier - 1
    <3>1. Len(errors) = tier - 1 + 0
      BY <2>1 DEF JInv, Counts
    <3>2. errors \in Seq(0 .. Len(Chain))
      BY DEF JInv, Counts
    <3> QED
      BY <2>2, <3>1, <3>2
  <2>5. errors' \in Seq(0 .. Len(Chain)) /\ Len(errors') = Len(errors) + 1
    BY <2>2, <2>3, <2>4
  <2>6. Counts'
    BY <1>2, <2>1, <2>2, <2>3, <2>4, <2>5 DEF Counts
  <2>7. verdicts = <<>>
    BY <2>1 DEF JInv, Judged
  <2>8. BraceLast' /\ Judged'
    BY <2>1, <2>3, <2>7 DEF BraceLast, Judged
  <2> QED
    BY <1>0, <2>6, <2>8 DEF JInv
<1>9. CASE Judge
  <2> DEFINE n == Len(verdicts) + 1
             command == Command(calls[n].args)
             v == [command |-> command, verdict |-> VerdictFor(calls[n].tool, command)]
  <2>1. /\ pc = "judge" /\ verdicts' = Append(verdicts, v)
        /\ pc' = (IF Len(verdicts') = Len(calls) THEN "done" ELSE "judge")
        /\ UNCHANGED <<tier, said, content, calls, usage, shown, errors>>
    BY <1>9 DEF Judge
  <2>2. /\ verdicts \in Seq([command : Seq(Tokens), verdict : Actions])
        /\ Len(verdicts) < Len(calls)
    BY <2>1 DEF JInv, Judged
  <2>3. n \in DOMAIN calls
    BY <1>1, <2>2
  <2>4. calls[n] \in Call
    BY <1>1, <2>3
  <2>5. command \in Seq(Tokens)
    <3>1. calls[n].args \in Seq(Tokens \cup {Brace})
      BY <2>4 DEF Call
    <3>2. \A i \in 1 .. Len(calls[n].args) - 1 : calls[n].args[i] \in Tokens
      BY <2>3 DEF JInv, BraceLast
    <3> QED
      BY <3>1, <3>2, CommandOfArgs
  <2>6. v \in [command : Seq(Tokens), verdict : Actions]
    BY <2>5, VerdictAction
  <2>7. v.command = command /\ v.verdict = VerdictFor(calls[n].tool, command)
    OBVIOUS
  <2> HIDE DEF v
  <2>8. /\ verdicts' \in Seq([command : Seq(Tokens), verdict : Actions])
        /\ Len(verdicts') = n /\ verdicts'[n] = v
        /\ DOMAIN verdicts' = 1 .. n /\ DOMAIN verdicts = 1 .. n - 1
        /\ \A i \in 1 .. n - 1 : verdicts'[i] = verdicts[i]
    BY <2>1, <2>2, <2>6
  <2>9. \A i \in DOMAIN verdicts' :
          /\ verdicts'[i].command = Command(calls'[i].args)
          /\ verdicts'[i].verdict = VerdictFor(calls'[i].tool, Command(calls'[i].args))
    <3> SUFFICES ASSUME NEW i \in DOMAIN verdicts'
                 PROVE  /\ verdicts'[i].command = Command(calls[i].args)
                        /\ verdicts'[i].verdict = VerdictFor(calls[i].tool, Command(calls[i].args))
      BY <2>1
    <3>1. CASE i = n
      BY <2>7, <2>8, <3>1
    <3>2. CASE i # n
      <4>1. i \in DOMAIN verdicts /\ verdicts'[i] = verdicts[i]
        BY <2>2, <2>8, <3>2
      <4> QED
        BY <4>1 DEF JInv, Judged
    <3> QED
      BY <3>1, <3>2
  <2>10. Counts' /\ BraceLast'
    BY <2>1 DEF JInv, Counts, BraceLast
  <2>11. Len(calls) \in Nat /\ Len(verdicts) \in Nat /\ n <= Len(calls)
    BY <1>1, <2>2
  <2> HIDE DEF n
  <2>12. Judged'
    BY <2>1, <2>8, <2>9, <2>11 DEF Judged
  <2> QED
    BY <1>0, <2>10, <2>12 DEF JInv
<1>10. CASE UNCHANGED vars
  <2>1. Counts' /\ BraceLast' /\ Judged'
    BY <1>10 DEF vars, JInv, Counts, BraceLast, Judged
  <2> QED
    BY <1>0, <2>1 DEF JInv
<1> QED
  BY <1>3, <1>4, <1>5, <1>6, <1>7, <1>8, <1>9, <1>10 DEF Next

\* JInv holds in every state.
THEOREM JudgingInvariance == Spec => []JInv
<1>1. JInv /\ [Next]_vars => JInv'
  BY JudgingStep
<1> QED
  BY JudgingInitially, <1>1, PTL DEF Spec

\* Type correctness: in particular every call of the reply gets one of the
\* three verdicts, none before the reply is whole, and each error moves the
\* call one tier up the chain.
THEOREM TypeCorrect == Spec => []TypeOK
<1>1. JInv => TypeOK
  <2> SUFFICES ASSUME JInv PROVE TypeOK
    OBVIOUS
  <2>1. /\ tier \in 1 .. Len(Chain) /\ said \in [text : Nat, calls : Seq(Call)]
        /\ content \in Seq(DOMAIN Chain) /\ calls \in Seq(Call) /\ shown \in Seq(DOMAIN Chain)
    BY ReplyAssumption DEF JInv, IInv, StreamTypes
  <2>2. said.text <= MaxText /\ MaxText \in Nat
    BY ReplyAssumption DEF JInv, Counts
  <2>3. said \in [text : 0 .. MaxText, calls : Seq(Call)]
    <3> HIDE DEF Call
    <3> QED
      BY <2>1, <2>2
  <2> QED
    BY <2>1, <2>3 DEF JInv, Counts, Judged, TypeOK
<1> QED
  BY <1>1, JudgingInvariance, PTL

\* Whatever is cut off a reply, no shorter command than the one sent is run or
\* asked about: what does not parse is judged as nothing, and denied (the
\* unwrap_or_default of the arguments and the empty segment of check).
THEOREM CommandsWhole == Spec => []CommandWhole
<1>1. JInv => CommandWhole
  <2> SUFFICES ASSUME JInv, NEW n \in DOMAIN verdicts,
                      said.calls[n].tool = "terminal", verdicts[n].verdict # "deny"
               PROVE  Append(verdicts[n].command, Brace) = said.calls[n].args
    BY DEF CommandWhole
  <2>1. calls = said.calls /\ calls \in Seq(Call)
    BY DEF JInv, IInv, StreamTypes, ReplyOfOneTier
  <2>2. /\ verdicts[n].command = Command(calls[n].args)
        /\ verdicts[n].verdict = VerdictFor(calls[n].tool, Command(calls[n].args))
    BY DEF JInv, Judged
  <2>3. n \in DOMAIN calls
    <3>1. Len(verdicts) <= Len(calls) /\ Len(verdicts) \in Nat /\ Len(calls) \in Nat
          /\ DOMAIN verdicts = 1 .. Len(verdicts)
      BY <2>1 DEF JInv, Judged
    <3> QED
      BY <2>1, <3>1
  <2>4. calls[n] \in Call
    BY <2>1, <2>3
  <2>5. calls[n].args \in Seq(Tokens \cup {Brace})
    BY <2>4 DEF Call
  <2>6. \A i \in 1 .. Len(calls[n].args) - 1 : calls[n].args[i] \in Tokens
    BY <2>3 DEF JInv, BraceLast
  <2>7. VerdictFor(calls[n].tool, Command(calls[n].args)) = Check(Command(calls[n].args))
    BY <2>1 DEF VerdictFor
  <2>8. Parses(calls[n].args)
    BY <2>2, <2>7, EmptyCommandDenied DEF Command
  <2> QED
    BY <2>1, <2>2, <2>5, <2>6, <2>8, CommandOfArgs
<1> QED
  BY <1>1, JudgingInvariance, PTL

\* Wherever an operator divides a command, its verdict is the stricter of the
\* verdicts on the parts, and undivided it is that of one command, for commands
\* of any length and any rules.  The operators that divide are those the
\* splitter finds outside quotes, among them, where no escaped quote precedes
\* it, every operator that shell_words finds outside quotes
\* (split_raw_segments, check).
THEOREM StrictestPartWins == Spec => []StrictestWins
<1>1. JInv => StrictestWins
  <2> SUFFICES ASSUME JInv, NEW n \in DOMAIN verdicts PROVE StrictestWins!(n)
    BY DEF StrictestWins
  <2> DEFINE command == verdicts[n].command
             Left(k)  == SubSeq(command, 1, k - 1)
             Right(k) == SubSeq(command, k + 1, Len(command))
             divides  == {k \in DOMAIN command : command[k] \in Operators /\
                            \/ OpenQuote(command)[k - 1] = "none"
                            \/ TokensIn(Left(k)) \cap Escaped = {} /\ Parsable(Left(k))}
  <2>1. verdicts[n] \in [command : Seq(Tokens), verdict : Actions]
    <3> DEFINE Verdict == [command : Seq(Tokens), verdict : Actions]
    <3>1. verdicts \in Seq(Verdict)
      BY DEF JInv, Judged
    <3> HIDE DEF Verdict
    <3>2. verdicts[n] \in Verdict
      BY <3>1
    <3> QED
      BY <3>2 DEF Verdict
  <2>2. command \in Seq(Tokens)
    BY <2>1
  <2> HIDE DEF command
  <2>3. divides = Cuts(command)
    BY <2>2, DividesAtCuts DEF Cuts
  <2> HIDE DEF divides
  <2>4. \A k \in divides : Check(command) = Strictest({Check(Left(k)), Check(Right(k))})
    BY <2>2, <2>3, StricterOfParts
  <2>5. divides = {} /\ TokensIn(command) \cap Substitution = {} =>
          Check(command) = SegmentVerdict(command)
    BY <2>2, <2>3, UndividedIsSegment
  <2> QED
    BY <2>4, <2>5 DEF command, divides
<1> QED
  BY <1>1, JudgingInvariance, PTL

=============================================================================
