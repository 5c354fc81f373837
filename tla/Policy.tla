------------------------------- MODULE Policy -------------------------------
(***************************************************************************)
(* The verdict on a shell command (daemon/crates/policy/src/lib.rs).       *)
(*                                                                         *)
(* A command is a sequence of tokens: words, control operators, quotes,    *)
(* escaped quotes and substitution marks, with spaces in between but for   *)
(* those that would be the first or the last of a quoted text.  An         *)
(* argument is the sequence of the tokens of one word, or of one quoted    *)
(* text.  A glob is the set of the arguments it matches; the fixed tables  *)
(* of the code are given as the words they mention.                        *)
(*                                                                         *)
(* Two tokenizers read a command: split_raw_segments, which knows no       *)
(* escapes, and the library shell_words, which does.  What a shell divides *)
(* a line at and neither of them does, a single & and the end of a line,   *)
(* is a word like any other and a space.                                   *)
(***************************************************************************)
EXTENDS Naturals, Sequences, FiniteSets

CONSTANTS
  Words,          \* the words of commands
  Operators,      \* the control operators: && || ; |
  Quotes,         \* the single and the double quote
  Raw,            \* those of them in which a backslash is a character
  Escaped,        \* a backslash and the quote after it
  QuoteOf,        \* that quote, of each of them
  Substitution,   \* a backquote, and a dollar sign with a parenthesis
  Rules,          \* the user's rules: a sequence of [globs, action]
  DenyTable,      \* TABLE of hard_deny: a set of sequences of globs
  RmFlags,        \* words that begin with - and contain r and f
  Sealed,         \* words that contain the path of mint.sh or of .ssh
  Devices,        \* words that begin with of=/dev/
  EnvFiles,       \* words that end with .env
  ReadOnly,       \* READONLY and GIT_RO: a set of sequences of words
  Mutating        \* per read-only prefix, the words that make it mutating

Tokens  == Words \cup Operators \cup Quotes \cup Escaped \cup Substitution
Actions == {"auto", "ask", "deny"}

ASSUME PolicyAssumption ==
  /\ Words \cap (Operators \cup Quotes \cup Substitution) = {}
  /\ Operators \cap Quotes = {} /\ "none" \notin Quotes
  /\ Escaped \cap (Words \cup Operators \cup Quotes \cup Substitution) = {}
  /\ Raw \subseteq Quotes /\ QuoteOf \in [Escaped -> Quotes]
  /\ (Operators \cup Quotes) \cap Substitution = {}
  /\ Len(Rules) \in Nat /\ DOMAIN Rules = 1 .. Len(Rules)
  /\ \A n \in DOMAIN Rules : Rules[n].action \in Actions
  /\ DOMAIN Mutating \subseteq ReadOnly

Any == Seq(Tokens)      \* the glob *
Word(w) == {<<w>>}      \* a glob without wildcards

TokensIn(s) == {s[i] : i \in DOMAIN s}

-----------------------------------------------------------------------------
(* split_raw_segments: the operators outside quotes end a segment.  The    *)
(* quote that is open before a token decides what the token means.         *)

\* Without its backslash.
Bare(t) == IF t \in Escaped THEN QuoteOf[t] ELSE t

\* The quote that is open after each token: an escaped quote is a quote.
OpenQuote(command) ==
  LET f[i \in 0 .. Len(command)] ==
        IF i = 0 THEN "none"
        ELSE LET open == f[i - 1]
                 t    == Bare(command[i])
             IN  IF open = "none" THEN IF t \in Quotes THEN t ELSE "none"
                 ELSE IF t = open THEN "none" ELSE open
  IN  f

\* Where segments end, quoted or not.
CutsAnywhere(command) ==
  {i \in DOMAIN command : command[i] \in Operators}

Cuts(command) ==
  {i \in DOMAIN command : command[i] \in Operators /\ OpenQuote(command)[i - 1] = "none"}

\* The segments, by where they begin.
Segments(command) ==
  LET ends == Cuts(command) \cup {Len(command) + 1}
      EndOf(b) == CHOOSE e \in ends : e > b /\ \A d \in ends : d > b => e <= d
  IN  {SubSeq(command, b + 1, EndOf(b) - 1) : b \in Cuts(command) \cup {0}}

-----------------------------------------------------------------------------
(* shell_words::split: the words and the quoted texts, or an error if a    *)
(* quote is open at the end.                                               *)

\* The quote that is open after each token: an escaped quote is a character,
\* but in a raw quote only its backslash is.
ShellQuote(segment) ==
  LET f[i \in 0 .. Len(segment)] ==
        IF i = 0 THEN "none"
        ELSE LET open == f[i - 1]
                 t    == IF open \in Raw THEN Bare(segment[i]) ELSE segment[i]
             IN  IF open = "none" THEN IF t \in Quotes THEN t ELSE "none"
                 ELSE IF t = open THEN "none" ELSE open
  IN  f

Parsable(segment) == ShellQuote(segment)[Len(segment)] = "none"

Argv(segment) ==
  LET open == ShellQuote(segment)
      f[i \in 0 .. Len(segment)] ==
        IF i = 0 THEN <<>>
        ELSE LET t == segment[i]
                 n == Len(f[i - 1])
             IN  CASE open[i - 1] = "none" /\ open[i] # "none" -> Append(f[i - 1], <<>>)
                   [] open[i - 1] = "none" /\ open[i] = "none" -> Append(f[i - 1], <<t>>)
                   [] open[i - 1] # "none" /\ open[i] = "none" /\ t \in Quotes -> f[i - 1]
                   [] OTHER -> [f[i - 1] EXCEPT ![n] = Append(@, t)]
  IN  f[Len(segment)]

-----------------------------------------------------------------------------
\* rule_matches: the globs match the first arguments.
Matches(globs, argv) ==
  Len(argv) >= Len(globs) /\ \A i \in DOMAIN globs : argv[i] \in globs[i]

First(argv, w) == argv # <<>> /\ argv[1] = <<w>>
EndsWith(arg, words) == arg # <<>> /\ arg[Len(arg)] \in words
StartsWith(arg, words) == arg # <<>> /\ arg[1] \in words

HardDeny(argv) ==
  \/ \E globs \in DenyTable : Matches(globs, argv)
  \/ First(argv, "dd") /\ \E i \in DOMAIN argv : StartsWith(argv[i], Devices)
  \/ First(argv, "rm") /\ \E i \in DOMAIN argv : StartsWith(argv[i], RmFlags)
  \/ \E i \in DOMAIN argv : TokensIn(argv[i]) \cap Sealed # {}
  \/ ~First(argv, "ls") /\ \E i \in DOMAIN argv : EndsWith(argv[i], EnvFiles)

IsReadOnly(argv) ==
  \E prefix \in ReadOnly :
    /\ Matches([i \in DOMAIN prefix |-> Word(prefix[i])], argv)
    /\ prefix \in DOMAIN Mutating =>
         \A i \in Len(prefix) + 1 .. Len(argv) : argv[i] \notin
           UNION {Word(w) : w \in Mutating[prefix]}

CheckSegment(argv) ==
  LET matching == {n \in DOMAIN Rules : Matches(Rules[n].globs, argv)}
      first    == CHOOSE n \in matching : \A k \in matching : n <= k
  IN  CASE HardDeny(argv)   -> "deny"
        [] ~HardDeny(argv) /\ matching # {} -> Rules[first].action
        [] ~HardDeny(argv) /\ matching = {} -> IF IsReadOnly(argv) THEN "auto" ELSE "ask"

Rank(v) == CASE v = "auto" -> 0 [] v = "ask" -> 1 [] v = "deny" -> 2

\* stricter, of a set of verdicts.
Strictest(vs) == CHOOSE v \in vs : \A u \in vs : Rank(u) <= Rank(v)

\* Empty segments pass.
SegmentVerdictOfEmpty(segment) ==
  IF ~Parsable(segment) THEN "deny"
  ELSE IF Argv(segment) = <<>> THEN "auto" ELSE CheckSegment(Argv(segment))

SegmentVerdict(segment) ==
  IF ~Parsable(segment) \/ Argv(segment) = <<>> THEN "deny"
  ELSE CheckSegment(Argv(segment))

Check(command) ==
  IF TokensIn(command) \cap Substitution # {} THEN "deny"
  ELSE Strictest({SegmentVerdict(s) : s \in Segments(command)})

=============================================================================
