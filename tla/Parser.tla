------------------------------- MODULE Parser -------------------------------
(***************************************************************************)
(* The request parsers: the machine of ragel_protocol_parser.rl, which the  *)
(* server uses, and native_protocol_parser.cc, which is built beside it.    *)
(* handle() initializes the parser and lets it consume the input, which     *)
(* may hold several requests (pipelining).  Words may hold any character.   *)
(*                                                                         *)
(* A read ends between two requests: what happens when it does not is the   *)
(* subject of Connection.                                                   *)
(***************************************************************************)
EXTENDS Integers, Sequences, SequencesExt

CONSTANTS Scripts      \* sequences of requests; a request is the sequence of its words

CR == "cr"
LF == "lf"
Digit == [c \in {"0", "1", "2", "3"} |-> CHOOSE n \in 0..3 : ToString(n) = c]
Number(n) == <<ToString(n)>>
Bulk(word) == <<"$">> \o Number(Len(word)) \o <<CR, LF>> \o word \o <<CR, LF>>
Encode(req) == <<"*">> \o Number(Len(req)) \o <<CR, LF>> \o FlattenSeq([i \in DOMAIN req |-> Bulk(req[i])])

VARIABLES
    kind,    \* the parser: "ragel" or "native"
    todo,    \* requests that have not arrived
    sent,    \* history: those that have
    buf, p,  \* the buffer, and the next character in it
    m,       \* the state of the parser
    phase,   \* "idle", "parse" within parse(), or "failed" when it has thrown
    parsed   \* the requests that have been handed on

parserVars == <<kind, todo, sent, buf, p, m, phase, parsed>>

Machine(command) ==
    [cs |-> "star", u32 |-> 0, size_left |-> 0, value |-> <<>>, command |-> command, named |-> FALSE,
     args |-> <<>>, count |-> 0, ok |-> FALSE, begin |-> 1]

ParserInit ==
    /\ kind \in {"ragel", "native"}
    /\ todo \in Scripts /\ (kind = "native" => \A i \in DOMAIN todo : Len(todo[i]) > 1 /\ \A j \in DOMAIN todo[i] : todo[i][j] # <<>>)
    /\ sent = <<>> /\ buf = <<>> /\ p = 1 /\ m = Machine(<<>>) /\ phase = "idle" /\ parsed = <<>>

Read(n) ==
    /\ p > Len(buf) /\ (phase = "idle" \/ (kind = "native" /\ phase = "parse"))
    /\ buf' = FlattenSeq([i \in 1..n |-> Encode(todo[i])]) /\ p' = 1
    /\ sent' = sent \o SubSeq(todo, 1, n) /\ todo' = SubSeq(todo, n + 1, Len(todo))
    /\ UNCHANGED <<kind, m, phase, parsed>>

(* init(): the command of the last request stays in the ragel parser *)
init ==
    /\ phase = "idle" /\ p <= Len(buf)
    /\ m' = [Machine(IF kind = "ragel" THEN m.command ELSE <<>>) EXCEPT !.begin = p]
    /\ phase' = "parse"
    /\ UNCHANGED <<kind, todo, sent, buf, p, parsed>>

Return(to, mach) ==
    /\ phase' = "idle" /\ p' = to /\ m' = mach
    /\ parsed' = Append(parsed, IF mach.ok THEN <<mach.command>> \o mach.args ELSE <<>>)

(***************************************************************************)
(* The ragel machine.                                                       *)
(***************************************************************************)
(* A transition of main on character c; every one of them sets the state to ok *)
To(cs) == [m EXCEPT !.cs = cs, !.ok = TRUE]
digits(first, rest, c) == IF m.cs = first THEN [To(rest) EXCEPT !.u32 = Digit[c]] ELSE [To(rest) EXCEPT !.u32 = 10 * @ + Digit[c]]
main(c) ==
    CASE m.cs = "star" /\ c = "*" -> <<To("count")>>
      [] m.cs \in {"count", "counts"} /\ c \in DOMAIN Digit -> <<digits("count", "counts", c)>>
      [] m.cs = "counts" /\ c = CR -> <<[To("countlf") EXCEPT !.count = m.u32 - 1]>>
      [] m.cs = "countlf" /\ c = LF -> <<To("dollar")>>
      [] m.cs = "dollar" /\ c = "$" -> <<To("size")>>
      [] m.cs \in {"size", "sizes"} /\ c \in DOMAIN Digit -> <<digits("size", "sizes", c)>>
      [] m.cs = "sizes" /\ c = CR -> <<To("sizelf")>>
      [] m.cs = "sizelf" /\ c = LF -> <<[To("word") EXCEPT !.size_left = m.u32, !.value = <<>>]>>
      [] m.cs = "cr" /\ c = CR -> <<To("lf")>>
      [] m.cs = "lf" /\ c = LF -> <<To("dollar")>>
      [] OTHER -> <<>>

(* The word is complete: the first one is the command, the others are arguments *)
Word(mach) ==
    IF mach.named THEN [mach EXCEPT !.cs = "cr", !.args = Append(@, mach.value)]
    ELSE [mach EXCEPT !.cs = "cr", !.command = mach.value, !.named = TRUE]

advance_blob_Takes(mach) ==
    LET len == IF mach.size_left > 1 THEN mach.size_left ELSE 1
    IN [p |-> p + len, m |-> Word([mach EXCEPT !.value = SubSeq(buf, p, p + len - 1), !.size_left = 0])]

(* advance_blob, advance_command: all of the word that is in the buffer *)
advance_blob(mach) ==
    LET len == IF Len(buf) - p + 1 < mach.size_left THEN Len(buf) - p + 1 ELSE mach.size_left
        grown == [mach EXCEPT !.value = @ \o SubSeq(buf, p, p + len - 1), !.size_left = @ - len]
    IN [p |-> p + len, m |-> IF grown.size_left = 0 THEN Word(grown) ELSE grown]

(* The end of parse(): what is left is skipped if nothing was recognized *)
parse ==
    /\ kind = "ragel" /\ phase = "parse"
    /\ LET next == main(buf[p])
           in_word == m.cs = "word"
       IN IF p > Len(buf) THEN Return(p, m)
          ELSE IF in_word THEN m' = advance_blob(m).m /\ p' = advance_blob(m).p /\ UNCHANGED <<phase, parsed>>
          ELSE IF next # <<>> THEN m' = next[1] /\ p' = p + 1 /\ UNCHANGED <<phase, parsed>>
          ELSE Return(IF m.ok THEN p ELSE Len(buf) + 1, m)
    /\ UNCHANGED <<kind, todo, sent, buf>>

(***************************************************************************)
(* The native parser: s looks for the end of a line that starts at begin.   *)
(***************************************************************************)
(* convert_to_number and find_first_nonnumeric: the number at b, and the place behind it *)
NumberAt(b) ==
    LET behind[i \in b..Len(buf) + 1] == IF i <= Len(buf) /\ buf[i] \in DOMAIN Digit THEN behind[i + 1] ELSE i
        value[i \in b - 1..Len(buf)] == IF i < b THEN 0 ELSE 10 * value[i - 1] + Digit[buf[i]]
    IN [end |-> behind[b], n |-> value[behind[b] - 1]]

Throw == phase' = "failed" /\ UNCHANGED <<p, m, parsed>>

(* More data is needed: the next buffer is parsed from the start, without the command *)
More == p' = Len(buf) + 1 /\ m' = [m EXCEPT !.command = <<>>, !.named = FALSE, !.begin = 1] /\ UNCHANGED <<phase, parsed>>

(* One turn of the loop *)
native_parse ==
    LET line == buf[p] = CR /\ buf[p + 1] = LF
        first == buf[m.begin]
        num == NumberAt(m.begin + 1)
        start == num.end + 2
        end == p + 2 + num.n + 2
        word == SubSeq(buf, start, start + num.n - 1)
        args == Append(m.args, word)
        goon(mach) == m' = mach /\ UNCHANGED <<phase, parsed>>
    IN /\ kind = "native" /\ phase = "parse"
       /\ p <= Len(buf)
       /\ IF p = Len(buf) THEN More
          ELSE IF buf[p] = " " THEN p' = p + 1 /\ goon(m)
          ELSE IF ~line THEN p' = p + 1 /\ goon(m)
          ELSE IF first = "*" /\ (m.named \/ num.n = 0) THEN Throw
          ELSE IF first = "*" THEN p' = p + 2 /\ goon([m EXCEPT !.named = TRUE, !.count = num.n - 1, !.begin = p + 2])
          ELSE IF first # "$" \/ ~m.named \/ num.n = 0 \/ end > Len(buf) + 1 THEN Throw
          ELSE IF m.command = <<>> THEN p' = end /\ goon([m EXCEPT !.command = word, !.begin = end])
          ELSE IF Len(args) = m.count THEN Return(end, [m EXCEPT !.args = args, !.ok = TRUE])
          ELSE p' = end /\ goon([m EXCEPT !.args = args, !.begin = end])
       /\ UNCHANGED <<kind, todo, sent, buf>>

ParserNext == (\E n \in 1..Len(todo) : Read(n)) \/ init \/ parse \/ native_parse

(* What is handed on is what was sent, request by request, however requests share a      *)
(* buffer and whatever is in their words: line ends, digits, markers or nothing          *)
(* (ragel_protocol_parser::parse, native_protocol_parser::parse).                        *)
RequestsExact ==
    /\ IsPrefix(parsed, sent)
    /\ phase = "idle" /\ p > Len(buf) => parsed = sent
=============================================================================
