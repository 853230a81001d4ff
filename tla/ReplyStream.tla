---------------------------- MODULE ReplyStream ----------------------------
(***************************************************************************)
(* A reply of the language model, one JSON object, on its way to the       *)
(* browser: the character-driven parser of agents/streaming_json.py shows  *)
(* the text of one field while it is still being written, the nodes that   *)
(* drive it (stream_open_thread, stream_conduct, the evaluator's two       *)
(* calls) decide what to forward, and what they store at the end is what   *)
(* json.loads makes of the whole reply.  A behaviour is the arrival of one *)
(* reply, character by character, as the parser's state outlives a chunk.  *)
(* Replies come from the grammar below, so that the value json.loads gives *)
(* is known by construction.                                               *)
(***************************************************************************)
EXTENDS Integers, Sequences, FiniteSets, SequencesExt

CONSTANTS
  Uses,         \* of the parser: "open", "conduct", "judge", "answer"
  TextMarks,    \* what the streamed text is made of, see MarkText
  MaxMarks,     \* bound: its length
  ListMarks,    \* what the strings in the other fields are made of
  ActionMarks   \* what the scalar field, when it is a string, is made of

ASSUME ReplyAssumption ==
  Uses \subseteq {"open", "conduct", "judge", "answer"} /\ MaxMarks \in Nat

VARIABLES
  use,     \* which call the reply answers
  fields,  \* the fields of the reply, in the order written
  rest,    \* the characters that have yet to arrive
  parser,  \* locals of stream_json_object
  action,  \* local: what the scalar field was understood as
  moved,   \* stream_conduct: emitted_move
  held,    \* stream_conduct: buffered
  full,    \* stream_conduct: full_message
  shown,   \* the tokens forwarded to the browser
  status,  \* of the call
  saved    \* the text persisted

vars == <<use, fields, rest, parser, action, moved, held, full, shown, status, saved>>

-----------------------------------------------------------------------------
(* Replies.  Field "s" is the streamed one (question, message, feedback,   *)
(* model_answer), "a" the scalar one (action, score), "o" any other.       *)

\* The parts of a JSON string, and the character json.loads makes of each.
MarkText ==
  [x |-> <<"x">>, advance |-> <<"v">>, nudge |-> <<"g">>, comma |-> <<",">>, blank |-> <<" ">>,
   open |-> <<"[">>, close |-> <<"}">>, newline |-> <<"\\", "n">>, quote |-> <<"\\", "\"">>,
   backslash |-> <<"\\", "\\">>, letter |-> <<"\\", "u", "h", "h", "h", "h">>]
MarkChar ==
  [x |-> "x", advance |-> "v", nudge |-> "g", comma |-> ",", blank |-> " ", open |-> "[",
   close |-> "}", newline |-> "NL", quote |-> "\"", backslash |-> "\\", letter |-> "U"]

ASSUME MarksAssumption == TextMarks \cup ListMarks \cup ActionMarks \subseteq DOMAIN MarkText

Quoted(marks) == <<"\"">> \o FlattenSeq([i \in DOMAIN marks |-> MarkText[marks[i]]]) \o <<"\"">>
Decoded(marks) == [i \in DOMAIN marks |-> MarkChar[marks[i]]]

ValueText(v) ==
  CASE v.kind = "string" -> Quoted(v.marks)
    [] v.kind = "number" -> <<"1">>
    [] v.kind = "null"   -> <<"0">>
    [] v.kind = "list"   -> <<"[">> \o Quoted(v.marks) \o <<",">> \o Quoted(<<"x">>) \o <<"]">>
    [] v.kind = "object" -> <<"{">> \o Quoted(<<"x">>) \o <<":", "[">> \o Quoted(v.marks) \o <<"]", "}">>

Bare(kind) == [kind |-> kind, marks |-> <<>>]
Values ==
  [s |-> [kind : {"string"}, marks : BoundedSeq(TextMarks, MaxMarks)] \cup {Bare("number"), Bare("null")},
   a |-> [kind : {"string"}, marks : {<<m>> : m \in ActionMarks}] \cup {Bare("number"), Bare("null")},
   o |-> [kind : {"string", "list", "object"}, marks : {<<m>> : m \in ListMarks}] \cup {Bare("number")}]

\* The name of the other field holds an escape.
Name == [s |-> <<"s">>, a |-> <<"a">>, o |-> <<"\\", "\"">>]

FieldText(gap, i) ==
  <<"\"">> \o Name[fields[i].key] \o <<"\"", ":">> \o gap \o ValueText(fields[i].value)
    \o (IF i = Len(fields) THEN <<>> ELSE <<",">>) \o gap
ReplyText(gap) ==
  gap \o <<"{">> \o FlattenSeq([i \in DOMAIN fields |-> FieldText(gap, i)]) \o <<"}">> \o gap

\* What json.loads finds under a key; a missing key reads as null.
Parsed(key) ==
  LET at == {i \in DOMAIN fields : fields[i].key = key}
  IN IF at = {} THEN Bare("null") ELSE fields[CHOOSE i \in at : TRUE].value
IsText(key) == Parsed(key).kind = "string"

-----------------------------------------------------------------------------
(* stream_json_object: one operator per state of the parser, each giving   *)
(* the parser after the character ch; what it yields is in field "out".    *)

Streamed == {<<"s">>}
Scalars == IF use \in {"conduct", "judge"} THEN {<<"a">>} ELSE {}

Nothing == [name |-> "nothing", data |-> <<>>]
StartParser ==
  [state |-> "pre", key |-> <<>>, escaped |-> FALSE, left |-> 0, depth |-> 0,
   scalar |-> <<>>, out |-> Nothing]

Enter(p, state) == [p EXCEPT !.state = state]
Yield(p, name, data) == [p EXCEPT !.out = [name |-> name, data |-> data]]

\* Variant: a blank before the brace is refused.
BeforeObjectStrict(p, ch) == IF ch = "{" THEN Enter(p, "object") ELSE Yield(p, "error", <<>>)

BeforeObject(p, ch) ==
  CASE ch = " " -> p
    [] ch = "{" -> Enter(p, "object")
    [] OTHER    -> Yield(p, "error", <<>>)

BetweenFields(p, ch) ==
  CASE ch = "}"  -> Enter(p, "finished")
    [] ch = "\"" -> [Enter(p, "key") EXCEPT !.key = <<>>, !.escaped = FALSE]
    [] OTHER     -> p

InKey(p, ch) ==
  CASE p.escaped -> [p EXCEPT !.key = Append(@, ch), !.escaped = FALSE]
    [] ~p.escaped /\ ch = "\\" -> [p EXCEPT !.escaped = TRUE]
    [] ~p.escaped /\ ch = "\"" -> Enter(p, "after key")
    [] ~p.escaped /\ ch \notin {"\\", "\""} -> [p EXCEPT !.key = Append(@, ch)]

AfterKey(p, ch) == IF ch = ":" THEN Enter(p, "before value") ELSE p

\* Strings are known only outside brackets: within, every bracket counts.
Skip(p, ch) ==
  CASE p.depth = 0 ->
         (CASE ch = "\""         -> [p EXCEPT !.depth = -1, !.escaped = FALSE]
            [] ch \in {"{", "["} -> [p EXCEPT !.depth = 1]
            [] ch = ","          -> Enter(p, "object")
            [] ch = "}"          -> Enter(p, "finished")
            [] OTHER             -> p)
    [] p.depth = -1 ->
         (CASE p.escaped -> [p EXCEPT !.escaped = FALSE]
            [] ~p.escaped /\ ch = "\\" -> [p EXCEPT !.escaped = TRUE]
            [] ~p.escaped /\ ch = "\"" -> [Enter(p, "object") EXCEPT !.depth = 0]
            [] ~p.escaped /\ ch \notin {"\\", "\""} -> p)
    [] p.depth > 0 ->
         (CASE ch \in {"{", "["} -> [p EXCEPT !.depth = @ + 1]
            [] ch \in {"}", "]"} -> [p EXCEPT !.depth = @ - 1, !.state = IF p.depth = 1 THEN "object" ELSE @]
            [] OTHER -> p)

BeforeValue(p, ch) ==
  CASE ch = " " -> p
    [] ch # " " /\ p.key \in Streamed /\ ch = "\"" -> [Enter(p, "string") EXCEPT !.escaped = FALSE, !.left = 0]
    [] ch # " " /\ p.key \in Scalars -> [Enter(p, "scalar") EXCEPT !.scalar = <<ch>>]
    [] OTHER -> Skip([Enter(p, "skip") EXCEPT !.depth = 0], ch)

\* The scalar ends at the first comma, brace or blank; json.loads reads it.
ReadAs(text) == {v \in Values.a : ValueText(v) = text}
InScalar(p, ch) ==
  IF ch \notin {",", "}", " "} THEN [p EXCEPT !.scalar = Append(@, ch)]
  ELSE LET end == Enter(p, IF ch = "}" THEN "finished" ELSE "object")
           read == ReadAs(p.scalar)
       IN IF read = {} THEN Yield(p, "error", <<>>) ELSE Yield(end, "scalar", CHOOSE v \in read : TRUE)

\* Variant: an escape stands for its letter.
UnescapedLetter(ch) == ch
Unescaped(ch) == IF ch = "n" THEN "NL" ELSE ch

InString(p, ch) ==
  CASE p.left > 0 -> [(IF p.left = 1 THEN Yield(p, "chunk", "U") ELSE p) EXCEPT !.left = @ - 1]
    [] p.left = 0 /\ p.escaped ->
         [(IF ch = "u" THEN [p EXCEPT !.left = 4] ELSE Yield(p, "chunk", Unescaped(ch))) EXCEPT !.escaped = FALSE]
    [] p.left = 0 /\ ~p.escaped /\ ch = "\\" -> [p EXCEPT !.escaped = TRUE]
    [] p.left = 0 /\ ~p.escaped /\ ch = "\"" -> Enter(p, "object")
    [] p.left = 0 /\ ~p.escaped /\ ch \notin {"\\", "\""} -> Yield(p, "chunk", ch)

Parse(ch) ==
  LET p == [parser EXCEPT !.out = Nothing]
  IN CASE p.state = "pre"          -> BeforeObject(p, ch)
       [] p.state = "object"       -> BetweenFields(p, ch)
       [] p.state = "key"          -> InKey(p, ch)
       [] p.state = "after key"    -> AfterKey(p, ch)
       [] p.state = "before value" -> BeforeValue(p, ch)
       [] p.state = "skip"         -> Skip(p, ch)
       [] p.state = "scalar"       -> InScalar(p, ch)
       [] p.state = "string"       -> InString(p, ch)
       [] p.state = "finished"     -> p

-----------------------------------------------------------------------------
(* The nodes that drive the parser.                                        *)

Init ==
  /\ use \in Uses
  /\ \E keys \in SetToAllKPermutations({"s", "o"} \cup (IF use \in {"conduct", "judge"} THEN {"a"} ELSE {})),
        value \in [s : Values.s, a : Values.a, o : Values.o] :
       fields = [i \in DOMAIN keys |-> [key |-> keys[i], value |-> value[keys[i]]]]
  /\ \E gap \in {<<>>, <<" ">>} : rest = ReplyText(gap)
  /\ parser = StartParser
  /\ action = "none" /\ moved = FALSE
  /\ held = <<>> /\ full = <<>> /\ shown = <<>>
  /\ status = "streaming" /\ saved = <<>>

\* A character that yields nothing to the caller.
Read ==
  /\ status = "streaming" /\ rest # <<>>
  /\ parser' = Parse(Head(rest)) /\ parser'.out.name = "nothing"
  /\ rest' = Tail(rest)
  /\ UNCHANGED <<use, fields, action, moved, held, full, shown, status, saved>>

\* The conductor's words wait while its action is unknown.
\* Variant: they are forwarded.
WaitsNot == FALSE
Waits == use = "conduct" /\ action = "none"

\* One character of the text: forwarded at once, held, or, when the
\* conductor is to advance, dropped.
Token ==
  /\ status = "streaming" /\ rest # <<>>
  /\ parser' = Parse(Head(rest)) /\ parser'.out.name = "chunk"
  /\ rest' = Tail(rest)
  /\ full' = IF use = "conduct" THEN Append(full, parser'.out.data) ELSE full
  /\ held' = IF Waits THEN Append(held, parser'.out.data) ELSE held
  /\ shown' = IF Waits \/ (use = "conduct" /\ action = "advance")
              THEN shown ELSE Append(shown, parser'.out.data)
  /\ UNCHANGED <<use, fields, action, moved, status, saved>>

\* _coerce_action: what is not an allowed move is a probe.
Coerced(v) ==
  CASE v.kind = "string" /\ v.marks = <<"advance">> -> "advance"
    [] v.kind = "string" /\ v.marks = <<"nudge">>   -> "nudge"
    [] OTHER -> "probe"
Understood(v) == IF use = "conduct" THEN Coerced(v) ELSE v.kind

\* The scalar: the conductor's move is announced and what was held follows.
\* Variant: what was forwarded stays in the buffer.
KeptHolding(moves) == held
StillHeld(moves) == IF moves THEN <<>> ELSE held
Scalar ==
  /\ status = "streaming" /\ rest # <<>>
  /\ parser' = Parse(Head(rest)) /\ parser'.out.name = "scalar"
  /\ rest' = Tail(rest)
  /\ action' = Understood(parser'.out.data)
  /\ LET moves == use = "conduct" /\ action' # "advance"
     IN /\ moved' = (moved \/ moves)
        /\ shown' = IF moves THEN shown \o held ELSE shown
        /\ held' = StillHeld(moves)
  /\ UNCHANGED <<use, fields, full, status, saved>>

\* StreamingJsonError in the middle of a reply, or the model call breaks off.
Refuse ==
  /\ status = "streaming" /\ rest # <<>>
  /\ Parse(Head(rest)).out.name = "error"
  /\ status' = "refused"
  /\ UNCHANGED <<use, fields, rest, parser, action, moved, held, full, shown, saved>>
Cut ==
  /\ status = "streaming"
  /\ status' = "cut"
  /\ UNCHANGED <<use, fields, rest, parser, action, moved, held, full, shown, saved>>

\* The last character but blanks has come: json.loads and the schema.
Ended == status = "streaming" /\ ToSet(rest) \subseteq {" "}

\* Question, Judgment, ModelAnswerOnly: model_validate.
Accepted ==
  /\ IsText("s")
  /\ use = "open" => Parsed("o").kind = "list"
  /\ use = "judge" => Parsed("a").kind = "number"

Store ==
  /\ Ended /\ use # "conduct"
  /\ status' = IF Accepted THEN "saved" ELSE "refused"
  /\ saved' = IF Accepted THEN Decoded(Parsed("s").marks) ELSE saved
  /\ UNCHANGED <<use, fields, rest, parser, action, moved, held, full, shown>>

\* str.strip, and the sentence stored when nothing is left.
Strip(text) ==
  LET ink == {i \in DOMAIN text : text[i] \notin {" ", "NL"}}
  IN IF ink = {} THEN <<>> ELSE SubSeq(text, Min(ink), Max(ink))
SafeFollowup == <<"F">>

\* The end of stream_conduct.  A message that is a number has no strip.
Move == IF action = "none" THEN Coerced(Parsed("a")) ELSE action
Message ==
  LET text == IF IsText("s") /\ Parsed("s").marks # <<>> THEN Decoded(Parsed("s").marks) ELSE full
  IN IF Strip(text) = <<>> THEN SafeFollowup ELSE Strip(text)

\* A reply that never named an action: its words are forwarded at the end.
\* Variant: they are not.
FlushedNever == shown
Flushed == IF moved THEN shown ELSE shown \o held

Advance ==
  /\ Ended /\ use = "conduct" /\ Move = "advance"
  /\ action' = Move /\ status' = "advanced"
  /\ UNCHANGED <<use, fields, rest, parser, moved, held, full, shown, saved>>

Speak ==
  /\ Ended /\ use = "conduct" /\ Move # "advance"
  /\ Parsed("s").kind # "number"
  /\ action' = Move /\ moved' = TRUE
  /\ shown' = Flushed
  /\ saved' = Message /\ status' = "saved"
  /\ UNCHANGED <<use, fields, rest, parser, held, full>>

Stumble ==
  /\ Ended /\ use = "conduct" /\ Move # "advance"
  /\ Parsed("s").kind = "number"
  /\ action' = Move /\ status' = "refused"
  /\ UNCHANGED <<use, fields, rest, parser, moved, held, full, shown, saved>>

Next == Read \/ Token \/ Scalar \/ Refuse \/ Cut \/ Store \/ Advance \/ Speak \/ Stumble

Spec == Init /\ [][Next]_vars

-----------------------------------------------------------------------------
(* Properties.                                                             *)

\* The text of the reply's streamed field, as json.loads gives it.
Text == IF IsText("s") THEN Decoded(Parsed("s").marks) ELSE <<>>

-----------------------------------------------------------------------------
(* Where the parser stands in a reply, for the invariant.                  *)

\* The characters of a reply, of a string but for escapes and quotes.
Plain == {"x", "v", "g", ",", " ", "[", "]", "{", "}", ":", "n", "u", "h", "1", "0", "s", "a"}
Char  == Plain \cup {"\\", "\""}

\* Text r is characters of S, then text t.
Within(r, S, t) ==
  LET k == Len(r) - Len(t)
  IN k >= 0 /\ (\A j \in 1 .. k : r[j] \in S) /\ SubSeq(r, k + 1, Len(r)) = t

\* The reply after its first i fields, after the value of field i, after its
\* key; a string after its first k marks, before text t.
FieldsAfter(gap, i) ==
  FlattenSeq([j \in 1 .. Len(fields) - i |-> FieldText(gap, i + j)]) \o (<<"}">> \o gap)
ValueAfter(gap, i) ==
  (IF i = Len(fields) THEN <<>> ELSE <<",">>) \o (gap \o FieldsAfter(gap, i))
KeyAfter(gap, i) ==
  <<":">> \o (gap \o (ValueText(fields[i].value) \o ValueAfter(gap, i)))
MarksAfter(marks, k, t) ==
  FlattenSeq([j \in 1 .. Len(marks) - k |-> MarkText[marks[k + j]]]) \o (<<"\"">> \o t)

\* What the caller has been told by the first i fields.
TextBy(i)   == IF \E j \in 1 .. i : fields[j].key = "s" THEN Text ELSE <<>>
ScalarBy(i) == IF \E j \in 1 .. i : fields[j].key = "a" THEN Understood(Parsed("a")) ELSE "none"

Level(p) == ~p.escaped /\ p.left = 0 /\ p.depth = 0

BetweenFieldsAt(p, r, gap, i) ==
  /\ Level(p)
  /\ \/ p.state = "pre" /\ i = 0 /\ Within(r, {" "}, <<"{">> \o FieldsAfter(gap, 0))
     \/ p.state = "object" /\ Within(r, {" ", ","}, FieldsAfter(gap, i))
     \/ p.state = "finished" /\ i = Len(fields) /\ Within(r, {" "}, <<>>)

\* The name without its escape.
KeyName == [s |-> <<"s">>, a |-> <<"a">>, o |-> <<"\"">>]

InKeyAt(p, r, gap, i) ==
  LET name == fields[i].key
      t    == <<"\"">> \o KeyAfter(gap, i)
  IN /\ p.state = "key" /\ p.left = 0 /\ p.depth = 0
     /\ \/ p.key = <<>> /\ ~p.escaped /\ r = Name[name] \o t
        \/ p.key = <<>> /\ p.escaped /\ name = "o" /\ r = <<"\"">> \o t
        \/ p.key = KeyName[name] /\ ~p.escaped /\ r = t

BeforeValueAt(p, r, gap, i) ==
  /\ Level(p) /\ p.key = KeyName[fields[i].key]
  /\ \/ p.state = "after key" /\ r = KeyAfter(gap, i)
     \/ p.state = "before value"
        /\ Within(r, {" "}, ValueText(fields[i].value) \o ValueAfter(gap, i))

InScalarAt(p, r, gap, i) ==
  LET v == ValueText(fields[i].value)
  IN /\ p.state = "scalar" /\ Level(p) /\ fields[i].key = "a"
     /\ \E k \in 1 .. Len(v) :
          p.scalar = SubSeq(v, 1, k) /\ r = SubSeq(v, k + 1, Len(v)) \o ValueAfter(gap, i)

\* A bracket in a string within brackets: Skip counts it, and as no string of
\* the grammar has two marks, nothing there makes up for it.
Unbracketed(v) == v.kind \in {"list", "object"} => {"open", "close"} \cap ToSet(v.marks) = {}

\* A skipped string ends at its quote, a list or an object at the bracket that
\* closes it, a number at the next comma or brace.
Flat == Char \ {"[", "]", "{", "}"}

InSkipAt(p, r, gap, i) ==
  LET v == fields[i].value
      t == ValueAfter(gap, i)
  IN /\ p.state = "skip" /\ p.left = 0 /\ Unbracketed(v)
     /\ fields[i].key # "a" /\ (fields[i].key = "s" => v.kind # "string")
     /\ \/ /\ p.depth = 0 /\ ~p.escaped /\ v.kind \in {"number", "null"}
           /\ r = t \/ (i = Len(fields) /\ Within(r, {" "}, FieldsAfter(gap, i)))
        \/ /\ p.depth = -1 /\ v.kind = "string"
           /\ \E k \in 0 .. Len(v.marks) :
                IF p.escaped THEN r # <<>> /\ Within(Tail(r), Plain, MarksAfter(v.marks, k, t))
                ELSE Within(r, Plain, MarksAfter(v.marks, k, t))
        \/ /\ p.depth = 1 /\ ~p.escaped /\ v.kind = "list"
           /\ Within(r, Flat, <<"]">> \o t)
        \/ /\ p.depth = 1 /\ ~p.escaped /\ v.kind = "object"
           /\ \/ r = <<"}">> \o t
              \/ Within(r, Flat, <<"[">> \o (Quoted(v.marks) \o (<<"]">> \o (<<"}">> \o t))))
        \/ /\ p.depth = 2 /\ ~p.escaped /\ v.kind = "object"
           /\ Within(r, Flat, <<"]">> \o (<<"}">> \o t))

\* Inside the streamed string: told are its first k characters; the escape of
\* the next one may have begun.
InStringAt(p, r, gap, i, told) ==
  LET marks == fields[i].value.marks
      t     == ValueAfter(gap, i)
  IN /\ p.state = "string" /\ p.depth = 0
     /\ fields[i].key = "s" /\ fields[i].value.kind = "string"
     /\ \E k \in 0 .. Len(marks) :
          /\ told = SubSeq(Decoded(marks), 1, k)
          /\ \/ ~p.escaped /\ p.left = 0 /\ r = MarksAfter(marks, k, t)
             \/ /\ k < Len(marks) /\ p.escaped /\ p.left = 0
                /\ Head(MarkText[marks[k + 1]]) = "\\"
                /\ r = Tail(MarkText[marks[k + 1]]) \o MarksAfter(marks, k + 1, t)
             \/ /\ k < Len(marks) /\ ~p.escaped /\ p.left \in 1 .. 4 /\ marks[k + 1] = "letter"
                /\ r = [j \in 1 .. p.left |-> "h"] \o MarksAfter(marks, k + 1, t)

\* No such value but in the last field.
BracketsLast == \A i \in DOMAIN fields : Unbracketed(fields[i].value) \/ i = Len(fields)

\* Such a value leads the parser astray: it takes what follows for keys and
\* values.  After the last field none of that can be the name of a field.
Nameless == Char \ {"s", "a"}
AstrayAt(p, r) ==
  /\ \E i \in DOMAIN fields : ~Unbracketed(fields[i].value)
  /\ p.state \in {"object", "key", "after key", "before value", "skip", "finished"}
  /\ p.depth >= -1 /\ p.key \in Seq(Nameless) /\ r \in Seq(Nameless)

\* Parser p stands before text r, has told the text and the scalar so far.
Standing(p, r, told, known) ==
  \/ told = TextBy(Len(fields)) /\ known = ScalarBy(Len(fields)) /\ AstrayAt(p, r)
  \/ \E gap \in {<<>>, <<" ">>} :
       \/ \E i \in 0 .. Len(fields) :
            told = TextBy(i) /\ known = ScalarBy(i) /\ BetweenFieldsAt(p, r, gap, i)
       \/ \E i \in 1 .. Len(fields) :
            /\ known = ScalarBy(i - 1)
            /\ \/ /\ told = TextBy(i - 1)
                  /\ \/ InKeyAt(p, r, gap, i) \/ BeforeValueAt(p, r, gap, i)
                     \/ InScalarAt(p, r, gap, i) \/ InSkipAt(p, r, gap, i)
               \/ InStringAt(p, r, gap, i, told)

ParserType ==
  [state : {"pre", "object", "key", "after key", "before value", "skip", "scalar", "string", "finished"},
   key : Seq(Char), escaped : BOOLEAN, left : 0 .. 4, depth : Int, scalar : Seq(Char), out : {Nothing}]

\* Every field once, the scalar only where one is asked for, each with a value
\* that it may have.
FieldsType ==
  /\ fields \in Seq([key : {"s", "a", "o"}, value : UNION {Values.s, Values.a, Values.o}])
  /\ \A i \in DOMAIN fields :
       /\ fields[i].value \in Values[fields[i].key]
       /\ fields[i].key = "a" => use \in {"conduct", "judge"}
       /\ \A j \in DOMAIN fields : fields[i].key = fields[j].key => i = j

\* Types; while a reply arrives, the parser stands in it and has told the text
\* so far, unless a bracket led it astray before the last field; of that, the
\* conductor's words are held until the move is known.
ReplyInv ==
  /\ use \in Uses /\ status \in {"streaming", "saved", "advanced", "refused", "cut"}
  /\ action \in {"none", "advance", "nudge", "probe", "string", "number", "null"}
  /\ moved \in BOOLEAN /\ rest \in Seq(Char) /\ FieldsType
  /\ [parser EXCEPT !.out = Nothing] \in ParserType
  /\ status = "streaming" =>
       /\ BracketsLast => Standing(parser, rest, IF use = "conduct" THEN full ELSE shown, action)
       /\ use = "conduct" =>
            /\ moved <=> action \in {"nudge", "probe"}
            /\ IF moved THEN held = <<>> /\ shown = full ELSE shown = <<>>
            /\ action = "none" => held = full
       /\ use # "conduct" => held = <<>> /\ ~moved

\* The browser is never shown anything but the text of the streamed field,
\* from its beginning and with its escapes undone, wherever the reply stops:
\* not a character of another field, of a key, of an escape, and none twice.
OnlyTheTextIsShown == IsPrefix(shown, Text)

\* Streamed text is what is persisted (the "anti-drift" promise of the
\* parser): when a call stores its text, everything of it was forwarded and
\* nothing else, except that a follow-up is stripped and an empty one is
\* replaced; and the action or score acted on is the one in the reply.  The
\* promise is not kept for a list or an object that has a bracket in one of its
\* strings and comes before the text or the scalar: what follows it is stored
\* without having been shown, or acted on without having been told.
ShownIsSaved ==
  status = "saved" /\ BracketsLast =>
    /\ use # "conduct" => shown = saved
    /\ use = "conduct" => saved = (IF Strip(shown) = <<>> THEN SafeFollowup ELSE Strip(shown))
    /\ use \in {"conduct", "judge"} => action = Understood(Parsed("a"))

\* The bubble opens with the interviewer's move: no word of a follow-up
\* before the move is announced, no word and no move at all when the
\* conductor decides to advance, in whichever order the reply has its fields.
AdvanceIsSilent ==
  use = "conduct" =>
    /\ shown # <<>> => moved
    /\ moved => action \in {"nudge", "probe"}
    /\ status = "advanced" => shown = <<>> /\ Coerced(Parsed("a")) = "advance"

\* The parser refuses no reply that is valid JSON and fits its schema, unless
\* the scalar field is a string with a comma, a brace or a blank in it.
LegibleScalar == IsText("a") => {"comma", "close", "blank"} \cap ToSet(Parsed("a").marks) = {}
NoFalseRefusal ==
  status = "refused" /\ LegibleScalar =>
    IF use = "conduct" THEN Parsed("s").kind = "number" ELSE ~Accepted
=============================================================================
