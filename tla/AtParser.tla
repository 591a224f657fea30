------------------------------ MODULE AtParser ------------------------------
(***************************************************************************)
(* A reader of nrf91_at_commands.c that parses a response, such as         *)
(* at_cesq_read2: the callback copies the response into buf, at_res_parse  *)
(* takes it apart into at_res_list.  Three things outlive the call: buf,   *)
(* is_done, and parse_buf, in which a field is collected.                  *)
(*                                                                         *)
(* Characters are strings of one character, "r" is the end of a line and   *)
(* "zero" the zero at the end.  buf, the list and parse_buf are long       *)
(* enough for every response here.                                         *)
(***************************************************************************)
EXTENDS Integers, Sequences, SequencesExt

CONSTANTS Char,             \* the characters of responses
          Numbers, Texts,   \* the fields the modem puts in its responses
          Malformed,        \* responses that have another form
          MaxFields         \* bound on the fields of a response

VARIABLES
  buf,          \* at_cesq_read2: the response, and what is left of others
  is_done,      \* at_cesq_read2: a response of its own has come
  parse_buf,    \* the characters before the first zero
  at_res_list,  \* its at_res_list_count first fields
  ret,          \* of the last at_res_parse: 0 or an error
  said,         \* history: the fields of the response in buf, or no response
  doubt         \* history: when it was parsed, an earlier response had
                \* failed and no field had been read since

atVars == <<buf, is_done, parse_buf, at_res_list, ret, said, doubt>>

NoResponse == << >>

Numerals == <<"0", "1", "2", "3", "4", "5", "6", "7", "8", "9">>

Digits == {Numerals[n] : n \in 1..10}
Signs  == {"+", "-"}

(* A number fits in an int, and nothing in a text ends it.                 *)
ASSUME ResponseAssumption ==
  /\ Digits \cup Signs \cup {",", "\"", "r", "zero", "X", ":", " "} \subseteq Char
  /\ Numbers \subseteq Int
  /\ \A text \in Texts :
       /\ text \in Seq(Char)
       /\ \A i \in DOMAIN text : text[i] \notin {"\"", "r", "zero"}
  /\ \A response \in Malformed : response \in Seq(Char)
  /\ MaxFields \in Nat

NoField    == [param_type |-> 0]
IntField(n) == [param_type |-> 1, int_value |-> n]
StrField(s, n) == [param_type |-> 2, str_data |-> s, str_len |-> n]

(* A text is read up to the zero: a character may be left behind its end.  *)
StrOf(field) == SubSeq(field.str_data, 1, field.str_len)

-----------------------------------------------------------------------------
(* __at_res_parse, one character after the other.  state is as there:      *)
(* 0 before the first space, 3 before a field, 1 in a number, 2 in a text, *)
(* 4 behind a text; and Done or Failed once it has returned.               *)

(* atoi: of the digits behind a sign, up to anything else.                 *)
Value(digits) ==
  LET digit(c) == (CHOOSE n \in 1..10 : Numerals[n] = c) - 1
      value[k \in 0..Len(digits)] ==
        IF k = 0 THEN 0 ELSE 10 * value[k - 1] + digit(digits[k])
  IN  value[Len(digits)]

atoi(chars) ==
  LET signed   == chars # << >> /\ chars[1] \in Signs
      unsigned == IF signed THEN Tail(chars) ELSE chars
      other    == SelectInSeq(unsigned, LAMBDA c : c \notin Digits)
      abs      == Value(IF other = 0 THEN unsigned ELSE SubSeq(unsigned, 1, other - 1))
  IN  IF signed /\ chars[1] = "-" THEN -abs ELSE abs

Done   == 5
Failed == -1

Parser(chars) == [state |-> 0, idx |-> 0, chars |-> chars, list |-> << >>]

To(p, state) == [p EXCEPT !.state = state]

Collect(p, c) ==
  [p EXCEPT !.idx = @ + 1,
            !.chars = IF p.idx < Len(@) THEN [@ EXCEPT ![p.idx + 1] = c]
                                       ELSE Append(@, c)]

\* Mistake on purpose: parse_buf is not cleared behind a field.
Field_KeepBuf(p, field, state) ==
  [p EXCEPT !.list = Append(@, field), !.idx = 0, !.state = state]

Field(p, field, state) ==
  [p EXCEPT !.list = Append(@, field), !.idx = 0, !.chars = << >>, !.state = state]

Ready(p, c) ==
  CASE c \in {"zero", "r"} -> To(p, Done)
    [] c = ","  -> [p EXCEPT !.list = Append(@, NoField)]
    [] c = "\"" -> To(p, 2)
    [] c \in Digits \cup Signs -> To(Collect(p, c), 1)
    [] OTHER    -> To(p, Failed)

InInt(p, c) ==
  CASE c \in {",", "r", "zero"} ->
         IF Len(p.chars) <= 1 /\ p.chars[1] \in Signs
         THEN To(p, Failed)
         ELSE Field(p, IntField(atoi(p.chars)), IF c = "," THEN 3 ELSE Done)
    [] c \in Digits -> Collect(p, c)
    [] OTHER -> To(p, Failed)

(* One character more than the text is copied.                             *)
InStr(p, c) ==
  CASE c = "\"" ->
         Field(p, StrField(SubSeq(p.chars, 1, IF p.idx < Len(p.chars) THEN p.idx + 1
                                                                  ELSE p.idx),
                           p.idx), 4)
    [] c \in {"r", "zero"} -> To(p, Failed)
    [] OTHER -> Collect(p, c)

AfterStr(p, c) ==
  CASE c = "," -> To(p, 3)
    [] c \in {"r", "zero"} -> To(p, Done)
    [] OTHER -> To(p, Failed)

__at_res_parse(p, c) ==
  CASE p.state = 0 -> To(p, IF c = " " THEN 3 ELSE IF c = "zero" THEN Done ELSE 0)
    [] p.state = 1 -> InInt(p, c)
    [] p.state = 2 -> InStr(p, c)
    [] p.state = 3 -> Ready(p, c)
    [] p.state = 4 -> AfterStr(p, c)
    [] OTHER -> p

(* The recursion, up to the end of text.                                   *)
Parsed(p, text) ==
  LET after[k \in 0..Len(text)] ==
        IF k = 0 THEN p ELSE __at_res_parse(after[k - 1], text[k])
  IN  after[Len(text)]

-----------------------------------------------------------------------------
(* Responses: a name, a space, the fields between commas, end of line.     *)

Fields == {NoField} \cup {IntField(n) : n \in Numbers}
                    \cup {StrField(t, Len(t)) : t \in Texts}

Decimal[n \in Nat] ==
  IF n < 10 THEN <<Numerals[n + 1]>>
            ELSE Append(Decimal[n \div 10], Numerals[(n % 10) + 1])

Printed(n) == IF n < 0 THEN <<"-">> \o Decimal[-n] ELSE Decimal[n]

Written(field) ==
  CASE field.param_type = 0 -> << >>
    [] field.param_type = 1 -> Printed(field.int_value)
    [] field.param_type = 2 -> <<"\"">> \o field.str_data \o <<"\"">>

Name == <<"X", ":", " ">>

Response(fields) ==
  LET text[k \in 0..Len(fields)] ==
        IF k = 0 THEN Name
        ELSE text[k - 1] \o Written(fields[k])
                         \o <<IF k = Len(fields) THEN "r" ELSE ",">>
  IN  text[Len(fields)]

atInit ==
  /\ buf = << >> /\ is_done = FALSE /\ parse_buf = << >> /\ at_res_list = << >> /\ ret = 0
  /\ said = NoResponse /\ doubt = FALSE

(* No field has been read since a response failed.                         *)
NothingReadSince ==
  \/ ret # 0
  \/ doubt /\ \A i \in DOMAIN at_res_list : at_res_list[i] = NoField

(* at_res_clear and at_res_parse.                                          *)
at_res_parse(text) ==
  LET end == Parsed(Parser(parse_buf), Append(text, "zero"))
  IN  /\ parse_buf' = end.chars
      /\ at_res_list' = IF end.state = Done THEN end.list ELSE << >>
      /\ ret' = IF end.state = Done THEN 0 ELSE -1
      /\ doubt' = NothingReadSince

(* The callback copies any response, without its zero, and waits for one   *)
(* of its own.                                                             *)
Answered(response) ==
  /\ buf' = response \o SubSeq(buf, Len(response) + 1, Len(buf))
  /\ is_done' = (is_done \/ IsPrefix(Name, response))
  /\ IF is_done' THEN at_res_parse(buf')
                 ELSE UNCHANGED <<parse_buf, at_res_list, ret, doubt>>

(* Once an answer has come is_done stays set: the reader may be earlier    *)
(* than the answer to its own question.                                    *)
at_cesq_read2 ==
  \/ \E n \in 1..MaxFields : \E fields \in [1..n -> Fields] :
       said' = fields /\ Answered(Response(fields))
  \/ \E response \in Malformed : said' = NoResponse /\ Answered(response)
  \/ is_done /\ at_res_parse(buf) /\ UNCHANGED <<buf, is_done, said>>

atSpec == atInit /\ [][at_cesq_read2]_atVars

-----------------------------------------------------------------------------
(* Properties.                                                             *)

Same(field, other) ==
  /\ field.param_type = other.param_type
  /\ field.param_type = 1 => field.int_value = other.int_value
  /\ field.param_type = 2 => StrOf(field) = StrOf(other)

(* A response of the right form parses, whatever longer ones left behind   *)
(* it in buf, and gives the fields the modem wrote, but for an empty field *)
(* at its end, which is not counted.  After one that failed only the first *)
(* field may be wrong, and only if it is a number.                         *)
ReadsBack ==
  said # NoResponse =>
    /\ ret = 0
    /\ Len(at_res_list) = Len(said) - (IF Last(said) = NoField THEN 1 ELSE 0)
    /\ \A i \in DOMAIN at_res_list :
         \/ Same(at_res_list[i], said[i])
         \/ /\ doubt
            /\ said[i].param_type = 1 /\ at_res_list[i].param_type = 1
            /\ \A k \in 1..(i - 1) : said[k] = NoField
=============================================================================
