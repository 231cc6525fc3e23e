------------------------------ MODULE Protocol ------------------------------
(***************************************************************************)
(* The ZTB protocol as ztb_protocol.c reads and writes it, and as the      *)
(* libraries of the host read the answers.  A line is "ZTB" followed by    *)
(* fields |key=value; it is modelled as the sequence of its fields, with   *)
(* the length that decides what a buffer cuts off.                         *)
(***************************************************************************)
EXTENDS Integers, Sequences, SequencesExt

CONSTANTS
  LineRoom,     \* LINE_BUF_SIZE - 1: the characters main() keeps of a line
  AnswerRoom,   \* RESPONSE_BUF_SIZE - 1
  TextRoom,     \* the characters kept of tx, expect and rx
  NameRoom      \* the characters kept of a channel name

ASSUME ProtocolAssumption ==
  {LineRoom, AnswerRoom, TextRoom, NameRoom} \subseteq Nat

(***************************************************************************)
(* A value is a number, a name (a string) or a text (a sequence of         *)
(* characters), depending on its key.                                      *)
(***************************************************************************)
ArgNumbers == {"seq", "val", "timeout", "mv", "duty_cycle", "frequency",
               "freq_tol_pct", "duty_tol_pp"}
AnswerNumbers == {"expected", "actual", "freq_expected", "duty_expected",
                  "freq_measured", "duty_measured", "freq_set", "duty_set"}
Numbers == ArgNumbers \cup AnswerNumbers

Field(key, val) == [key |-> key, val |-> val]

IsText(text) == text \in Seq(Range(text))

\* A value suits its key.
IsField(f) ==
  /\ f = Field(f.key, f.val) /\ Len(f.key) \in Nat
  /\ IF f.key \in Numbers THEN f.val \in Int
     ELSE IF f.key \in {"tx", "expect"} THEN IsText(f.val)
     ELSE Len(f.val) \in Nat

\* The characters of a number of 32 bits in decimal.
Digits(n) ==
  (IF n < 0 THEN 2 ELSE 1) + Cardinality({k \in 1..9 : 10 ^ k <= IF n < 0 THEN -n ELSE n})

ValueSize(f) == IF f.key \in Numbers THEN Digits(f.val) ELSE Len(f.val)

\* Where each field of a line ends, "ZTB" being field 0, and where the line does.
Ends(fields) ==
  LET end[i \in 0..Len(fields)] ==
        IF i = 0 THEN 3 ELSE end[i - 1] + 2 + Len(fields[i].key) + ValueSize(fields[i])
  IN  end
LineSize(fields) == Ends(fields)[Len(fields)]

\* What is left of a value of which n characters are kept; atoi of none is 0.
Cut(val, n)  == IF Len(val) <= n THEN val ELSE SubSeq(val, 1, n)
Kept(f, n) ==
  IF ValueSize(f) <= n THEN f.val
  ELSE IF f.key \in Numbers
       THEN IF n = 0 THEN 0 ELSE f.val \div (10 ^ (ValueSize(f) - n))
       ELSE Cut(f.val, n)

\* What is left of a line of which room characters are kept.  A key that lost
\* its '=' is skipped by the parser.
RoomFor(fields, i, room) == room - Ends(fields)[i - 1] - Len(fields[i].key) - 2
Shortened(fields, room) ==
  [i \in {j \in DOMAIN fields : RoomFor(fields, j, room) >= 0} |->
     Field(fields[i].key, Kept(fields[i], RoomFor(fields, i, room)))]

\* The end of a text needs a place too.
\* Mutated: it is forgotten.
KeptWhole(text) == Cut(text, TextRoom + 1)
KeptText(text)  == Cut(text, TextRoom)

-----------------------------------------------------------------------------
(* ztb_parse_frame *)

Names == {"GPIO_WRITE", "GPIO_READ", "GPIO_EXPECT", "DAC_WRITE", "UART_WRITE",
          "UART_READ", "UART_SEND_EXPECT", "PWM_WRITE", "PWM_READ_WITH_TOLERANCE",
          "SPI_SEND_EXPECT", "SPI_WRITE", "TRANSPORT_SWITCH"}

\* The command before its fields are read.
Blank ==
  [seq |-> -1, cmd |-> "UNKNOWN", ch |-> "", val |-> 0, mv |-> 0, timeout |-> 100,
   duty_cycle |-> 0, frequency |-> 0, freq_tol_pct |-> 0, duty_tol_pp |-> 0,
   tx |-> <<>>, expect |-> <<>>]

\* Where a field goes, and what is kept of it there.
Place(key) == IF key = "mode" THEN "ch" ELSE key
Written(f) ==
  CASE f.key = "cmd"              -> IF f.val \in Names THEN f.val ELSE "UNKNOWN"
    [] f.key \in {"ch", "mode"}   -> Cut(f.val, NameRoom)
    [] f.key \in {"tx", "expect"} -> KeptText(f.val)
    [] OTHER                      -> f.val

\* One field; a key that is not known has no place.
Read(command, f) ==
  [key \in DOMAIN command |-> IF key = Place(f.key) THEN Written(f) ELSE command[key]]

\* The command after each field of the line, and after all.
Stages(blank, fields) ==
  LET after[i \in 0..Len(fields)] == IF i = 0 THEN blank ELSE Read(after[i - 1], fields[i])
  IN  after
Parsed(blank, fields) == Stages(blank, fields)[Len(fields)]
Usable(command) == command.seq >= 0 /\ command.cmd # "UNKNOWN"

-----------------------------------------------------------------------------
(* The responses: each begins with a memset *)

NoResponse ==
  [seq |-> 0, status |-> "OK", err |-> "", has_val |-> FALSE, val |-> 0,
   has_expected_actual |-> FALSE, expected |-> 0, actual |-> 0,
   has_rx |-> FALSE, rx |-> <<>>,
   freq_expected |-> 0, duty_expected |-> 0, freq_measured |-> 0, duty_measured |-> 0,
   freq_tol_pct |-> 0, duty_tol_pp |-> 0]

OkResponse(seq)           == [NoResponse EXCEPT !.seq = seq]
FailResponse(seq, err)    == [OkResponse(seq) EXCEPT !.status = "FAIL", !.err = err]
PassOrFail(seq, ok, err)  == IF ok THEN OkResponse(seq) ELSE FailResponse(seq, err)
WithRx(response, rx)      == [response EXCEPT !.has_rx = TRUE, !.rx = KeptText(rx)]

GpioValue(seq, val) == [OkResponse(seq) EXCEPT !.has_val = TRUE, !.val = val]
GpioExpected(seq, pass, expected, actual) ==
  [PassOrFail(seq, pass, "GPIO_MISMATCH") EXCEPT
     !.has_expected_actual = TRUE,
     !.expected = IF expected = 0 THEN 0 ELSE 1, !.actual = IF actual = 0 THEN 0 ELSE 1]
PwmWritten(seq, pass, duty, freq) ==
  [PassOrFail(seq, pass, "PWM_WRITE_FAIL") EXCEPT !.freq_expected = freq, !.duty_expected = duty]
PwmCompared(command, pass, duty, freq) ==
  [PassOrFail(command.seq, pass, "PWM_MISMATCH") EXCEPT
     !.freq_expected = command.frequency, !.duty_expected = command.duty_cycle,
     !.freq_measured = freq, !.duty_measured = duty,
     !.freq_tol_pct = command.freq_tol_pct, !.duty_tol_pp = command.duty_tol_pp]

-----------------------------------------------------------------------------
(* ztb_format_response_with_cmd: what it writes depends on the command for  *)
(* PWM, and otherwise on the first flag that is set; a value is written for *)
(* OK only.                                                                 *)

Details(response, cmd) ==
  LET Of(keys) == [i \in DOMAIN keys |-> Field(keys[i], response[keys[i]])]
  IN  IF cmd = "PWM_READ_WITH_TOLERANCE"
      THEN Of(<<"freq_expected", "duty_expected", "freq_measured", "duty_measured",
                "freq_tol_pct", "duty_tol_pp">>)
      ELSE IF cmd = "PWM_WRITE"
      THEN <<Field("freq_set", response.freq_expected), Field("duty_set", response.duty_expected)>>
      ELSE IF response.has_expected_actual THEN Of(<<"expected", "actual">>)
      ELSE IF response.has_val /\ response.status = "OK" THEN Of(<<"val">>)
      ELSE IF response.has_rx THEN Of(<<"rx">>)
      ELSE <<>>

Formatted(response, cmd) ==
  <<Field("seq", response.seq), Field("status", response.status)>>
    \o Details(response, cmd)
    \o IF response.status = "OK" THEN <<>> ELSE <<Field("err", response.err)>>

\* The characters of what answers are written with, which proofs do not know.
Lengths ==
  [seq |-> 3, status |-> 6, err |-> 3, val |-> 3, expected |-> 8, actual |-> 6, rx |-> 2,
   freq_expected |-> 13, duty_expected |-> 13, freq_measured |-> 13, duty_measured |-> 13,
   freq_tol_pct |-> 12, duty_tol_pp |-> 11, freq_set |-> 8, duty_set |-> 8,
   OK |-> 2, FAIL |-> 4, FAILED |-> 6, GPIO_READ_FAILED |-> 16, GPIO_MISMATCH |-> 13,
   UART_READ_TIMEOUT |-> 17, UART_MISMATCH |-> 13, SPI_MISMATCH |-> 12,
   PWM_WRITE_FAIL |-> 14, PWM_MISMATCH |-> 12]

ASSUME LengthAssumption == \A name \in DOMAIN Lengths : Len(name) = Lengths[name]

\* snprintf keeps the end of the line only if all of it fits.
Ended(answer) == LineSize(answer) + 2 <= AnswerRoom

-----------------------------------------------------------------------------
(* The host: _parse_response and the keywords *)

\* The value of a key is that of its last field.
ValueOf(fields, keys, default) ==
  LET at == {i \in DOMAIN fields : fields[i].key \in keys}
  IN  IF at = {} THEN default ELSE fields[Max(at)].val
=============================================================================
