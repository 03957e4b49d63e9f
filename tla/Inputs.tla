------------------------------- MODULE Inputs -------------------------------
(***************************************************************************)
(* Numbers a client or a file name writes, and what becomes of them: ids   *)
(* in paths and limits in queries (src/src/api/params.c), tokens of JSON   *)
(* bodies (src/src/http/json_body.c), numbers in names and tags of files   *)
(* (src/src/media/metadata.c).  A text is a sequence of characters.        *)
(*                                                                         *)
(* An operator whose name ends in an underscore and a word is a faulty     *)
(* variant of the operator that follows it, for mutation checks only.      *)
(***************************************************************************)
EXTENDS Integers, Sequences, SequencesExt, FiniteSetsExt

CONSTANTS DigitValue,          \* what each digit is worth
          Base,                \* 10
          U32Max, U64Max,      \* UINT32_MAX, ULLONG_MAX
          PageLimitDefault, PageLimitMax,
          PatchMax             \* the largest number a patch may set: 65535

ASSUME WidthAssumption ==
  /\ {Base, U32Max, U64Max, PatchMax, PageLimitDefault, PageLimitMax} \subseteq Nat \ {0}
  /\ PatchMax <= U32Max /\ U32Max < U64Max
ASSUME DigitAssumption ==
  /\ DigitValue \in [DOMAIN DigitValue -> 0..(Base - 1)]
  /\ DOMAIN DigitValue \cap {" ", "+", "-", "n"} = {}

IsDigit(c) == c \in DOMAIN DigitValue
Digits(text) == \A i \in DOMAIN text : IsDigit(text[i])

Bad == -1

-----------------------------------------------------------------------------
(* The check before each digit, so that a uint32_t never wraps.            *)
Overflows_Tenth(value, digit) == value > U32Max \div Base
Overflows(value, digit) == value > (U32Max - digit) \div Base

Decimal(text) ==
  LET value[i \in 0..Len(text)] ==
        IF i = 0 THEN 0
        ELSE LET last == value[i - 1]
                 digit == DigitValue[text[i]]
             IN IF last = Bad \/ Overflows(last, digit) THEN Bad
                ELSE (last * Base + digit) % (U32Max + 1)
  IN value[Len(text)]

(* parse_u32_token.                                                        *)
ParseToken(text) == IF text = <<>> \/ ~Digits(text) THEN Bad ELSE Decimal(text)

IsSpace(c) == c = " "
SkipSpace(text) ==
  LET i == SelectInSeq(text, LAMBDA c : ~IsSpace(c))
  IN IF i = 0 THEN <<>> ELSE SubSeq(text, i, Len(text))
LeadingDigits(text) ==
  LET i == SelectInSeq(text, LAMBDA c : ~IsDigit(c))
  IN IF i = 0 THEN text ELSE SubSeq(text, 1, i - 1)

(* parse_number_segment: the number between two separators of a file name, *)
(* 0 for none.                                                             *)
NumberSegment(text) ==
  LET trimmed == Reverse(SkipSpace(Reverse(SkipSpace(text))))
  IN IF ParseToken(trimmed) = Bad THEN 0 ELSE ParseToken(trimmed)

(* number_property: "3/12" is 3.                                           *)
TagNumber(text) ==
  LET digits == LeadingDigits(SkipSpace(text))
  IN IF ParseToken(digits) = Bad THEN 0 ELSE ParseToken(digits)

-----------------------------------------------------------------------------
(* strtoull, and that it has read everything: a sign is accepted, and a    *)
(* negative number is taken modulo the width.                              *)
Plain(digits) ==
  LET value[i \in 0..Len(digits)] ==
        IF i = 0 THEN 0 ELSE value[i - 1] * Base + DigitValue[digits[i]]
  IN value[Len(digits)]

Strtoull(text) ==
  LET body == SkipSpace(text)
      signed == body # <<>> /\ Head(body) \in {"+", "-"}
      digits == IF signed THEN Tail(body) ELSE body
  IN IF digits = <<>> \/ ~Digits(digits) \/ Plain(digits) > U64Max THEN Bad
     ELSE IF Head(body) = "-" THEN (U64Max + 1 - Plain(digits)) % (U64Max + 1)
     ELSE Plain(digits)

(* api_parse_id_param, 0 for an error.                                     *)
IdParam_Cut(text) == IF Strtoull(text) = Bad THEN 0 ELSE Strtoull(text) % (U32Max + 1)
IdParam(text) == IF Strtoull(text) \in 1..U32Max THEN Strtoull(text) ELSE 0

SizeOr(text, fallback) == IF Strtoull(text) = Bad THEN fallback ELSE Strtoull(text)

(* api_page_parse; <<>> for a parameter that is missing.                   *)
PageOf(limit, offset) ==
  [limit |-> Max({1, Min({SizeOr(limit, PageLimitDefault), PageLimitMax})}),
   offset |-> SizeOr(offset, 0)]

-----------------------------------------------------------------------------
(* The token of a key of a JSON body, empty when there is none.            *)
Missing == <<>>
Null == <<"n", "u", "l", "l">>

(* parse_u32 of a patch: sets the field, clears it, leaves it or fails.    *)
PatchNumber(token) ==
  IF token = Missing THEN "keep"
  ELSE IF token = Null THEN "clear"
  ELSE IF ParseToken(token) \in 1..PatchMax THEN "set" ELSE "invalid"

(* http_json_get_u32_array, into room for so many; <<Bad>> for an error.   *)
TokenArray(tokens, room) ==
  LET values == [i \in DOMAIN tokens |-> ParseToken(tokens[i])]
  IN IF Len(tokens) > room \/ Bad \in Range(values) THEN <<Bad>> ELSE values
=============================================================================
