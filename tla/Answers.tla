------------------------------ MODULE Answers ------------------------------
(***************************************************************************)
(* How a definition and the answers to it are checked, stored and shown:   *)
(* the pipe's rules (src/src/forms/dto.ts), validateDefinition and         *)
(* validateAnswers (validation.ts), writeAnswer and the report's cells     *)
(* (forms.service.ts), against the CHECKs and the deferred trigger of the  *)
(* first migration.  One version and one Idempotency-Key; statuses and     *)
(* transactions are those of Forms and FormTransactions, and every request *)
(* is one step because lockForm serializes them.                           *)
(*                                                                         *)
(* A string is a value of Strings and all that the code can observe of it  *)
(* is given by the constants below.  Numbers are integers that count       *)
(* 1/Unit; the code's last decimal place is 10^-6.                         *)
(***************************************************************************)
EXTENDS Integers, Sequences, FiniteSets, Functions

CONSTANTS
  Null,           \* an absent property, a JSON null or an SQL NULL
  Strings,        \* the strings clients send
  Blank,          \* those that JavaScript's trim() leaves empty, "" included
  Spaces,         \* those that PostgreSQL's btrim() leaves empty
  WithNul,        \* those with a NUL character
  Emails,         \* those isEmail accepts
  SafeKeys,       \* those that match KEY_PATTERN
  ReservedKeys,   \* RESERVED_KEYS
  Length,         \* length of a string in code points, as PostgreSQL counts
  PipeLength,     \* its length for @Length, which leaves out the selectors
                  \* that choose how the character before them is drawn
  Number,         \* value of each string that spells a decimal number
  IsoDate,        \* of each string shaped YYYY-MM-DD, the day JavaScript reads
  MaxLabel,       \* longest label; 200 in the code
  MaxText,        \* longest text; 10000 in the code
  Unit,           \* the number 1
  MinInteger,     \* the least 32-bit integer, in 1/Unit
  MaxInteger,     \* the greatest one
  LargestDecimal, \* the greatest number with 14 integer and 6 fraction digits
  Drafts,         \* definitions editors send
  Requests        \* answer objects visitors send

TextTypes == {"TEXT", "TEXTAREA", "EMAIL"}
NumberTypes == {"INTEGER", "DECIMAL"}
ChoiceTypes == {"SINGLE_SELECT", "MULTI_SELECT"}
FieldTypes == TextTypes \cup NumberTypes \cup ChoiceTypes \cup {"BOOLEAN", "DATE"}

(* JSON values carry their typeof as the name of their only component.     *)
Scalars == [string : Strings] \cup [number : Int] \cup [boolean : BOOLEAN]
Json == Scalars \cup [array : Seq(Scalars)] \cup {Null}

(* Answers in canonical form; decimal stands for the text of toFixed().    *)
CanonicalValues == Scalars \cup [decimal : Int] \cup [selected : SUBSET Strings]

Option == [key : Strings, label : Strings]
(* No options stands for an absent list: the pipe refuses an empty one.    *)
FieldDto ==
  [key : Strings, label : Strings, type : FieldTypes, required : BOOLEAN,
   maxLength : Int \cup {Null}, minValue : Strings \cup {Null},
   maxValue : Strings \cup {Null}, options : Seq(Option)]
(* A stored field: its bounds are numbers.                                 *)
Field ==
  [key : Strings, label : Strings, type : FieldTypes, required : BOOLEAN,
   maxLength : Int \cup {Null}, minValue : Int \cup {Null},
   maxValue : Int \cup {Null}, options : Seq(Option)]

ASSUME StringsAssumption ==
  /\ Blank \subseteq Strings /\ Spaces \subseteq Blank
  /\ \A S \in {WithNul, Emails, SafeKeys, ReservedKeys} : S \subseteq Strings
  /\ WithNul \cap SafeKeys = {}
  /\ Length \in [Strings -> Nat] /\ PipeLength \in [Strings -> Nat]
  /\ \A s \in Strings : PipeLength[s] <= Length[s]
  /\ DOMAIN Number \subseteq Strings /\ \A s \in DOMAIN Number : Number[s] \in Int
  /\ DOMAIN IsoDate \subseteq Strings
  /\ \A s \in DOMAIN IsoDate : IsoDate[s] \in DOMAIN IsoDate \cup {Null}
ASSUME NumbersAssumption ==
  /\ {MaxLabel, MaxText, LargestDecimal} \subseteq Nat /\ Unit \in Nat \ {0}
  /\ {MinInteger, MaxInteger} \subseteq Int
ASSUME NullAssumption ==
  /\ Null \notin Strings \cup Int \cup CanonicalValues \cup [array : Seq(Scalars)]
  /\ Null \notin Drafts /\ Null \notin Requests
ASSUME InputsAssumption ==
  /\ Drafts \subseteq Seq(FieldDto)
  /\ \A a \in Requests : DOMAIN a \subseteq Strings /\ a \in [DOMAIN a -> Json]

VARIABLES
  draft,       \* the definition the editor saved, as it was sent, or Null
  fields,      \* the FormField and FieldOption rows, by position
  sent,        \* the answers the visitor submitted first, or Null
  hash,        \* what requestHash of the Submission row covers, or Null
  answers,     \* the Answer and AnswerSelection rows, by position
  last,        \* the last request
  reply        \* its status

vars == <<draft, fields, sent, hash, answers, last, reply>>

----------------------------------------------------------------------------
(* Definitions.                                                            *)

(* DECIMAL_PATTERN: at most 14 integer digits and 6 fraction digits.       *)
IsDecimal(s) ==
  s \in DOMAIN Number /\ -LargestDecimal <= Number[s] /\ Number[s] <= LargestDecimal

Labels(f) == {f.label} \cup {f.options[i].label : i \in DOMAIN f.options}
OptionKeys(f) == {f.options[i].key : i \in DOMAIN f.options}

(* The pipe's rules for a field.                                           *)
WellFormed(f) ==
  /\ {f.key} \cup OptionKeys(f) \subseteq SafeKeys
  /\ \A s \in Labels(f) : s \notin WithNul /\ PipeLength[s] \in 1 .. MaxLabel
  /\ f.maxLength # Null => f.maxLength \in 1 .. MaxText
  /\ f.minValue # Null => IsDecimal(f.minValue)
  /\ f.maxValue # Null => IsDecimal(f.maxValue)

IsInteger(n) == n % Unit = 0
Fits32Bits(n) == IsInteger(n) /\ MinInteger <= n /\ n <= MaxInteger

Bounds(f) == {Number[b] : b \in {f.minValue, f.maxValue} \ {Null}}

(* Faulty: fractions are allowed as bounds of an INTEGER field.            *)
AnyBounds(f) ==
  /\ Bounds(f) # {} => f.type \in NumberTypes
  /\ f.minValue # Null /\ f.maxValue # Null => Number[f.minValue] <= Number[f.maxValue]

BoundsFit(f) ==
  /\ Bounds(f) # {} => f.type \in NumberTypes
  /\ f.minValue # Null /\ f.maxValue # Null => Number[f.minValue] <= Number[f.maxValue]
  /\ f.type = "INTEGER" => \A n \in Bounds(f) : Fits32Bits(n)

(* What validateDefinition asks of one field besides its key.              *)
Consistent(f) ==
  /\ f.type \in ChoiceTypes <=> f.options # <<>>
  /\ \A i, j \in DOMAIN f.options : f.options[i].key = f.options[j].key => i = j
  /\ f.maxLength # Null => f.type \in TextTypes
  /\ BoundsFit(f)
  /\ Labels(f) \cap Blank = {}

KeysFit(d) ==
  /\ \A i \in DOMAIN d : d[i].key \notin ReservedKeys
  /\ \A i, j \in DOMAIN d : d[i].key = d[j].key => i = j

ValidDefinition(d) ==
  KeysFit(d) /\ \A i \in DOMAIN d : WellFormed(d[i]) /\ Consistent(d[i])

(* new Decimal(bound).toFixed(): one spelling for every number.            *)
Bound(s) == IF s = Null THEN Null ELSE Number[s]
SavedField(f) ==
  [key |-> f.key, label |-> f.label, type |-> f.type, required |-> f.required,
   maxLength |-> f.maxLength, minValue |-> Bound(f.minValue),
   maxValue |-> Bound(f.maxValue), options |-> f.options]
Normalized(d) == [i \in DOMAIN d |-> SavedField(d[i])]

(* The CHECKs, unique indexes and column types of FormField, FieldOption.  *)
SchemaTakesField(f) ==
  /\ f.key \in SafeKeys \ ReservedKeys
  /\ OptionKeys(f) \subseteq SafeKeys
  /\ \A i, j \in DOMAIN f.options : f.options[i].key = f.options[j].key => i = j
  /\ \A s \in Labels(f) : s \notin WithNul /\ Length[s] <= MaxLabel
  /\ f.maxLength # Null => f.type \in TextTypes /\ f.maxLength \in 1 .. MaxText
  /\ f.minValue # Null \/ f.maxValue # Null => f.type \in NumberTypes
  /\ f.minValue # Null /\ f.maxValue # Null => f.minValue <= f.maxValue
  /\ \A n \in {f.minValue, f.maxValue} \ {Null} :
        -LargestDecimal <= n /\ n <= LargestDecimal

SchemaTakesFields(fs) ==
  /\ \A i \in DOMAIN fs : SchemaTakesField(fs[i])
  /\ \A i, j \in DOMAIN fs : fs[i].key = fs[j].key => i = j

----------------------------------------------------------------------------
(* Answers.                                                                *)

Is(v, typeof) == v # Null /\ typeof \in DOMAIN v

Empty(v) ==
  \/ v = Null
  \/ Is(v, "string") /\ v.string \in Blank
  \/ Is(v, "array") /\ v.array = <<>>

Given(f, a) == f.key \in DOMAIN a /\ ~Empty(a[f.key])

MaxLengthOf(f) == IF f.maxLength = Null THEN MaxText ELSE f.maxLength

(* Faulty: NUL characters pass.                                            *)
AnyText(f, v) ==
  /\ Is(v, "string") /\ Length[v.string] <= MaxLengthOf(f)
  /\ f.type = "EMAIL" => v.string \in Emails
TextFits(f, v) ==
  /\ Is(v, "string") /\ v.string \notin WithNul
  /\ Length[v.string] <= MaxLengthOf(f)
  /\ f.type = "EMAIL" => v.string \in Emails

InBounds(f, n) ==
  /\ f.minValue # Null => n >= f.minValue
  /\ f.maxValue # Null => n <= f.maxValue

IntegerFits(f, v) ==
  Is(v, "number") /\ Fits32Bits(v.number) /\ InBounds(f, v.number)

DecimalFits(f, v) ==
  Is(v, "string") /\ IsDecimal(v.string) /\ InBounds(f, Number[v.string])

DateFits(v) ==
  Is(v, "string") /\ v.string \in DOMAIN IsoDate /\ IsoDate[v.string] = v.string

IsOption(f, v) == Is(v, "string") /\ v.string \in OptionKeys(f)

ChoicesFit(f, v) ==
  /\ Is(v, "array") /\ Len(v.array) <= Len(f.options)
  /\ \A i \in DOMAIN v.array : IsOption(f, v.array[i])
  /\ IsInjective(v.array)

(* The switch of validateAnswers.                                          *)
Accepts(f, v) ==
  \/ f.type \in TextTypes /\ TextFits(f, v)
  \/ f.type = "INTEGER" /\ IntegerFits(f, v)
  \/ f.type = "DECIMAL" /\ DecimalFits(f, v)
  \/ f.type = "BOOLEAN" /\ Is(v, "boolean")
  \/ f.type = "DATE" /\ DateFits(v)
  \/ f.type = "SINGLE_SELECT" /\ IsOption(f, v)
  \/ f.type = "MULTI_SELECT" /\ ChoicesFit(f, v)

ValidAnswers(fs, a) ==
  /\ DOMAIN a \subseteq {fs[i].key : i \in DOMAIN fs}
  /\ \A i \in DOMAIN fs :
        IF Given(fs[i], a) THEN Accepts(fs[i], a[fs[i].key]) ELSE ~fs[i].required

(* Faulty: the choices keep the order in which they were sent.             *)
Unsorted(f, v) ==
  CASE f.type = "DECIMAL" -> [decimal |-> Number[v.string]]
    [] f.type = "MULTI_SELECT" ->
         [selected |-> {v.array[i].string : i \in DOMAIN v.array}, order |-> v.array]
    [] OTHER -> v
(* toFixed() has one spelling for every number: it is the number itself.   *)
(* A sorted array without duplicates is the set of its elements.           *)
Canonical(f, v) ==
  CASE f.type = "DECIMAL" -> [decimal |-> Number[v.string]]
    [] f.type = "MULTI_SELECT" ->
         [selected |-> {v.array[i].string : i \in DOMAIN v.array}]
    [] OTHER -> v

(* What validateAnswers returns: the answers given, in canonical form.     *)
Validated(fs, a) ==
  [i \in {j \in DOMAIN fs : Given(fs[j], a)} |-> Canonical(fs[i], a[fs[i].key])]

----------------------------------------------------------------------------
(* Rows.                                                                   *)

(* The order in which the reports look for the value of an answer.         *)
Columns ==
  <<"textValue", "integerValue", "decimalValue", "booleanValue", "dateValue", "option">>
ColumnNames == {Columns[k] : k \in DOMAIN Columns}

(* The switch of writeAnswer.                                              *)
Column(type) ==
  CASE type \in TextTypes -> "textValue"
    [] type = "INTEGER" -> "integerValue"
    [] type = "DECIMAL" -> "decimalValue"
    [] type = "BOOLEAN" -> "booleanValue"
    [] type = "DATE" -> "dateValue"
    [] type = "SINGLE_SELECT" -> "option"
    [] OTHER -> "none"

Stored(f, c) == IF f.type = "DATE" THEN [string |-> IsoDate[c.string]] ELSE c

AnswerRow(f, c) ==
  [type |-> f.type,
   value |-> [k \in ColumnNames |-> IF k = Column(f.type) THEN Stored(f, c) ELSE Null],
   selections |-> IF f.type = "MULTI_SELECT" THEN c.selected ELSE {}]

(* Answer_typed_value and Answer_date_not_null.                            *)
TypedValue(r) ==
  LET filled == {k \in ColumnNames : r.value[k] # Null}
  IN  \/ r.type \in TextTypes /\ filled = {"textValue"}
      \/ r.type = "INTEGER" /\ filled = {"integerValue"}
      \/ r.type = "DECIMAL" /\ filled = {"decimalValue"}
      \/ r.type = "BOOLEAN" /\ filled = {"booleanValue"}
      \/ r.type = "DATE" /\ filled = {"dateValue"}
      \/ r.type = "SINGLE_SELECT" /\ filled = {"option"}
      \/ r.type = "MULTI_SELECT" /\ filled = {}

(* The types of the columns.                                               *)
Storable(r) ==
  /\ r.value["textValue"] # Null =>
        LET s == r.value["textValue"].string IN s \notin WithNul /\ Length[s] <= MaxText
  /\ r.value["integerValue"] # Null => Fits32Bits(r.value["integerValue"].number)
  /\ r.value["decimalValue"] # Null =>
        LET n == r.value["decimalValue"].decimal
        IN  -LargestDecimal <= n /\ n <= LargestDecimal
  /\ r.value["dateValue"] # Null => r.value["dateValue"].string # Null

(* The last part of validate_complete_submission, for one answer.          *)
MeetsRules(f, r) ==
  /\ r.type \in TextTypes =>
        LET s == r.value["textValue"].string
        IN  s \notin Spaces /\ Length[s] <= MaxLengthOf(f)
  /\ r.type = "INTEGER" => InBounds(f, r.value["integerValue"].number)
  /\ r.type = "DECIMAL" => InBounds(f, r.value["decimalValue"].decimal)
  /\ r.type = "MULTI_SELECT" => r.selections # {}

(* The foreign keys to FieldOption and to the field's own type.            *)
RefersToField(f, r) ==
  /\ r.type = f.type
  /\ r.value["option"] # Null => r.value["option"].string \in OptionKeys(f)
  /\ r.selections \subseteq OptionKeys(f)

SchemaTakesAnswers(fs, rows) ==
  /\ \A i \in DOMAIN rows :
        /\ TypedValue(rows[i]) /\ Storable(rows[i])
        /\ RefersToField(fs[i], rows[i]) /\ MeetsRules(fs[i], rows[i])
  /\ \A i \in DOMAIN fs : fs[i].required => i \in DOMAIN rows

(* Faulty: || instead of ??, which drops false and zero.                   *)
FirstTruthy(r) ==
  LET falsy == {Null, [boolean |-> FALSE], [number |-> 0]}
      full == {k \in DOMAIN Columns : r.value[Columns[k]] \notin falsy}
  IN  IF full = {} THEN Null
      ELSE r.value[Columns[CHOOSE k \in full : \A m \in full : k <= m]]
FirstValue(r) ==
  LET full == {k \in DOMAIN Columns : r.value[Columns[k]] # Null}
  IN  IF full = {} THEN Null
      ELSE r.value[Columns[CHOOSE k \in full : \A m \in full : k <= m]]

(* Option keys in the order of their positions.                            *)
Positions(f, keys) == {i \in DOMAIN f.options : f.options[i].key \in keys}
Ascending(S) ==
  CHOOSE s \in [1 .. Cardinality(S) -> S] : \A m, n \in DOMAIN s : m < n => s[m] < s[n]
InOptionOrder(f, keys) ==
  LET chosen == Ascending(Positions(f, keys))
  IN  [n \in DOMAIN chosen |-> f.options[chosen[n]].key]

(* The cell of a report.                                                   *)
Cell(i) ==
  IF i \notin DOMAIN answers THEN Null
  ELSE IF answers[i].type = "MULTI_SELECT"
    THEN [selected |-> InOptionOrder(fields[i], answers[i].selections)]
    ELSE FirstValue(answers[i])

----------------------------------------------------------------------------
(* The website's controls.                                                 *)

(* Some words: trim() leaves keys, numbers and dates as they are; there is *)
(* a word of one letter, a zero and a date; 14 + 6 digits with their sign  *)
(* and point are short enough for a text; and 0 is a 32-bit integer.       *)
ASSUME WordsAssumption ==
  /\ "" \in Blank /\ Blank \cap (SafeKeys \cup DOMAIN Number \cup DOMAIN IsoDate) = {}
  /\ \E s \in Strings \ (Blank \cup WithNul) : Length[s] = 1
  /\ \E s \in DOMAIN Number : Number[s] = 0
  /\ \E t \in DOMAIN IsoDate : IsoDate[t] = t
  /\ \A s \in Strings : IsDecimal(s) => s \notin WithNul /\ Length[s] <= MaxText
  /\ IsInteger(MinInteger) /\ MinInteger <= 0 /\ 0 <= MaxInteger /\ 1 <= MaxText

(* The numbers <input type=number> permits: from min on in steps of 1.     *)
Spinnable(f) ==
  LET least == IF f.minValue = Null THEN MinInteger ELSE f.minValue
      greatest == IF f.maxValue = Null THEN MaxInteger ELSE f.maxValue
  IN {s \in DOMAIN Number :
        /\ least <= Number[s] /\ Number[s] <= greatest
        /\ (Number[s] - least) % Unit = 0}

(* What data.getAll() finds in the control of FieldControl for a field     *)
(* once something is entered, and while nothing is.                        *)
Filled(f) ==
  CASE f.type = "MULTI_SELECT" ->
         {InOptionOrder(f, keys) : keys \in SUBSET OptionKeys(f)}
    [] f.type = "SINGLE_SELECT" -> {<<k>> : k \in OptionKeys(f)}
    [] f.type = "BOOLEAN" -> {<<"true">>, <<"false">>}
    [] f.type = "INTEGER" -> {<<s>> : s \in Spinnable(f)}
    [] f.type = "DATE" -> {<<s>> : s \in {t \in DOMAIN IsoDate : IsoDate[t] = t}}
    [] OTHER -> {<<s>> : s \in {t \in Strings \ WithNul : Length[t] <= MaxLengthOf(f)}}
Untouched(f) == IF f.type = "MULTI_SELECT" THEN <<>> ELSE <<"">>

(* What it may find once the browser, which also knows required, lets the  *)
(* form be submitted.                                                      *)
Entries(f) ==
  IF f.required THEN Filled(f) \ {Untouched(f)} ELSE Filled(f) \cup {Untouched(f)}

(* collectAnswers for one field; Null when it leaves the field out.        *)
Collected(f, entry) ==
  IF entry \in {<<>>, <<"">>} THEN Null
  ELSE CASE f.type = "MULTI_SELECT" ->
              [array |-> [i \in DOMAIN entry |-> [string |-> entry[i]]]]
         [] f.type = "INTEGER" -> [number |-> Number[entry[1]]]
         [] f.type = "BOOLEAN" -> [boolean |-> entry[1] = "true"]
         [] OTHER -> [string |-> entry[1]]

----------------------------------------------------------------------------
(* Requests.                                                               *)

Init ==
  /\ draft = Null /\ fields = <<>>
  /\ sent = Null /\ hash = Null /\ answers = <<>>
  /\ last = Null /\ reply = 200

(* A definition is saved or found saved already (200), or refused by the   *)
(* service (400, 409) or by the schema (500).                              *)
PutVersion(d) ==
  /\ last' = [draft |-> d]
  /\ \/ ~ValidDefinition(d) /\ reply' = 400 /\ UNCHANGED <<draft, fields>>
     \/ /\ ValidDefinition(d) /\ draft # Null
        /\ reply' = IF Normalized(d) = fields THEN 200 ELSE 409
        /\ UNCHANGED <<draft, fields>>
     \/ /\ ValidDefinition(d) /\ draft = Null
        /\ IF SchemaTakesFields(Normalized(d))
             THEN reply' = 200 /\ draft' = d /\ fields' = Normalized(d)
             ELSE reply' = 500 /\ UNCHANGED <<draft, fields>>
  /\ UNCHANGED <<sent, hash, answers>>

RowsOf(validated) ==
  [i \in DOMAIN validated |-> AnswerRow(fields[i], validated[i])]

(* submit, always with the same Idempotency-Key: 404 before the version is *)
(* saved, 400 for answers that do not fit, 200 or 409 for a retry, and for *)
(* the first accepted answers 200, or 500 if the schema refuses the rows.  *)
Submit(a) ==
  /\ last' = [answers |-> a]
  /\ \/ draft = Null /\ reply' = 404 /\ UNCHANGED <<sent, hash, answers>>
     \/ /\ draft # Null /\ ~ValidAnswers(fields, a)
        /\ reply' = 400 /\ UNCHANGED <<sent, hash, answers>>
     \/ /\ draft # Null /\ ValidAnswers(fields, a) /\ sent # Null
        /\ reply' = IF Validated(fields, a) = hash THEN 200 ELSE 409
        /\ UNCHANGED <<sent, hash, answers>>
     \/ /\ draft # Null /\ ValidAnswers(fields, a) /\ sent = Null
        /\ LET validated == Validated(fields, a)
           IN  IF SchemaTakesAnswers(fields, RowsOf(validated))
                 THEN /\ reply' = 200 /\ sent' = a /\ hash' = validated
                      /\ answers' = RowsOf(validated)
                 ELSE reply' = 500 /\ UNCHANGED <<sent, hash, answers>>
  /\ UNCHANGED <<draft, fields>>

Next == (\E d \in Drafts : PutVersion(d)) \/ (\E a \in Requests : Submit(a))

Spec == Init /\ [][Next]_vars

----------------------------------------------------------------------------
(* Properties.                                                             *)

(* The type invariant.                                                     *)
TypeOK ==
  /\ draft \in Drafts \cup {Null} /\ sent \in Requests \cup {Null}
  /\ fields \in Seq(Field)
  /\ reply \in {200, 400, 404, 409, 500}
  /\ last \in [draft : Drafts] \cup [answers : Requests] \cup {Null}
  /\ sent # Null =>
       /\ DOMAIN hash = DOMAIN answers
       /\ \A i \in DOMAIN hash : hash[i] \in CanonicalValues
  /\ \A i \in DOMAIN answers :
        /\ i \in DOMAIN fields /\ answers[i].type = fields[i].type
        /\ answers[i].selections \subseteq Strings
        /\ \A k \in ColumnNames : answers[i].value[k] \in CanonicalValues \cup {Null}

LabelTooLong(d) == \E i \in DOMAIN d : \E s \in Labels(d[i]) : Length[s] > MaxLabel

(* The rules of dto.ts and validation.ts imply the CHECKs, keys and column *)
(* types of the migration and its deferred trigger, which were written     *)
(* separately, but for one: a label that is longer for VARCHAR(200) than   *)
(* for the pipe.  No accepted answers are ever refused at commit.          *)
OnlyLongLabelsFail ==
  reply = 500 => "draft" \in DOMAIN last /\ LabelTooLong(last.draft)

(* What a visitor says with the answers to a field, without any of the     *)
(* code's forms: nothing, a number, a set of choices or the value itself.  *)
Said(f, a) ==
  CASE ~Given(f, a) -> Null
    [] Given(f, a) /\ f.type = "DECIMAL" -> [decimal |-> Number[a[f.key].string]]
    [] Given(f, a) /\ f.type = "MULTI_SELECT" ->
         [selected |-> {a[f.key].array[k].string : k \in DOMAIN a[f.key].array}]
    [] OTHER -> a[f.key]

(* How a report should put it: choices in the order of the options.        *)
InReport(f, said) ==
  IF f.type = "MULTI_SELECT" /\ said # Null
  THEN [selected |-> InOptionOrder(f, said.selected)] ELSE said

(* A report shows for every field what the visitor said, false and zero    *)
(* included, and nothing for what was left out: writeAnswer and the cells  *)
(* of report() and reportForm() lose nothing before reportForm() puts its  *)
(* appended columns over them (NoAnswerHidden of ReportPaging).            *)
ReportShowsAnswers ==
  sent # Null => \A i \in DOMAIN fields :
    Cell(i) = InReport(fields[i], Said(fields[i], sent))

SameBound(s, t) == Bound(s) = Bound(t)
SameDefinition(d, e) ==
  /\ Len(d) = Len(e)
  /\ \A i \in DOMAIN d :
        /\ SameBound(d[i].minValue, e[i].minValue)
        /\ SameBound(d[i].maxValue, e[i].maxValue)
        /\ [d[i] EXCEPT !.minValue = Null, !.maxValue = Null] =
             [e[i] EXCEPT !.minValue = Null, !.maxValue = Null]

(* A retry gets the first receipt exactly when it says the same, however   *)
(* it is spelled or ordered, and a conflict when it says something else:   *)
(* definitionHash and requestHash are taken of canonical forms.            *)
RetriesByMeaning ==
  reply \in {200, 409} /\ last # Null =>
    \/ /\ "draft" \in DOMAIN last
       /\ reply = 200 <=> SameDefinition(last.draft, draft)
    \/ /\ "answers" \in DOMAIN last
       /\ reply = 200 <=>
            \A i \in DOMAIN fields : Said(fields[i], last.answers) = Said(fields[i], sent)

Answerable(f) ==
  LET found == {Collected(f, e) : e \in Entries(f)}
  IN /\ f.type \notin {"EMAIL", "DECIMAL"} =>
          \A v \in found : Empty(v) \/ Accepts(f, v)
     /\ f.required /\ f.type \notin TextTypes \cup {"DECIMAL"} =>
          \A v \in found : ~Empty(v)
     /\ f.type # "EMAIL" => \E v \in found : ~Empty(v) /\ Accepts(f, v)

(* A form that was saved can be filled in on the website: what the control *)
(* of a field permits and collectAnswers makes of it passes validateAnswers*)
(* -- blank texts and freely typed e-mail addresses and decimals aside --  *)
(* and for every field but an e-mail address, whose limit may be shorter   *)
(* than any address, there is such an entry, so no required field blocks   *)
(* the form for everyone.                                                  *)
EveryFieldAnswerable == \A i \in DOMAIN fields : Answerable(fields[i])
=============================================================================
