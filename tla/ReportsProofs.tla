--------------------------- MODULE ReportsProofs ---------------------------
(***************************************************************************)
(* What becomes of answers.  First Answers, for every choice of strings,   *)
(* limits, definitions and answers: what dto.ts and validation.ts accept,  *)
(* the schema of the first migration stores, labels that are longer for it *)
(* than for the pipe aside; the reports show it, a retry is known again by *)
(* its meaning, and the website's controls can hold it.                    *)
(* Then ReportPaging, for any rows, walks, revisions and page sizes: the   *)
(* pages of a report are in order, skip nothing and have a column for      *)
(* every answer.                                                           *)
(***************************************************************************)
EXTENDS Answers, ReportPaging, FiniteSetTheorems, TLAPS

-----------------------------------------------------------------------------
(* R orders S: any two elements one way, and never in a circle.            *)
Orders(R, S) ==
  /\ \A x \in S : <<x, x>> \notin R
  /\ \A x, y \in S : x # y => <<x, y>> \in R \/ <<y, x>> \in R
  /\ \A x, y, z \in S : <<x, y>> \in R /\ <<y, z>> \in R => <<x, z>> \in R

(* s lists S in the order R.                                               *)
Lists(s, R, S) ==
  /\ s \in [1 .. Cardinality(S) -> S]
  /\ \A m, n \in DOMAIN s : m < n => <<s[m], s[n]>> \in R

(* A finite set that is ordered and not empty has a last element.          *)
LEMMA LastExists ==
  ASSUME NEW R, NEW S, IsFiniteSet(S), S # {}, Orders(R, S)
  PROVE  \E z \in S : \A y \in S : y # z => <<y, z>> \in R
<1> DEFINE After(z) == {y \in S : <<z, y>> \in R}
           T == {After(z) : z \in S}
<1>1. SUBSET S = FiniteSubsetsOf(S)
  BY FS_FiniteSubsetsOfFinite
<1>2. T \subseteq FiniteSubsetsOf(S) /\ T # {}
  <2>1. \A z \in S : After(z) \in SUBSET S
    OBVIOUS
  <2> HIDE DEF After
  <2> QED  BY <1>1, <2>1
<1>3. \E t \in T : \A u \in T : ~(<<u, t>> \in StrictSubsetOrdering(S))
  <2> HIDE DEF T
  <2> QED  BY <1>2, WFMin, FS_StrictSubsetOrderingWellFounded
<1>4. PICK z \in S : \A y \in S : ~(<<After(y), After(z)>> \in StrictSubsetOrdering(S))
  BY <1>3
<1>5. ASSUME NEW y \in After(z) PROVE FALSE
  <2>1. y \in S /\ <<z, y>> \in R
    BY <1>5
  <2>2. <<y, y>> \notin R
    BY <2>1 DEF Orders
  <2>3. \A x \in After(y) : x \in After(z)
    BY <2>1 DEF Orders
  <2>4. After(y) \subseteq After(z) /\ After(y) # After(z)
    BY <1>5, <2>2, <2>3
  <2>5. <<After(y), After(z)>> \in StrictSubsetOrdering(S)
    BY <2>4 DEF StrictSubsetOrdering
  <2> QED  BY <1>4, <2>1, <2>5
<1>6. \A y \in S : y # z => <<y, z>> \in R
  BY <1>5 DEF Orders
<1> QED  BY <1>6

(* Every finite set that is ordered can be listed: a least set that could  *)
(* not be would give one less by removing its last element.                *)
LEMMA OrdersList ==
  ASSUME NEW R, NEW All, IsFiniteSet(All), Orders(R, All)
  PROVE  \E s : Lists(s, R, All)
<1> DEFINE Unlisted == {S \in SUBSET All : ~\E s : Lists(s, R, S)}
<1>1. SUFFICES ASSUME Unlisted # {} PROVE FALSE
  OBVIOUS
<1>2. SUBSET All = FiniteSubsetsOf(All)
  BY FS_FiniteSubsetsOfFinite
<1>3. PICK S \in Unlisted : \A U \in Unlisted : ~(<<U, S>> \in StrictSubsetOrdering(All))
  <2>1. Unlisted \subseteq FiniteSubsetsOf(All)
    BY <1>2
  <2> HIDE DEF Unlisted
  <2> QED  BY <1>1, <2>1, WFMin, FS_StrictSubsetOrderingWellFounded
<1>4. S \in SUBSET All /\ IsFiniteSet(S) /\ Cardinality(S) \in Nat /\ Orders(R, S)
  BY FS_Subset, FS_CardinalityType DEF Orders
<1>5. S # {}
  <2>1. Cardinality({}) = 0
    BY FS_EmptySet
  <2>2. [n \in {} |-> n] \in [1 .. 0 -> {}] /\ DOMAIN [n \in {} |-> n] = {}
    OBVIOUS
  <2>3. Lists([n \in {} |-> n], R, {})
    BY <2>1, <2>2 DEF Lists
  <2> QED  BY <2>3
<1>6. PICK z \in S : \A y \in S : y # z => <<y, z>> \in R
  BY <1>4, <1>5, LastExists
<1> DEFINE Q == S \ {z}
           N == Cardinality(S)
<1>7. Cardinality(Q) = N - 1 /\ N \in Nat /\ N >= 1
  <2>1. Cardinality(Q) = N - 1
    BY <1>4, FS_RemoveElement
  <2>2. Cardinality(Q) \in Nat
    BY <1>4, FS_RemoveElement, FS_CardinalityType
  <2> QED  BY <1>4, <2>1, <2>2
<1>8. Q \notin Unlisted
  <2>1. <<Q, S>> \in StrictSubsetOrdering(All)
    BY <1>4 DEF StrictSubsetOrdering
  <2> QED  BY <1>3, <2>1
<1>9. PICK r : Lists(r, R, Q)
  BY <1>4, <1>8
<1>10. /\ r \in [1 .. (N - 1) -> Q]
       /\ \A m, n \in 1 .. (N - 1) : m < n => <<r[m], r[n]>> \in R
  BY <1>7, <1>9 DEF Lists
<1> DEFINE s == [n \in 1 .. N |-> IF n = N THEN z ELSE r[n]]
<1>11. \A n \in 1 .. N : n # N => n \in 1 .. (N - 1)
  BY <1>7
<1>12. \A n \in 1 .. N : s[n] \in S /\ (n # N => s[n] = r[n] /\ s[n] # z)
  BY <1>10, <1>11
<1>13. s \in [1 .. N -> S]
  BY <1>12
<1>14. ASSUME NEW m \in 1 .. N, NEW n \in 1 .. N, m < n
       PROVE  <<s[m], s[n]>> \in R
  <2>1. m # N /\ m \in 1 .. (N - 1)
    BY <1>7, <1>11, <1>14
  <2>2. CASE n = N
    <3>1. s[n] = z
      BY <2>2
    <3> QED  BY <1>6, <1>12, <2>1, <3>1
  <2>3. CASE n # N
    BY <1>10, <1>11, <1>12, <1>14, <2>1, <2>3
  <2> QED  BY <2>2, <2>3
<1>15. Lists(s, R, S)
  BY <1>13, <1>14 DEF Lists
<1> QED  BY <1>3, <1>15

(* A listing names every element, and each once.                           *)
LEMMA ListingIsOnto ==
  ASSUME NEW R, NEW S, IsFiniteSet(S), Orders(R, S), NEW s, Lists(s, R, S)
  PROVE  /\ s \in Seq(S) /\ Len(s) = Cardinality(S)
         /\ \A m, n \in 1 .. Len(s) : s[m] = s[n] => m = n
         /\ \A x \in S : \E n \in 1 .. Len(s) : s[n] = x
<1> DEFINE N == Cardinality(S)
<1>1. N \in Nat
  BY FS_CardinalityType
<1>2. s \in [1 .. N -> S] /\ \A m, n \in 1 .. N : m < n => <<s[m], s[n]>> \in R
  BY DEF Lists
<1>3. s \in Seq(S) /\ Len(s) = N
  BY <1>1, <1>2
<1>4. ASSUME NEW m \in 1 .. N, NEW n \in 1 .. N, m # n PROVE s[m] # s[n]
  <2>1. s[m] \in S /\ s[n] \in S
    BY <1>2
  <2>2. <<s[m], s[n]>> \in R \/ <<s[n], s[m]>> \in R
    BY <1>1, <1>2, <1>4
  <2> QED  BY <2>1, <2>2 DEF Orders
<1>5. s \in Injection(1 .. N, S)
  BY <1>2, <1>4 DEF Injection, IsInjective
<1>6. s \in Surjection(1 .. N, S)
  <2>1. Cardinality(1 .. N) = N
    BY <1>1, FS_Interval
  <2> QED  BY <1>1, <1>5, <2>1, FS_Injection
<1> QED  BY <1>3, <1>4, <1>6 DEF Surjection

(* A JSON value is of the only type its typeof names.                      *)
LEMMA TypeofTells ==
  ASSUME NEW v \in Json
  PROVE  /\ Is(v, "string") => v \in [string : Strings]
         /\ Is(v, "number") => v \in [number : Int]
         /\ Is(v, "boolean") => v \in [boolean : BOOLEAN]
         /\ Is(v, "array") => v \in [array : Seq(Scalars)]
BY DEF Json, Scalars, Is

(* A field that dto.ts and validateDefinition accept is one the CHECKs of  *)
(* FormField and FieldOption accept, once its bounds are numbers and if    *)
(* its labels fit their columns.                                           *)
LEMMA FieldsAgree ==
  ASSUME NEW f \in FieldDto, WellFormed(f), Consistent(f), f.key \notin ReservedKeys,
         \A s \in Labels(f) : ~(Length[s] > MaxLabel)
  PROVE  SchemaTakesField(SavedField(f))
<1> DEFINE g == SavedField(f)
<1>1. /\ g.key = f.key /\ g.label = f.label /\ g.type = f.type
      /\ g.options = f.options /\ g.maxLength = f.maxLength
      /\ g.minValue = Bound(f.minValue) /\ g.maxValue = Bound(f.maxValue)
  BY DEF SavedField
<1>2. Labels(g) = Labels(f) /\ OptionKeys(g) = OptionKeys(f)
  BY <1>1 DEF Labels, OptionKeys
<1>3. /\ g.key \in SafeKeys \ ReservedKeys /\ OptionKeys(g) \subseteq SafeKeys
      /\ \A i, j \in DOMAIN g.options : g.options[i].key = g.options[j].key => i = j
  BY <1>1, <1>2 DEF WellFormed, Consistent
<1>4. \A s \in Labels(g) : s \notin WithNul /\ Length[s] <= MaxLabel
  <2>1. Labels(f) \subseteq Strings
    <3>1. \A i \in DOMAIN f.options : f.options[i] \in Option
      BY DEF FieldDto
    <3> QED  BY <3>1 DEF Labels, FieldDto, Option
  <2>2. \A s \in Strings : Length[s] \in Nat
    BY StringsAssumption
  <2> QED  BY <1>2, <2>1, <2>2, NumbersAssumption DEF WellFormed
<1>5. g.maxLength # Null => g.type \in TextTypes /\ g.maxLength \in 1 .. MaxText
  BY <1>1 DEF WellFormed, Consistent
<1>6. /\ f.minValue # Null => g.minValue = Number[f.minValue] /\ IsDecimal(f.minValue)
      /\ f.maxValue # Null => g.maxValue = Number[f.maxValue] /\ IsDecimal(f.maxValue)
      /\ f.minValue = Null => g.minValue = Null
      /\ f.maxValue = Null => g.maxValue = Null
  BY <1>1 DEF WellFormed, Bound
<1>7. /\ g.minValue # Null \/ g.maxValue # Null => g.type \in NumberTypes
      /\ g.minValue # Null /\ g.maxValue # Null => g.minValue <= g.maxValue
  <2>1. BoundsFit(f)
    BY DEF Consistent
  <2>2. f.minValue # Null \/ f.maxValue # Null => Bounds(f) # {}
    BY DEF Bounds
  <2> QED  BY <1>1, <1>6, <2>1, <2>2 DEF BoundsFit
<1>8. \A n \in {g.minValue, g.maxValue} \ {Null} :
         -LargestDecimal <= n /\ n <= LargestDecimal
  BY <1>6 DEF IsDecimal
<1> QED
  BY <1>3, <1>4, <1>5, <1>7, <1>8 DEF SchemaTakesField

LEMMA ColumnNamesListed ==
  ColumnNames =
    {"textValue", "integerValue", "decimalValue", "booleanValue", "dateValue", "option"}
<1>1. DOMAIN Columns = 1 .. 6
  BY DEF Columns
<1>2. /\ Columns[1] = "textValue" /\ Columns[2] = "integerValue"
      /\ Columns[3] = "decimalValue" /\ Columns[4] = "booleanValue"
      /\ Columns[5] = "dateValue" /\ Columns[6] = "option"
  BY DEF Columns
<1> QED  BY <1>1, <1>2 DEF ColumnNames

(* The schema's rules for one answer row.                                  *)
StoredAs(f, r) ==
  TypedValue(r) /\ Storable(r) /\ RefersToField(f, r) /\ MeetsRules(f, r)

(* What writeAnswer writes of an answer with one value: that value in one  *)
(* column and NULL in the others.                                          *)
LEMMA OneColumn ==
  ASSUME NEW f \in Field, NEW c, NEW k \in ColumnNames,
         f.type # "MULTI_SELECT", Column(f.type) = k, Stored(f, c) # Null
  PROVE  /\ AnswerRow(f, c).type = f.type
         /\ AnswerRow(f, c).selections = {}
         /\ AnswerRow(f, c).value[k] = Stored(f, c)
         /\ \A m \in ColumnNames \ {k} : AnswerRow(f, c).value[m] = Null
         /\ {m \in ColumnNames : AnswerRow(f, c).value[m] # Null} = {k}
BY DEF AnswerRow

LEMMA TextStored ==
  ASSUME NEW f \in Field, SchemaTakesField(f), NEW v \in Json, f.type \in TextTypes,
         ~Empty(v), Accepts(f, v)
  PROVE  StoredAs(f, AnswerRow(f, Canonical(f, v)))
<1> DEFINE c == Canonical(f, v)
           r == AnswerRow(f, c)
<1>1. TextFits(f, v) /\ v \in [string : Strings]
  BY TypeofTells DEF Accepts, TextTypes, TextFits
<1>2. c = v /\ Stored(f, c) = v
  BY DEF Canonical, Stored, TextTypes
<1>3. v # Null /\ v.string \notin Blank
  BY <1>1 DEF Empty, TextFits, Is
<1>4. /\ r.type = f.type /\ r.selections = {} /\ r.value["textValue"] = v
      /\ \A m \in ColumnNames \ {"textValue"} : r.value[m] = Null
      /\ {m \in ColumnNames : r.value[m] # Null} = {"textValue"}
  BY <1>2, <1>3, OneColumn, ColumnNamesListed DEF Column, TextTypes
<1>5. Length[v.string] <= MaxLengthOf(f) /\ MaxLengthOf(f) <= MaxText
  BY <1>1, NumbersAssumption DEF TextFits, MaxLengthOf, SchemaTakesField
<1>6. v.string \notin Spaces /\ v.string \notin WithNul /\ Length[v.string] <= MaxText
  BY <1>1, <1>3, <1>5, StringsAssumption, NumbersAssumption DEF TextFits, MaxLengthOf, Field
<1>7. TypedValue(r)
  BY <1>4 DEF TypedValue
<1>8. Storable(r)
  BY <1>4, <1>6, ColumnNamesListed DEF Storable
<1>9. RefersToField(f, r) /\ MeetsRules(f, r)
  BY <1>4, <1>5, <1>6, ColumnNamesListed DEF RefersToField, MeetsRules, TextTypes
<1> QED  BY <1>7, <1>8, <1>9 DEF StoredAs

LEMMA NumberStored ==
  ASSUME NEW f \in Field, NEW v \in Json, f.type \in NumberTypes,
         ~Empty(v), Accepts(f, v)
  PROVE  StoredAs(f, AnswerRow(f, Canonical(f, v)))
<1> DEFINE c == Canonical(f, v)
           r == AnswerRow(f, c)
<1>1. CASE f.type = "INTEGER"
  <2>1. IntegerFits(f, v) /\ v # Null
    BY <1>1 DEF Accepts, TextTypes, Empty
  <2>2. c = v /\ Stored(f, c) = v
    BY <1>1 DEF Canonical, Stored
  <2>3. /\ r.type = "INTEGER" /\ r.selections = {} /\ r.value["integerValue"] = v
        /\ \A m \in ColumnNames \ {"integerValue"} : r.value[m] = Null
        /\ {m \in ColumnNames : r.value[m] # Null} = {"integerValue"}
    BY <1>1, <2>1, <2>2, OneColumn, ColumnNamesListed DEF Column, TextTypes
  <2>4. TypedValue(r)
    BY <2>3 DEF TypedValue
  <2>5. Storable(r) /\ RefersToField(f, r) /\ MeetsRules(f, r)
    BY <1>1, <2>1, <2>3, ColumnNamesListed
    DEF Storable, RefersToField, MeetsRules, IntegerFits, TextTypes
  <2> QED  BY <2>4, <2>5 DEF StoredAs
<1>2. CASE f.type = "DECIMAL"
  <2>1. DecimalFits(f, v)
    BY <1>2 DEF Accepts, TextTypes
  <2>2. c = [decimal |-> Number[v.string]] /\ Stored(f, c) = c
    BY <1>2 DEF Canonical, Stored
  <2>3. c # Null
    <3>1. Number[v.string] \in Int
      BY <2>1, StringsAssumption DEF DecimalFits, IsDecimal
    <3> QED  BY <2>2, <3>1, NullAssumption DEF CanonicalValues
  <2>4. /\ r.type = "DECIMAL" /\ r.selections = {} /\ r.value["decimalValue"] = c
        /\ \A m \in ColumnNames \ {"decimalValue"} : r.value[m] = Null
        /\ {m \in ColumnNames : r.value[m] # Null} = {"decimalValue"}
    BY <1>2, <2>2, <2>3, OneColumn, ColumnNamesListed DEF Column, TextTypes
  <2>5. TypedValue(r)
    BY <2>4 DEF TypedValue
  <2>6. Storable(r) /\ RefersToField(f, r) /\ MeetsRules(f, r)
    BY <1>2, <2>1, <2>2, <2>4, ColumnNamesListed
    DEF Storable, RefersToField, MeetsRules, DecimalFits, IsDecimal, TextTypes
  <2> QED  BY <2>5, <2>6 DEF StoredAs
<1> QED  BY <1>1, <1>2 DEF NumberTypes

LEMMA OthersStored ==
  ASSUME NEW f \in Field, NEW v \in Json,
         f.type \in {"BOOLEAN", "DATE", "SINGLE_SELECT"}, ~Empty(v), Accepts(f, v)
  PROVE  StoredAs(f, AnswerRow(f, Canonical(f, v)))
<1> DEFINE c == Canonical(f, v)
           r == AnswerRow(f, c)
<1>1. c = v /\ v # Null
  BY DEF Canonical, Empty
<1>2. f.type # "DATE" => Stored(f, c) = v
  BY <1>1 DEF Stored
<1>3. CASE f.type = "BOOLEAN"
  <2>1. /\ r.type = "BOOLEAN" /\ r.selections = {}
        /\ \A m \in ColumnNames \ {"booleanValue"} : r.value[m] = Null
        /\ {m \in ColumnNames : r.value[m] # Null} = {"booleanValue"}
    BY <1>1, <1>3, <1>2, OneColumn, ColumnNamesListed DEF Column, TextTypes
  <2> QED
    BY <1>3, <2>1, ColumnNamesListed
    DEF StoredAs, TypedValue, Storable, RefersToField, MeetsRules, TextTypes
<1>4. CASE f.type = "DATE"
  <2>1. DateFits(v) /\ v \in [string : Strings]
    BY <1>4, TypeofTells DEF Accepts, TextTypes, DateFits
  <2>2. Stored(f, c) = v /\ v.string # Null
    BY <1>1, <1>4, <2>1, NullAssumption DEF Stored, DateFits
  <2>3. /\ r.type = "DATE" /\ r.selections = {} /\ r.value["dateValue"] = v
        /\ \A m \in ColumnNames \ {"dateValue"} : r.value[m] = Null
        /\ {m \in ColumnNames : r.value[m] # Null} = {"dateValue"}
    BY <1>1, <1>4, <2>2, OneColumn, ColumnNamesListed DEF Column, TextTypes
  <2> QED
    BY <1>4, <2>2, <2>3, ColumnNamesListed
    DEF StoredAs, TypedValue, Storable, RefersToField, MeetsRules, TextTypes
<1>5. CASE f.type = "SINGLE_SELECT"
  <2>1. v.string \in OptionKeys(f)
    BY <1>5 DEF Accepts, IsOption, TextTypes
  <2>2. /\ r.type = "SINGLE_SELECT" /\ r.selections = {} /\ r.value["option"] = v
        /\ \A m \in ColumnNames \ {"option"} : r.value[m] = Null
        /\ {m \in ColumnNames : r.value[m] # Null} = {"option"}
    BY <1>1, <1>5, <1>2, OneColumn, ColumnNamesListed DEF Column, TextTypes
  <2> QED
    BY <1>5, <2>1, <2>2, ColumnNamesListed
    DEF StoredAs, TypedValue, Storable, RefersToField, MeetsRules, TextTypes
<1> QED  BY <1>3, <1>4, <1>5

(* The choices of a MULTI_SELECT answer need no column, only selections.   *)
LEMMA ChoicesStored ==
  ASSUME NEW f \in Field, NEW v \in Json, f.type = "MULTI_SELECT",
         ~Empty(v), Accepts(f, v)
  PROVE  StoredAs(f, AnswerRow(f, Canonical(f, v)))
<1> DEFINE c == Canonical(f, v)
           r == AnswerRow(f, c)
<1>1. ChoicesFit(f, v) /\ v \in [array : Seq(Scalars)]
  BY TypeofTells DEF Accepts, TextTypes, ChoicesFit
<1>2. c = [selected |-> {v.array[i].string : i \in DOMAIN v.array}]
  BY DEF Canonical
<1>3. /\ r.type = "MULTI_SELECT" /\ r.selections = c.selected
      /\ \A k \in ColumnNames : r.value[k] = Null
  BY ColumnNamesListed DEF AnswerRow, Column, TextTypes
<1>4. c.selected \subseteq OptionKeys(f)
  BY <1>1, <1>2 DEF ChoicesFit, IsOption
<1>5. c.selected # {}
  <2>1. v.array # <<>> /\ v.array \in Seq(Scalars)
    BY <1>1, NullAssumption DEF Empty, Is
  <2>2. 1 \in DOMAIN v.array
    BY <2>1
  <2>3. v.array[1].string \in c.selected
    BY <1>2, <2>2
  <2> QED  BY <2>3
<1> QED
  BY <1>3, <1>4, <1>5, ColumnNamesListed
  DEF StoredAs, TypedValue, Storable, RefersToField, MeetsRules, TextTypes

(* An answer that validateAnswers accepts for a stored field passes the    *)
(* CHECKs, the foreign keys and the deferred trigger of the schema.        *)
LEMMA AnswersAgree ==
  ASSUME NEW f \in Field, SchemaTakesField(f), NEW v \in Json,
         ~Empty(v), Accepts(f, v)
  PROVE  StoredAs(f, AnswerRow(f, Canonical(f, v)))
<1>1. \/ f.type \in TextTypes \/ f.type \in NumberTypes \/ f.type = "MULTI_SELECT"
      \/ f.type \in {"BOOLEAN", "DATE", "SINGLE_SELECT"}
  BY DEF Field, FieldTypes, ChoiceTypes
<1> QED  BY <1>1, TextStored, NumberStored, OthersStored, ChoicesStored

(* Every answer to a saved form that is accepted is complete and stored.   *)
LEMMA SubmissionsAgree ==
  ASSUME NEW a \in Requests, ValidAnswers(fields, a),
         \A i \in DOMAIN fields : fields[i] \in Field /\ SchemaTakesField(fields[i])
  PROVE  SchemaTakesAnswers(fields, RowsOf(Validated(fields, a)))
<1> DEFINE kept == RowsOf(Validated(fields, a))
<1>1. DOMAIN kept = {i \in DOMAIN fields : Given(fields[i], a)}
  BY DEF RowsOf, Validated
<1>2. ASSUME NEW i \in DOMAIN kept PROVE StoredAs(fields[i], kept[i])
  <2> DEFINE f == fields[i]
             v == a[f.key]
  <2>1. i \in DOMAIN fields /\ Given(f, a)
    BY <1>1
  <2>2. v \in Json /\ ~Empty(v) /\ Accepts(f, v)
    BY <2>1, InputsAssumption DEF Given, ValidAnswers
  <2>3. kept[i] = AnswerRow(f, Canonical(f, v))
    BY <2>1 DEF RowsOf, Validated
  <2> QED  BY <2>1, <2>2, <2>3, AnswersAgree
<1>3. \A i \in DOMAIN fields : fields[i].required => i \in DOMAIN kept
  BY <1>1 DEF ValidAnswers
<1> QED  BY <1>2, <1>3 DEF SchemaTakesAnswers, StoredAs

(* What holds of the database: a saved form has the fields of its draft,   *)
(* which the schema accepts, and the rows of a submission are those of the *)
(* canonical answers sent.                                                 *)
Consistency ==
  /\ draft # Null =>
       \A i \in DOMAIN fields : fields[i] \in Field /\ SchemaTakesField(fields[i])
  /\ sent # Null =>
       /\ draft # Null /\ sent \in Requests /\ ValidAnswers(fields, sent)
       /\ answers = RowsOf(Validated(fields, sent))
  /\ OnlyLongLabelsFail

LEMMA DefinitionsAgree ==
  ASSUME NEW d \in Drafts, ValidDefinition(d)
  PROVE  /\ ~LabelTooLong(d) => SchemaTakesFields(Normalized(d))
         /\ \A i \in DOMAIN Normalized(d) : Normalized(d)[i] \in Field
<1>1. d \in Seq(FieldDto)
  BY InputsAssumption
<1>2. ASSUME NEW i \in DOMAIN d
      PROVE  /\ ~LabelTooLong(d) => SchemaTakesField(SavedField(d[i]))
             /\ SavedField(d[i]) \in Field /\ SavedField(d[i]).key = d[i].key
  <2>1. d[i] \in FieldDto
    BY <1>1
  <2>2. WellFormed(d[i]) /\ Consistent(d[i]) /\ d[i].key \notin ReservedKeys
    BY DEF ValidDefinition, KeysFit
  <2>3. ~LabelTooLong(d) => SchemaTakesField(SavedField(d[i]))
    <3>1. ~LabelTooLong(d) => \A s \in Labels(d[i]) : ~(Length[s] > MaxLabel)
      BY DEF LabelTooLong
    <3> QED  BY <2>1, <2>2, <3>1, FieldsAgree
  <2>4. Bound(d[i].minValue) \in Int \cup {Null} /\ Bound(d[i].maxValue) \in Int \cup {Null}
    BY <2>1, <2>2, StringsAssumption DEF WellFormed, IsDecimal, Bound
  <2>5. SavedField(d[i]) \in Field
    BY <2>1, <2>4 DEF SavedField, FieldDto, Field
  <2> QED  BY <2>3, <2>5 DEF SavedField
<1>3. DOMAIN Normalized(d) = DOMAIN d /\ \A i \in DOMAIN d : Normalized(d)[i] = SavedField(d[i])
  BY DEF Normalized
<1> QED  BY <1>2, <1>3 DEF SchemaTakesFields, ValidDefinition, KeysFit

(* The first definition is saved unless one of its labels is too long for  *)
(* its column; then nothing is.                                            *)
LEMMA FirstDefinition ==
  ASSUME NEW d \in Drafts, ValidDefinition(d), draft = Null, PutVersion(d)
  PROVE  \/ /\ reply' = 200 /\ draft' = d /\ fields' = Normalized(d)
            /\ SchemaTakesFields(fields')
            /\ \A i \in DOMAIN fields' : fields'[i] \in Field
         \/ reply' = 500 /\ LabelTooLong(d) /\ UNCHANGED <<draft, fields>>
<1>1. CASE SchemaTakesFields(Normalized(d))
  <2>1. reply' = 200 /\ draft' = d /\ fields' = Normalized(d)
    BY <1>1 DEF PutVersion
  <2> QED  BY <1>1, <2>1, DefinitionsAgree
<1>2. CASE ~SchemaTakesFields(Normalized(d))
  <2>1. reply' = 500 /\ UNCHANGED <<draft, fields>>
    BY <1>2 DEF PutVersion
  <2> QED  BY <1>2, <2>1, DefinitionsAgree
<1> QED  BY <1>1, <1>2

LEMMA ConsistencyStep == Consistency /\ [Next]_vars => Consistency'
<1> SUFFICES ASSUME Consistency, [Next]_vars PROVE Consistency'
  OBVIOUS
<1>1. ASSUME NEW d \in Drafts, PutVersion(d) PROVE Consistency'
  <2>1. UNCHANGED <<sent, hash, answers>>
    BY <1>1 DEF PutVersion
  <2>2. CASE UNCHANGED <<draft, fields>> /\ reply' # 500
    BY <2>1, <2>2 DEF Consistency, OnlyLongLabelsFail, RowsOf
  <2>3. CASE ValidDefinition(d) /\ draft = Null
    <3>1. sent' = Null
      BY <2>1, <2>3 DEF Consistency
    <3>2. CASE /\ reply' = 200 /\ draft' = d /\ SchemaTakesFields(fields')
               /\ \A i \in DOMAIN fields' : fields'[i] \in Field
      BY <3>1, <3>2 DEF Consistency, OnlyLongLabelsFail, SchemaTakesFields
    <3>3. CASE reply' = 500 /\ LabelTooLong(d) /\ UNCHANGED <<draft, fields>>
      <4>1. last' = [draft |-> d]
        BY <1>1 DEF PutVersion
      <4>2. "draft" \in DOMAIN last' /\ last'.draft = d
        BY <4>1
      <4> QED  BY <2>3, <3>1, <3>3, <4>2 DEF Consistency, OnlyLongLabelsFail
    <3> QED  BY <1>1, <2>3, <3>2, <3>3, FirstDefinition
  <2> QED  BY <1>1, <2>2, <2>3 DEF PutVersion
<1>2. ASSUME NEW a \in Requests, Submit(a) PROVE Consistency'
  <2>1. UNCHANGED <<draft, fields>>
    BY <1>2 DEF Submit
  <2>2. CASE UNCHANGED <<sent, hash, answers>> /\ reply' # 500
    BY <2>1, <2>2 DEF Consistency, OnlyLongLabelsFail, RowsOf
  <2>3. CASE draft # Null /\ ValidAnswers(fields, a) /\ sent = Null
    <3>1. SchemaTakesAnswers(fields, RowsOf(Validated(fields, a)))
      BY <2>3, SubmissionsAgree DEF Consistency
    <3>2. reply' = 200 /\ sent' = a /\ answers' = RowsOf(Validated(fields, a))
      BY <1>2, <2>3, <3>1 DEF Submit
    <3> QED
      BY <2>1, <2>3, <3>2 DEF Consistency, OnlyLongLabelsFail, RowsOf
  <2> QED  BY <1>2, <2>2, <2>3 DEF Submit
<1>3. CASE UNCHANGED vars
  BY <1>3 DEF Consistency, OnlyLongLabelsFail, vars, RowsOf
<1> QED  BY <1>1, <1>2, <1>3 DEF Next

LEMMA ConsistencyHolds == Spec => []Consistency
<1>1. Init => Consistency
  BY DEF Init, Consistency, OnlyLongLabelsFail
<1> QED  BY <1>1, ConsistencyStep, PTL DEF Spec

(* For every set of strings, every limit and every request: the schema     *)
(* refuses no answers that the service accepts, and of the definitions it  *)
(* accepts only those with a label that @Length counts as shorter than     *)
(* VARCHAR(200) does.                                                      *)
THEOREM AcceptedIsStored == Spec => []OnlyLongLabelsFail
<1>1. Consistency => OnlyLongLabelsFail
  BY DEF Consistency
<1> QED  BY <1>1, ConsistencyHolds, PTL

(* The reports' chain of ?? finds the only value of a row.                 *)
LEMMA FirstOfOne ==
  ASSUME NEW r, NEW k \in DOMAIN Columns, r.value[Columns[k]] # Null,
         \A m \in ColumnNames \ {Columns[k]} : r.value[m] = Null
  PROVE  FirstValue(r) = r.value[Columns[k]]
<1>1. \A m \in DOMAIN Columns : m # k => Columns[m] # Columns[k]
  <2>1. DOMAIN Columns = 1 .. 6
    BY DEF Columns
  <2>2. /\ Columns[1] = "textValue" /\ Columns[2] = "integerValue"
        /\ Columns[3] = "decimalValue" /\ Columns[4] = "booleanValue"
        /\ Columns[5] = "dateValue" /\ Columns[6] = "option"
    BY DEF Columns
  <2> QED  BY <2>1, <2>2
<1>2. {m \in DOMAIN Columns : r.value[Columns[m]] # Null} = {k}
  BY <1>1 DEF ColumnNames
<1>3. k \in Int
  BY DEF Columns
<1>4. (CHOOSE m \in {k} : \A n \in {k} : m <= n) = k
  BY <1>3
<1> QED  BY <1>2, <1>4 DEF FirstValue

(* An accepted answer has a canonical form, and that is what it says.      *)
LEMMA CanonicalTyped ==
  ASSUME NEW f \in Field, NEW v \in Json, ~Empty(v), Accepts(f, v)
  PROVE  Canonical(f, v) \in CanonicalValues /\ Canonical(f, v) # Null
<1>1. CASE f.type = "DECIMAL"
  <2>1. DecimalFits(f, v)
    BY <1>1 DEF Accepts, TextTypes
  <2>2. Number[v.string] \in Int
    BY <2>1, StringsAssumption DEF DecimalFits, IsDecimal
  <2> QED  BY <1>1, <2>2, NullAssumption DEF Canonical, CanonicalValues
<1>2. CASE f.type = "MULTI_SELECT"
  <2> DEFINE chosen == {v.array[i].string : i \in DOMAIN v.array}
  <2>1. ChoicesFit(f, v) /\ v.array \in Seq(Scalars)
    BY <1>2, TypeofTells DEF Accepts, TextTypes, ChoicesFit
  <2>2. ASSUME NEW i \in DOMAIN v.array PROVE v.array[i].string \in Strings
    BY <2>1, <2>2 DEF ChoicesFit, IsOption, Is, Scalars
  <2>3. Canonical(f, v) = [selected |-> chosen]
    BY <1>2 DEF Canonical
  <2> QED  BY <2>2, <2>3, NullAssumption DEF CanonicalValues
<1>3. CASE f.type \notin {"DECIMAL", "MULTI_SELECT"}
  <2>1. Canonical(f, v) = v /\ v # Null
    BY <1>3 DEF Canonical, Empty
  <2>2. Is(v, "string") \/ Is(v, "number") \/ Is(v, "boolean")
    BY <1>3 DEF Accepts, TextFits, IntegerFits, DateFits, IsOption
  <2> QED  BY <2>1, <2>2, TypeofTells DEF CanonicalValues, Scalars
<1> QED  BY <1>1, <1>2, <1>3

(* What an answer says is what its canonical form says.                    *)
LEMMA SaidIsCanonical ==
  ASSUME NEW f, NEW a, Given(f, a)
  PROVE  Said(f, a) = Canonical(f, a[f.key])
BY DEF Said, Canonical

(* The cell of an accepted answer is what the visitor said.                *)
LEMMA CellShows ==
  ASSUME NEW f \in Field, NEW v \in Json, ~Empty(v), Accepts(f, v),
         f.type # "MULTI_SELECT"
  PROVE  FirstValue(AnswerRow(f, Canonical(f, v))) =
           IF f.type = "DECIMAL" THEN [decimal |-> Number[v.string]] ELSE v
<1> DEFINE c == Canonical(f, v)
           r == AnswerRow(f, c)
<1>1. c = IF f.type = "DECIMAL" THEN [decimal |-> Number[v.string]] ELSE v
  BY DEF Canonical
<1>2. Stored(f, c) = c
  <2>1. CASE f.type = "DATE"
    <3>1. DateFits(v) /\ v \in [string : Strings]
      BY <2>1, TypeofTells DEF Accepts, TextTypes, DateFits
    <3> QED  BY <1>1, <2>1, <3>1 DEF Stored, DateFits
  <2> QED  BY <2>1 DEF Stored
<1>3. c # Null
  <2>1. CASE f.type = "DECIMAL"
    <3>1. DecimalFits(f, v)
      BY <2>1 DEF Accepts, TextTypes
    <3>2. Number[v.string] \in Int
      BY <3>1, StringsAssumption DEF DecimalFits, IsDecimal
    <3> QED  BY <1>1, <2>1, <3>2, NullAssumption DEF CanonicalValues
  <2> QED  BY <1>1, <2>1 DEF Empty
<1>4. PICK k \in DOMAIN Columns : Columns[k] = Column(f.type)
  <2>1. Column(f.type) \in ColumnNames
    BY ColumnNamesListed
    DEF Column, Field, FieldTypes, TextTypes, NumberTypes, ChoiceTypes
  <2> QED  BY <2>1 DEF ColumnNames
<1>5. Columns[k] \in ColumnNames
  BY DEF ColumnNames
<1>6. /\ r.value[Columns[k]] = c
      /\ \A m \in ColumnNames \ {Columns[k]} : r.value[m] = Null
  BY <1>2, <1>3, <1>4, <1>5, OneColumn
<1>7. FirstValue(r) = c
  BY <1>3, <1>6, FirstOfOne
<1> QED  BY <1>1, <1>7

(* A report shows exactly what the visitor said, for every definition and  *)
(* all answers: nothing is lost between the request and the cell.          *)
THEOREM AnswersAreShown == Spec => []ReportShowsAnswers
<1>1. Consistency => ReportShowsAnswers
  <2> SUFFICES ASSUME Consistency, sent # Null, NEW i \in DOMAIN fields
               PROVE  Cell(i) = InReport(fields[i], Said(fields[i], sent))
    BY DEF ReportShowsAnswers
  <2> DEFINE f == fields[i]
             v == sent[f.key]
  <2>1. /\ f \in Field /\ sent \in Requests /\ ValidAnswers(fields, sent)
        /\ answers = RowsOf(Validated(fields, sent))
    BY DEF Consistency
  <2>2. DOMAIN answers = {j \in DOMAIN fields : Given(fields[j], sent)}
    BY <2>1 DEF RowsOf, Validated
  <2>3. CASE ~Given(f, sent)
    BY <2>2, <2>3 DEF Cell, Said, InReport
  <2>4. CASE Given(f, sent)
    <3>1. v \in Json /\ ~Empty(v) /\ Accepts(f, v)
      BY <2>1, <2>4, InputsAssumption DEF Given, ValidAnswers
    <3>2. i \in DOMAIN answers /\ answers[i] = AnswerRow(f, Canonical(f, v))
      BY <2>1, <2>2, <2>4 DEF RowsOf, Validated
    <3>3. answers[i].type = f.type
      BY <3>2 DEF AnswerRow
    <3>4. CASE f.type = "MULTI_SELECT"
      <4>1. answers[i].selections = {v.array[k].string : k \in DOMAIN v.array}
        BY <3>2, <3>4 DEF AnswerRow, Canonical
      <4>2. Cell(i) = [selected |-> InOptionOrder(f, answers[i].selections)]
        BY <3>2, <3>3, <3>4 DEF Cell
      <4>3. Said(f, sent) = [selected |-> {v.array[k].string : k \in DOMAIN v.array}]
        BY <2>4, <3>4 DEF Said
      <4>4. Said(f, sent) # Null
        BY <2>1, <2>4, <3>1, CanonicalTyped, SaidIsCanonical
      <4>5. InReport(f, Said(f, sent)) =
              [selected |-> InOptionOrder(f, Said(f, sent).selected)]
        BY <3>4, <4>4 DEF InReport
      <4>6. Said(f, sent).selected = answers[i].selections
        BY <4>1, <4>3
      <4> QED  BY <4>2, <4>5, <4>6
    <3>5. CASE f.type # "MULTI_SELECT"
      <4>1. Cell(i) = FirstValue(answers[i])
        BY <3>2, <3>3, <3>5 DEF Cell
      <4>2. Said(f, sent) = IF f.type = "DECIMAL" THEN [decimal |-> Number[v.string]] ELSE v
        BY <2>4, <3>5 DEF Said
      <4> QED  BY <2>1, <3>1, <3>2, <3>5, <4>1, <4>2, CellShows DEF InReport
    <3> QED  BY <3>4, <3>5
  <2> QED  BY <2>3, <2>4
<1> QED  BY <1>1, ConsistencyHolds, PTL
-----------------------------------------------------------------------------
(* What requestHash covers is what was said, field by field.               *)
LEMMA ValidatedIsSaid ==
  ASSUME NEW a \in Requests, ValidAnswers(fields, a),
         \A i \in DOMAIN fields : fields[i] \in Field
  PROVE  /\ DOMAIN Validated(fields, a) =
              {i \in DOMAIN fields : Said(fields[i], a) # Null}
         /\ \A i \in DOMAIN Validated(fields, a) :
              /\ Validated(fields, a)[i] = Said(fields[i], a)
              /\ Validated(fields, a)[i] \in CanonicalValues
<1>1. ASSUME NEW i \in DOMAIN fields, Given(fields[i], a)
      PROVE  /\ Said(fields[i], a) = Canonical(fields[i], a[fields[i].key])
             /\ Said(fields[i], a) # Null
             /\ Said(fields[i], a) \in CanonicalValues
  <2> DEFINE v == a[fields[i].key]
  <2>1. v \in Json /\ ~Empty(v) /\ Accepts(fields[i], v)
    BY <1>1, InputsAssumption DEF Given, ValidAnswers
  <2> QED  BY <1>1, <2>1, CanonicalTyped, SaidIsCanonical
<1>2. ASSUME NEW i \in DOMAIN fields, ~Given(fields[i], a)
      PROVE  Said(fields[i], a) = Null
  BY <1>2 DEF Said
<1>3. DOMAIN Validated(fields, a) = {i \in DOMAIN fields : Given(fields[i], a)}
  BY DEF Validated
<1>4. \A i \in DOMAIN Validated(fields, a) :
        Validated(fields, a)[i] = Canonical(fields[i], a[fields[i].key])
  BY DEF Validated
<1> QED  BY <1>1, <1>2, <1>3, <1>4

(* Hence two submissions have one hash exactly when they say the same.     *)
LEMMA HashTellsMeaning ==
  ASSUME NEW a \in Requests, NEW b \in Requests,
         ValidAnswers(fields, a), ValidAnswers(fields, b),
         \A i \in DOMAIN fields : fields[i] \in Field
  PROVE  Validated(fields, a) = Validated(fields, b) <=>
           \A i \in DOMAIN fields : Said(fields[i], a) = Said(fields[i], b)
<1> DEFINE va == Validated(fields, a)
           vb == Validated(fields, b)
<1>1. /\ DOMAIN va = {i \in DOMAIN fields : Said(fields[i], a) # Null}
      /\ \A i \in DOMAIN va : va[i] = Said(fields[i], a)
      /\ DOMAIN vb = {i \in DOMAIN fields : Said(fields[i], b) # Null}
      /\ \A i \in DOMAIN vb : vb[i] = Said(fields[i], b)
  BY ValidatedIsSaid
<1>2. va = [i \in DOMAIN va |-> va[i]] /\ vb = [i \in DOMAIN vb |-> vb[i]]
  BY DEF Validated
<1> HIDE DEF va, vb
<1>3. va = vb => \A i \in DOMAIN fields : Said(fields[i], a) = Said(fields[i], b)
  BY <1>1
<1>4. ASSUME \A i \in DOMAIN fields : Said(fields[i], a) = Said(fields[i], b)
      PROVE  va = vb
  <2>1. DOMAIN va = DOMAIN vb
    BY <1>1, <1>4
  <2>2. \A i \in DOMAIN va : va[i] = vb[i]
    BY <1>1, <1>4, <2>1
  <2> QED  BY <1>2, <2>1, <2>2
<1> QED  BY <1>3, <1>4 DEF va, vb

(* The stored fields are equal exactly when the definitions differ in no   *)
(* more than the spelling of their bounds.                                 *)
LEMMA SavedTellsMeaning ==
  ASSUME NEW f \in FieldDto, NEW g \in FieldDto
  PROVE  SavedField(f) = SavedField(g) <=>
           /\ SameBound(f.minValue, g.minValue)
           /\ SameBound(f.maxValue, g.maxValue)
           /\ [f EXCEPT !.minValue = Null, !.maxValue = Null] =
                [g EXCEPT !.minValue = Null, !.maxValue = Null]
<1> DEFINE SameRest ==
      /\ f.key = g.key /\ f.label = g.label /\ f.type = g.type
      /\ f.required = g.required /\ f.maxLength = g.maxLength
      /\ f.options = g.options
<1>1. SavedField(f) = SavedField(g) <=>
        SameRest /\ Bound(f.minValue) = Bound(g.minValue)
                 /\ Bound(f.maxValue) = Bound(g.maxValue)
  BY DEF SavedField
<1>2. [f EXCEPT !.minValue = Null, !.maxValue = Null] =
        [g EXCEPT !.minValue = Null, !.maxValue = Null] <=> SameRest
  BY DEF FieldDto
<1> QED  BY <1>1, <1>2 DEF SameBound

(* An interval from 1 has one length.                                      *)
LEMMA SameInterval ==
  ASSUME NEW m \in Nat, NEW n \in Nat, 1 .. m = 1 .. n PROVE m = n
<1>1. m \in 1 .. m \/ m = 0
  OBVIOUS
<1>2. n \in 1 .. n \/ n = 0
  OBVIOUS
<1>3. (m # 0 => m <= n) /\ (n # 0 => n <= m)
  BY <1>1, <1>2
<1> QED  BY <1>3

(* Two definitions are saved alike exactly when they are the same, but for *)
(* the spelling of bounds.                                                 *)
LEMMA DefinitionTellsMeaning ==
  ASSUME NEW d \in Drafts, NEW e \in Drafts
  PROVE  Normalized(d) = Normalized(e) <=> SameDefinition(d, e)
<1>1. d \in Seq(FieldDto) /\ e \in Seq(FieldDto)
  BY InputsAssumption
<1>2. /\ DOMAIN Normalized(d) = 1 .. Len(d) /\ DOMAIN Normalized(e) = 1 .. Len(e)
      /\ Len(d) \in Nat /\ Len(e) \in Nat /\ DOMAIN d = 1 .. Len(d)
      /\ DOMAIN e = 1 .. Len(e)
  BY <1>1 DEF Normalized
<1>3. /\ \A i \in DOMAIN d : Normalized(d)[i] = SavedField(d[i])
      /\ \A i \in DOMAIN e : Normalized(e)[i] = SavedField(e[i])
  BY DEF Normalized
<1>4. ASSUME Len(d) = Len(e), NEW i \in DOMAIN d
      PROVE  SavedField(d[i]) = SavedField(e[i]) <=>
               /\ SameBound(d[i].minValue, e[i].minValue)
               /\ SameBound(d[i].maxValue, e[i].maxValue)
               /\ [d[i] EXCEPT !.minValue = Null, !.maxValue = Null] =
                    [e[i] EXCEPT !.minValue = Null, !.maxValue = Null]
  <2>1. d[i] \in FieldDto /\ e[i] \in FieldDto
    BY <1>1, <1>2, <1>4
  <2> QED  BY <2>1, SavedTellsMeaning
<1>5. Normalized(d) = Normalized(e) <=>
        /\ Len(d) = Len(e)
        /\ \A i \in DOMAIN d : SavedField(d[i]) = SavedField(e[i])
  <2>1. ASSUME Normalized(d) = Normalized(e) PROVE Len(d) = Len(e)
    BY <1>2, <2>1, SameInterval
  <2>2. ASSUME Len(d) = Len(e), \A i \in DOMAIN d : SavedField(d[i]) = SavedField(e[i])
        PROVE  Normalized(d) = Normalized(e)
    BY <1>2, <2>2 DEF Normalized
  <2> QED  BY <1>2, <1>3, <2>1, <2>2
<1> QED  BY <1>4, <1>5 DEF SameDefinition
-----------------------------------------------------------------------------
(* What the database keeps of the definition and of the first answers.     *)
KeptAsSent ==
  /\ draft = Null => fields = <<>>
  /\ draft # Null => draft \in Drafts /\ fields = Normalized(draft)
  /\ sent # Null => hash = Validated(fields, sent)

MeaningInv == Consistency /\ KeptAsSent /\ RetriesByMeaning

(* The same definition is found saved whenever it is sent again, a changed *)
(* one is refused.                                                         *)
LEMMA DefinitionStep ==
  ASSUME MeaningInv, NEW d \in Drafts, PutVersion(d)
  PROVE  KeptAsSent' /\ RetriesByMeaning'
<1>1. UNCHANGED <<sent, hash, answers>> /\ last' = [draft |-> d]
  BY DEF PutVersion
<1>2. "draft" \in DOMAIN last' /\ last'.draft = d
  BY <1>1
<1>3. SUFFICES /\ KeptAsSent'
               /\ reply' \in {200, 409} =>
                    (reply' = 200 <=> SameDefinition(d, draft'))
  BY <1>1, <1>2 DEF RetriesByMeaning
<1>4. CASE ~ValidDefinition(d)
  <2>1. reply' = 400 /\ UNCHANGED <<draft, fields>>
    BY <1>4 DEF PutVersion
  <2> QED  BY <1>1, <2>1 DEF MeaningInv, KeptAsSent
<1>5. CASE ValidDefinition(d) /\ draft # Null
  <2>1. /\ reply' = IF Normalized(d) = fields THEN 200 ELSE 409
        /\ UNCHANGED <<draft, fields>>
    BY <1>5 DEF PutVersion
  <2>2. draft \in Drafts /\ fields = Normalized(draft)
    BY <1>5 DEF MeaningInv, KeptAsSent
  <2>3. KeptAsSent'
    BY <1>1, <2>1 DEF MeaningInv, KeptAsSent
  <2> QED  BY <2>1, <2>2, <2>3, DefinitionTellsMeaning
<1>6. CASE ValidDefinition(d) /\ draft = Null
  <2>1. sent' = Null
    BY <1>1, <1>6 DEF MeaningInv, Consistency
  <2>2. SameDefinition(d, d)
    BY DefinitionTellsMeaning
  <2>3. CASE reply' = 200 /\ draft' = d /\ fields' = Normalized(d)
    BY <2>1, <2>2, <2>3, NullAssumption DEF KeptAsSent
  <2>4. CASE reply' = 500 /\ UNCHANGED <<draft, fields>>
    BY <1>6, <2>1, <2>4 DEF MeaningInv, KeptAsSent
  <2> QED  BY <1>6, <2>3, <2>4, FirstDefinition
<1> QED  BY <1>4, <1>5, <1>6

(* An answer object that says the same gets the receipt again.             *)
LEMMA AnswerStep ==
  ASSUME MeaningInv, NEW a \in Requests, Submit(a)
  PROVE  KeptAsSent' /\ RetriesByMeaning'
<1>1. UNCHANGED <<draft, fields>> /\ last' = [answers |-> a]
  BY DEF Submit
<1>2. "answers" \in DOMAIN last' /\ last'.answers = a
  BY <1>1
<1>3. SUFFICES /\ KeptAsSent'
               /\ reply' \in {200, 409} =>
                    (reply' = 200 <=>
                       \A i \in DOMAIN fields :
                         Said(fields[i], a) = Said(fields[i], sent'))
  BY <1>1, <1>2 DEF RetriesByMeaning
<1>4. CASE draft = Null \/ ~ValidAnswers(fields, a)
  <2>1. reply' \in {400, 404} /\ UNCHANGED <<sent, hash>>
    BY <1>4 DEF Submit
  <2> QED  BY <1>1, <2>1 DEF MeaningInv, KeptAsSent
<1>5. CASE draft # Null /\ ValidAnswers(fields, a) /\ sent # Null
  <2>1. /\ reply' = IF Validated(fields, a) = hash THEN 200 ELSE 409
        /\ UNCHANGED <<sent, hash>>
    BY <1>5 DEF Submit
  <2>2. /\ sent \in Requests /\ ValidAnswers(fields, sent)
        /\ \A i \in DOMAIN fields : fields[i] \in Field
        /\ hash = Validated(fields, sent)
    BY <1>5 DEF MeaningInv, Consistency, KeptAsSent
  <2>3. KeptAsSent'
    BY <1>1, <2>1 DEF MeaningInv, KeptAsSent
  <2> QED  BY <1>5, <2>1, <2>2, <2>3, HashTellsMeaning
<1>6. CASE draft # Null /\ ValidAnswers(fields, a) /\ sent = Null
  <2>1. SchemaTakesAnswers(fields, RowsOf(Validated(fields, a)))
    BY <1>6, SubmissionsAgree DEF MeaningInv, Consistency
  <2>2. reply' = 200 /\ sent' = a /\ hash' = Validated(fields, a)
    BY <1>6, <2>1 DEF Submit
  <2> QED  BY <1>1, <2>2 DEF MeaningInv, KeptAsSent
<1> QED  BY <1>4, <1>5, <1>6

LEMMA MeaningStep == MeaningInv /\ [Next]_vars => MeaningInv'
<1> SUFFICES ASSUME MeaningInv, [Next]_vars PROVE MeaningInv'
  OBVIOUS
<1>1. Consistency'
  BY ConsistencyStep DEF MeaningInv
<1>2. CASE UNCHANGED vars
  <2>1. KeptAsSent' /\ RetriesByMeaning'
    BY <1>2 DEF MeaningInv, KeptAsSent, RetriesByMeaning, vars
  <2> QED  BY <1>1, <2>1 DEF MeaningInv
<1>3. CASE Next
  BY <1>1, <1>3, DefinitionStep, AnswerStep DEF Next, MeaningInv
<1> QED  BY <1>2, <1>3

LEMMA MeaningHolds == Spec => []MeaningInv
<1>1. Init => MeaningInv
  BY DEF Init, MeaningInv, Consistency, OnlyLongLabelsFail, KeptAsSent,
         RetriesByMeaning
<1> QED  BY <1>1, MeaningStep, PTL DEF Spec

(* For every definition and all answers, a retry is told from a conflict   *)
(* by its meaning, never by spelling or order: the canonical forms that    *)
(* definitionHash and requestHash cover have one value for each meaning.   *)
THEOREM RetriesAreToldByMeaning == Spec => []RetriesByMeaning
BY MeaningHolds, PTL DEF MeaningInv
-----------------------------------------------------------------------------
(* The type invariant.                                                     *)

(* A row has the type of its field and values in canonical form.           *)
LEMMA RowTyped ==
  ASSUME NEW f \in Field, NEW v \in Json, ~Empty(v), Accepts(f, v),
         NEW r, r = AnswerRow(f, Canonical(f, v))
  PROVE  /\ r.type = f.type /\ r.selections \subseteq Strings
         /\ \A k \in ColumnNames : r.value[k] \in CanonicalValues \cup {Null}
<1> DEFINE c == Canonical(f, v)
<1>1. c \in CanonicalValues
  BY CanonicalTyped
<1>2. f.type = "MULTI_SELECT" => c.selected \subseteq Strings
  <2>1. SUFFICES ASSUME f.type = "MULTI_SELECT" PROVE c.selected \subseteq Strings
    OBVIOUS
  <2>2. ChoicesFit(f, v) /\ v.array \in Seq(Scalars)
    BY <2>1, TypeofTells DEF Accepts, TextTypes, ChoicesFit
  <2>3. ASSUME NEW i \in DOMAIN v.array PROVE v.array[i].string \in Strings
    BY <2>2, <2>3 DEF ChoicesFit, IsOption, Is, Scalars
  <2> QED  BY <2>1, <2>3 DEF Canonical
<1>3. Stored(f, c) = c
  <2>1. CASE f.type = "DATE"
    <3>1. DateFits(v) /\ v \in [string : Strings] /\ c = v
      BY <2>1, TypeofTells DEF Accepts, TextTypes, DateFits, Canonical
    <3> QED  BY <2>1, <3>1 DEF Stored, DateFits
  <2> QED  BY <2>1 DEF Stored
<1>4. /\ r.type = f.type
      /\ r.selections = IF f.type = "MULTI_SELECT" THEN c.selected ELSE {}
      /\ \A k \in ColumnNames : r.value[k] \in {Stored(f, c), Null}
  BY DEF AnswerRow
<1> QED  BY <1>1, <1>2, <1>3, <1>4

(* The rows of a submission and what its hash covers are typed.            *)
LEMMA SubmissionTyped ==
  ASSUME NEW a \in Requests, ValidAnswers(fields, a),
         \A i \in DOMAIN fields : fields[i] \in Field,
         NEW kept, kept = RowsOf(Validated(fields, a))
  PROVE  /\ DOMAIN Validated(fields, a) = DOMAIN kept
         /\ \A i \in DOMAIN kept :
              /\ i \in DOMAIN fields /\ kept[i].type = fields[i].type
              /\ kept[i].selections \subseteq Strings
              /\ \A k \in ColumnNames :
                   kept[i].value[k] \in CanonicalValues \cup {Null}
<1>1. DOMAIN kept = {i \in DOMAIN fields : Given(fields[i], a)}
  BY DEF RowsOf, Validated
<1>2. DOMAIN Validated(fields, a) = DOMAIN kept
  BY <1>1 DEF Validated
<1>3. ASSUME NEW i \in DOMAIN kept
      PROVE  /\ i \in DOMAIN fields /\ kept[i].type = fields[i].type
             /\ kept[i].selections \subseteq Strings
             /\ \A k \in ColumnNames :
                  kept[i].value[k] \in CanonicalValues \cup {Null}
  <2> DEFINE f == fields[i]
             v == a[f.key]
  <2>1. i \in DOMAIN fields /\ f \in Field /\ Given(f, a)
    BY <1>1
  <2>2. v \in Json /\ ~Empty(v) /\ Accepts(f, v)
    BY <2>1, InputsAssumption DEF Given, ValidAnswers
  <2>3. kept[i] = AnswerRow(f, Canonical(f, v))
    BY <2>1 DEF RowsOf, Validated
  <2> QED  BY <2>1, <2>2, <2>3, RowTyped
<1> QED  BY <1>2, <1>3

LEMMA FunctionIsSequence ==
  ASSUME NEW S, NEW n \in Nat, NEW s \in [1 .. n -> S] PROVE s \in Seq(S)
OBVIOUS

LEMMA NormalizedTyped ==
  ASSUME NEW d \in Drafts, ValidDefinition(d) PROVE Normalized(d) \in Seq(Field)
<1>1. d \in Seq(FieldDto)
  BY InputsAssumption
<1>2. PICK n \in Nat : n = Len(d) /\ DOMAIN d = 1 .. n
  BY <1>1
<1>3. DOMAIN Normalized(d) = 1 .. n
  BY <1>2 DEF Normalized
<1>4. Normalized(d) \in [1 .. n -> Field]
  <2>1. Normalized(d) = [i \in 1 .. n |-> SavedField(d[i])]
    BY <1>2 DEF Normalized
  <2>2. \A i \in 1 .. n : SavedField(d[i]) \in Field
    BY <1>3, <2>1, DefinitionsAgree
  <2> QED  BY <2>1, <2>2
<1> QED  BY <1>4, FunctionIsSequence

TypeInv == MeaningInv /\ TypeOK

LEMMA TypeStep == TypeInv /\ [Next]_vars => TypeOK'
<1> SUFFICES ASSUME TypeInv, [Next]_vars PROVE TypeOK'
  OBVIOUS
<1> USE DEF TypeInv, TypeOK
<1>1. ASSUME NEW d \in Drafts, PutVersion(d) PROVE TypeOK'
  <2>1. UNCHANGED <<sent, hash, answers>> /\ last' = [draft |-> d]
    BY <1>1 DEF PutVersion
  <2>2. last' \in [draft : Drafts]
    BY <2>1
  <2>3. CASE UNCHANGED <<draft, fields>>
    <3>1. reply' \in {200, 400, 404, 409, 500}
      BY <1>1 DEF PutVersion
    <3> QED  BY <2>1, <2>2, <2>3, <3>1
  <2>4. CASE /\ ValidDefinition(d) /\ draft = Null
             /\ reply' = 200 /\ draft' = d /\ fields' = Normalized(d)
    <3>1. Normalized(d) \in Seq(Field)
      BY <1>1, <2>4, NormalizedTyped
    <3>2. sent = Null /\ fields = <<>>
      BY <2>4 DEF MeaningInv, Consistency, KeptAsSent
    <3>3. sent' = Null
      BY <2>1, <3>2
    <3>4. DOMAIN answers = {}
      <4>1. DOMAIN fields = {}
        BY <3>2
      <4> QED  BY <4>1
    <3> QED  BY <1>1, <2>1, <2>2, <2>4, <3>1, <3>3, <3>4
  <2>5. UNCHANGED <<draft, fields>> \/ (ValidDefinition(d) /\ draft = Null)
    BY <1>1 DEF PutVersion
  <2> QED  BY <1>1, <2>3, <2>4, <2>5, FirstDefinition
<1>2. ASSUME NEW a \in Requests, Submit(a) PROVE TypeOK'
  <2>1. UNCHANGED <<draft, fields>> /\ last' = [answers |-> a]
    BY <1>2 DEF Submit
  <2>2. last' \in [answers : Requests]
    BY <2>1
  <2>3. CASE UNCHANGED <<sent, hash, answers>>
    <3>1. reply' \in {200, 400, 404, 409, 500}
      BY <1>2 DEF Submit
    <3> QED  BY <2>1, <2>2, <2>3, <3>1
  <2>4. CASE draft # Null /\ ValidAnswers(fields, a) /\ sent = Null
    <3> DEFINE kept == RowsOf(Validated(fields, a))
    <3>1. SchemaTakesAnswers(fields, kept)
      BY <2>4, SubmissionsAgree DEF MeaningInv, Consistency
    <3>2. /\ reply' = 200 /\ sent' = a /\ answers' = kept
          /\ hash' = Validated(fields, a)
      BY <1>2, <2>4, <3>1 DEF Submit
    <3>3. \A i \in DOMAIN fields : fields[i] \in Field
      BY <2>4 DEF MeaningInv, Consistency
    <3>4. \A i \in DOMAIN hash' : hash'[i] \in CanonicalValues
      BY <2>4, <3>2, <3>3, ValidatedIsSaid
    <3>5. /\ DOMAIN hash' = DOMAIN answers'
          /\ \A i \in DOMAIN answers' :
               /\ i \in DOMAIN fields /\ answers'[i].type = fields[i].type
               /\ answers'[i].selections \subseteq Strings
               /\ \A k \in ColumnNames :
                    answers'[i].value[k] \in CanonicalValues \cup {Null}
      BY <2>4, <3>2, <3>3, SubmissionTyped
    <3> QED  BY <2>1, <2>2, <3>2, <3>4, <3>5
  <2> QED  BY <1>2, <2>3, <2>4 DEF Submit
<1>3. CASE UNCHANGED vars
  BY <1>3 DEF vars
<1> QED  BY <1>1, <1>2, <1>3 DEF Next

(* Definitions, rows, hashes and replies stay well-typed: what is stored   *)
(* is in canonical form, and each row has the type of its field.           *)
THEOREM TypesHold == Spec => []TypeOK
<1>1. Init => TypeOK
  BY DEF Init, TypeOK
<1>2. MeaningInv /\ TypeOK /\ [Next]_vars => TypeOK'
  BY TypeStep DEF TypeInv
<1> QED  BY <1>1, <1>2, MeaningHolds, PTL DEF Spec

-----------------------------------------------------------------------------
(* What the website lets visitors enter is what the service accepts.       *)

DistinctOptions(f) ==
  /\ f.options \in Seq(Option)
  /\ \A i, j \in DOMAIN f.options : f.options[i].key = f.options[j].key => i = j

(* The options of a field that are among the given keys, each once.        *)
LEMMA ChoicesOnce ==
  ASSUME NEW f, DistinctOptions(f), NEW keys, NEW s, s = InOptionOrder(f, keys)
  PROVE  /\ s \in Seq(OptionKeys(f)) /\ Len(s) <= Len(f.options)
         /\ \A m, n \in DOMAIN s : s[m] = s[n] => m = n
         /\ \A k \in OptionKeys(f) : k \in keys <=> \E n \in DOMAIN s : s[n] = k
<1>0. /\ f.options \in Seq(Option)
      /\ \A i, j \in DOMAIN f.options : f.options[i].key = f.options[j].key => i = j
  BY DEF DistinctOptions
<1> DEFINE P == Positions(f, keys)
           R == {p \in Nat \X Nat : p[1] < p[2]}
           c == Ascending(P)
<1>1. PICK N \in Nat : N = Len(f.options) /\ DOMAIN f.options = 1 .. N
  BY <1>0
<1>2. P \subseteq 1 .. N
  BY <1>1 DEF Positions
<1>3. IsFiniteSet(P) /\ Cardinality(P) \in Nat /\ Cardinality(P) <= N
  <2> HIDE DEF P
  <2>1. IsFiniteSet(1 .. N) /\ Cardinality(1 .. N) = N
    <3>1. 1 \in Int /\ N \in Int /\ (1 > N => N = 0)
      BY <1>1
    <3> QED  BY <3>1, FS_Interval
  <2>2. P \in SUBSET (1 .. N)
    BY <1>2
  <2>3. IsFiniteSet(P) /\ Cardinality(P) <= Cardinality(1 .. N)
    BY <2>1, <2>2, FS_Subset
  <2> QED  BY <2>1, <2>3, FS_CardinalityType
<1>4. \A i, j \in P : <<i, j>> \in R <=> i < j
  BY <1>2
<1> HIDE DEF R
<1>5. Orders(R, P)
  BY <1>2, <1>4 DEF Orders
<1>6. \A t : Lists(t, R, P) <=>
         t \in [1 .. Cardinality(P) -> P] /\ \A m, n \in DOMAIN t : m < n => t[m] < t[n]
  BY <1>4 DEF Lists
<1> HIDE DEF P
<1>7. Lists(c, R, P)
  <2>1. \E t : Lists(t, R, P)
    BY <1>3, <1>5, OrdersList
  <2> QED  BY <1>6, <2>1 DEF Ascending
<1> HIDE DEF c
<1>8. /\ c \in Seq(P) /\ Len(c) = Cardinality(P)
      /\ \A m, n \in 1 .. Len(c) : c[m] = c[n] => m = n
      /\ \A i \in P : \E n \in 1 .. Len(c) : c[n] = i
  BY <1>3, <1>5, <1>7, ListingIsOnto
<1>9. DOMAIN c = 1 .. Len(c) /\ \A n \in DOMAIN c : c[n] \in P
  BY <1>8
<1>10. s = [n \in DOMAIN c |-> f.options[c[n]].key]
  BY DEF InOptionOrder, c, P
<1>11. \A i \in P : i \in DOMAIN f.options /\ f.options[i].key \in OptionKeys(f) \cap keys
  BY DEF P, Positions, OptionKeys
<1>12. s \in Seq(OptionKeys(f) \cap keys) /\ Len(s) = Len(c) /\ DOMAIN s = DOMAIN c
  <2>1. s \in [1 .. Len(c) -> OptionKeys(f) \cap keys]
    BY <1>9, <1>10, <1>11
  <2>2. Len(c) \in Nat
    BY <1>8
  <2> QED  BY <1>9, <2>1, <2>2
<1>13. \A m, n \in DOMAIN s : s[m] = s[n] => m = n
  <2> TAKE m, n \in DOMAIN s
  <2>1. m \in DOMAIN c /\ n \in DOMAIN c /\ c[m] \in P /\ c[n] \in P
    BY <1>9, <1>12
  <2>2. s[m] = f.options[c[m]].key /\ s[n] = f.options[c[n]].key
    BY <1>10, <2>1
  <2> QED  BY <1>0, <1>8, <1>9, <1>11, <2>1, <2>2
<1>14. ASSUME NEW k \in OptionKeys(f)
       PROVE  k \in keys <=> \E n \in DOMAIN s : s[n] = k
  <2>1. ASSUME k \in keys PROVE \E n \in DOMAIN s : s[n] = k
    <3>1. PICK i \in DOMAIN f.options : f.options[i].key = k
      BY DEF OptionKeys
    <3>2. i \in P
      BY <2>1, <3>1 DEF P, Positions
    <3>3. PICK n \in DOMAIN c : c[n] = i
      BY <1>8, <1>9, <3>2
    <3> QED  BY <1>10, <1>12, <3>1, <3>3
  <2>2. \A n \in DOMAIN s : s[n] \in keys
    BY <1>9, <1>10, <1>11, <1>12
  <2> QED  BY <2>1, <2>2
<1>15. s \in Seq(OptionKeys(f))
  BY <1>12
<1> QED  BY <1>1, <1>3, <1>8, <1>12, <1>13, <1>14, <1>15

(* A field is answerable if everything its control can hold is empty or    *)
(* accepted, and something is accepted; nothing entered is no answer.      *)
LEMMA EntriesDecide ==
  ASSUME NEW f,
         f.type \notin {"EMAIL", "DECIMAL"} => \A e \in Filled(f) :
           Empty(Collected(f, e)) \/ Accepts(f, Collected(f, e)),
         f.type \notin TextTypes \cup {"DECIMAL"} =>
           \A e \in Filled(f) \ {Untouched(f)} : ~Empty(Collected(f, e)),
         f.type # "EMAIL" => \E e \in Filled(f) :
           ~Empty(Collected(f, e)) /\ Accepts(f, Collected(f, e))
  PROVE  Answerable(f)
<1>1. Empty(Collected(f, Untouched(f)))
  BY DEF Untouched, Collected, Empty
<1>2. Entries(f) \subseteq Filled(f) \cup {Untouched(f)}
  BY DEF Entries
<1>3. Filled(f) \ {Untouched(f)} \subseteq Entries(f)
  BY DEF Entries
<1>4. f.required => Entries(f) = Filled(f) \ {Untouched(f)}
  BY DEF Entries
<1>5. f.type # "EMAIL" => \E e \in Entries(f) :
        ~Empty(Collected(f, e)) /\ Accepts(f, Collected(f, e))
  BY <1>1, <1>3
<1> QED  BY <1>1, <1>2, <1>4, <1>5 DEF Answerable

SavedFrom(d, f) ==
  d \in FieldDto /\ WellFormed(d) /\ Consistent(d) /\ f = SavedField(d)

(* What a saved field inherits from the draft, and no key is blank.        *)
LEMMA SavedFacts ==
  ASSUME NEW d, NEW f, SavedFrom(d, f)
  PROVE  /\ f \in Field /\ f.type \in FieldTypes /\ f.options \in Seq(Option)
         /\ f.type = d.type /\ f.options = d.options /\ f.maxLength = d.maxLength
         /\ f.minValue = Bound(d.minValue) /\ f.maxValue = Bound(d.maxValue)
         /\ f.type \in ChoiceTypes <=> f.options # <<>>
         /\ \A i, j \in DOMAIN f.options : f.options[i].key = f.options[j].key => i = j
         /\ OptionKeys(f) \subseteq Strings \ Blank
         /\ MaxLengthOf(f) \in Nat /\ 1 <= MaxLengthOf(f)
         /\ f.type \notin TextTypes => MaxLengthOf(f) = MaxText
<1> USE DEF SavedFrom
<1>1. /\ f.type = d.type /\ f.options = d.options /\ f.maxLength = d.maxLength
      /\ f.minValue = Bound(d.minValue) /\ f.maxValue = Bound(d.maxValue)
      /\ f.key = d.key /\ f.label = d.label /\ f.required = d.required
  BY DEF SavedField
<1>2. Bound(d.minValue) \in Int \cup {Null} /\ Bound(d.maxValue) \in Int \cup {Null}
  BY StringsAssumption DEF WellFormed, IsDecimal, Bound
<1>3. f \in Field /\ f.type \in FieldTypes /\ f.options \in Seq(Option)
  BY <1>1, <1>2 DEF SavedField, FieldDto, Field
<1>4. OptionKeys(f) \subseteq Strings \ Blank
  <2>1. OptionKeys(f) \subseteq SafeKeys
    BY <1>1 DEF WellFormed, OptionKeys
  <2> QED  BY <2>1, StringsAssumption, WordsAssumption
<1>5. /\ f.type \in ChoiceTypes <=> f.options # <<>>
      /\ \A i, j \in DOMAIN f.options : f.options[i].key = f.options[j].key => i = j
      /\ f.maxLength # Null => f.type \in TextTypes
  BY <1>1 DEF Consistent
<1>6. f.maxLength # Null => f.maxLength \in 1 .. MaxText
  BY <1>1 DEF WellFormed
<1>7. MaxLengthOf(f) \in Nat /\ 1 <= MaxLengthOf(f)
  <2>1. MaxText \in Nat /\ 1 <= MaxText
    BY NumbersAssumption, WordsAssumption
  <2> QED  BY <1>6, <2>1 DEF MaxLengthOf
<1>8. f.type \notin TextTypes => MaxLengthOf(f) = MaxText
  BY <1>5 DEF MaxLengthOf
<1> QED  BY <1>1, <1>3, <1>4, <1>5, <1>7, <1>8

(* Words, numbers, truth values and choices that are answers.              *)
LEMMA WordGiven ==
  ASSUME NEW s \in Strings \ Blank, NEW v, v = [string |-> s]
  PROVE  Is(v, "string") /\ v.string = s /\ ~Empty(v)
<1>1. v # Null
  <2>1. v \in Scalars
    BY DEF Scalars
  <2> QED  BY <2>1, NullAssumption DEF CanonicalValues
<1>2. DOMAIN v = {"string"} /\ v.string = s
  OBVIOUS
<1> QED  BY <1>1, <1>2 DEF Is, Empty

LEMMA ScalarGiven ==
  ASSUME NEW v \in [number : Int] \cup [boolean : BOOLEAN]
  PROVE  /\ ~Empty(v)
         /\ v \in [number : Int] => Is(v, "number")
         /\ v \in [boolean : BOOLEAN] => Is(v, "boolean")
<1>1. v # Null
  BY NullAssumption DEF CanonicalValues, Scalars
<1>2. DOMAIN v \in {{"number"}, {"boolean"}}
  OBVIOUS
<1> QED  BY <1>1, <1>2 DEF Is, Empty

(* Text that is no e-mail address: what fits the control fits the rules,   *)
(* and a word of one letter fits every limit.                              *)
LEMMA TextAnswerable ==
  ASSUME NEW d, NEW f, SavedFrom(d, f), f.type \in TextTypes PROVE Answerable(f)
<1>1. Filled(f) = {<<s>> : s \in {t \in Strings \ WithNul : Length[t] <= MaxLengthOf(f)}}
  BY DEF Filled, TextTypes
<1>2. \A s : Collected(f, <<s>>) = IF s = "" THEN Null ELSE [string |-> s]
  BY DEF Collected, TextTypes
<1>3. ASSUME NEW s \in Strings \ WithNul, Length[s] <= MaxLengthOf(f), s # "",
             f.type # "EMAIL"
      PROVE  Accepts(f, Collected(f, <<s>>))
  <2> DEFINE v == [string |-> s]
  <2>1. Is(v, "string") /\ v.string = s
    BY NullAssumption DEF Is, CanonicalValues, Scalars
  <2>2. TextFits(f, v)
    BY <1>3, <2>1 DEF TextFits
  <2> QED  BY <1>2, <1>3, <2>2 DEF Accepts
<1>4. PICK s \in Strings \ (Blank \cup WithNul) : Length[s] = 1
  BY WordsAssumption
<1>5. <<s>> \in Filled(f) /\ s # ""
  BY <1>1, <1>4, SavedFacts, WordsAssumption
<1>6. ~Empty(Collected(f, <<s>>))
  BY <1>2, <1>4, <1>5, WordGiven
<1>7. Empty(Null)
  BY DEF Empty
<1>8. ASSUME f.type # "EMAIL", NEW e \in Filled(f)
      PROVE  Empty(Collected(f, e)) \/ Accepts(f, Collected(f, e))
  <2>1. PICK t \in Strings \ WithNul : e = <<t>> /\ Length[t] <= MaxLengthOf(f)
    BY <1>1
  <2> QED  BY <1>2, <1>3, <1>7, <1>8, <2>1
<1>9. f.type # "EMAIL" => Accepts(f, Collected(f, <<s>>))
  <2>1. Length[s] <= MaxLengthOf(f)
    BY <1>4, SavedFacts
  <2> QED  BY <1>3, <1>4, <1>5, <2>1
<1> QED  BY <1>5, <1>6, <1>8, <1>9, EntriesDecide

(* A number that is whole steps away from a multiple of the unit is one.   *)
LEMMA Multiples ==
  ASSUME NEW u \in Nat \ {0}, NEW k \in Int PROVE (u * k) % u = 0
OBVIOUS

LEMMA Divides ==
  ASSUME NEW u \in Nat \ {0}, NEW a \in Int, a % u = 0
  PROVE  \E k \in Int : a = u * k
<1>1. a = u * (a \div u) + (a % u) /\ a \div u \in Int
  OBVIOUS
<1>2. u * (a \div u) \in Int
  BY <1>1
<1> QED  BY <1>1, <1>2

LEMMA WholeSteps ==
  ASSUME NEW a \in Int, NEW b \in Int, IsInteger(b)
  PROVE  IsInteger(a) <=> (a - b) % Unit = 0
<1>1. Unit \in Nat \ {0}
  BY NumbersAssumption
<1>2. PICK k \in Int : b = Unit * k
  BY <1>1, Divides DEF IsInteger
<1>3. ASSUME IsInteger(a) PROVE (a - b) % Unit = 0
  <2>1. PICK j \in Int : a = Unit * j
    BY <1>1, <1>3, Divides DEF IsInteger
  <2>2. a - b = Unit * (j - k) /\ j - k \in Int
    BY <1>1, <1>2, <2>1
  <2> QED  BY <1>1, <2>2, Multiples
<1>4. ASSUME (a - b) % Unit = 0 PROVE IsInteger(a)
  <2>1. PICK j \in Int : a - b = Unit * j
    BY <1>1, <1>4, Divides
  <2>2. a = Unit * (j + k) /\ j + k \in Int
    BY <1>1, <1>2, <2>1
  <2> QED  BY <1>1, <2>2, Multiples DEF IsInteger
<1> QED  BY <1>3, <1>4

(* The bounds of an INTEGER field are 32-bit integers in order, each the   *)
(* value of a spelling, so that the spinner reaches one of them, or zero.  *)
LEMMA IntegerAnswerable ==
  ASSUME NEW d, NEW f, SavedFrom(d, f), f.type = "INTEGER" PROVE Answerable(f)
<1> DEFINE least == IF f.minValue = Null THEN MinInteger ELSE f.minValue
           greatest == IF f.maxValue = Null THEN MaxInteger ELSE f.maxValue
<1>1. /\ \A s \in DOMAIN Number : Number[s] \in Int /\ s \in Strings \ Blank
      /\ MinInteger \in Int /\ MaxInteger \in Int /\ "" \in Blank
      /\ IsInteger(MinInteger) /\ MinInteger <= 0 /\ 0 <= MaxInteger
  BY StringsAssumption, NumbersAssumption, WordsAssumption
<1>2. /\ d.type = "INTEGER" /\ BoundsFit(d) /\ WellFormed(d)
      /\ f.minValue = Bound(d.minValue) /\ f.maxValue = Bound(d.maxValue)
  BY SavedFacts DEF SavedFrom, Consistent
<1>3. /\ f.minValue # Null =>
           /\ d.minValue \in DOMAIN Number /\ f.minValue = Number[d.minValue]
           /\ d.minValue # Null /\ Fits32Bits(f.minValue)
      /\ f.maxValue # Null =>
           /\ d.maxValue \in DOMAIN Number /\ f.maxValue = Number[d.maxValue]
           /\ d.maxValue # Null /\ Fits32Bits(f.maxValue)
  <2>1. \A n \in Bounds(d) : Fits32Bits(n)
    BY <1>2 DEF BoundsFit
  <2>2. /\ d.minValue # Null => Number[d.minValue] \in Bounds(d)
        /\ d.maxValue # Null => Number[d.maxValue] \in Bounds(d)
    BY DEF Bounds
  <2> QED  BY <1>2, <2>1, <2>2 DEF Bound, WellFormed, IsDecimal
<1>4. f.minValue # Null /\ f.maxValue # Null => f.minValue <= f.maxValue
  BY <1>2, <1>3 DEF BoundsFit
<1>5. /\ least \in Int /\ greatest \in Int /\ least <= greatest
      /\ MinInteger <= least /\ greatest <= MaxInteger
  <2>1. \A n : Fits32Bits(n) => MinInteger <= n /\ n <= MaxInteger
    BY DEF Fits32Bits
  <2>2. /\ f.minValue # Null =>
             f.minValue \in Int /\ MinInteger <= f.minValue /\ f.minValue <= MaxInteger
        /\ f.maxValue # Null =>
             f.maxValue \in Int /\ MinInteger <= f.maxValue /\ f.maxValue <= MaxInteger
    BY <1>1, <1>3, <2>1
  <2>3. MinInteger \in Int /\ MaxInteger \in Int /\ MinInteger <= 0 /\ 0 <= MaxInteger
    BY <1>1
  <2> QED  BY <1>4, <2>2, <2>3
<1>6. IsInteger(least)
  BY <1>1, <1>3 DEF Fits32Bits
<1>7. \A s : s \in Spinnable(f) <=>
         /\ s \in DOMAIN Number /\ least <= Number[s] /\ Number[s] <= greatest
         /\ IsInteger(Number[s])
  <2>1. \A s \in DOMAIN Number : IsInteger(Number[s]) <=> (Number[s] - least) % Unit = 0
    <3> HIDE DEF least
    <3> QED  BY <1>1, <1>5, <1>6, WholeSteps
  <2> QED  BY <2>1 DEF Spinnable
<1> HIDE DEF least, greatest
<1>8. Filled(f) = {<<s>> : s \in Spinnable(f)}
  BY DEF Filled
<1>9. ASSUME NEW s \in Spinnable(f)
      PROVE  /\ ~Empty(Collected(f, <<s>>)) /\ Accepts(f, Collected(f, <<s>>))
  <2> DEFINE v == [number |-> Number[s]]
  <2>1. s \in DOMAIN Number /\ Number[s] \in Int /\ s # ""
    BY <1>1, <1>7, <1>9
  <2>2. Collected(f, <<s>>) = v
    BY <2>1 DEF Collected
  <2>3. v \in [number : Int] /\ v.number = Number[s]
    BY <2>1
  <2>4. Fits32Bits(Number[s])
    <3>1. least <= Number[s] /\ Number[s] <= greatest
      BY <1>7, <1>9
    <3>2. MinInteger \in Int /\ MaxInteger \in Int /\ Number[s] \in Int
      BY <1>1, <2>1
    <3>3. MinInteger <= Number[s] /\ Number[s] <= MaxInteger
      BY <1>5, <3>1, <3>2
    <3> QED  BY <1>7, <1>9, <3>3 DEF Fits32Bits
  <2>5. InBounds(f, Number[s])
    BY <1>7, <1>9 DEF InBounds, least, greatest
  <2>6. IntegerFits(f, v)
    BY <2>3, <2>4, <2>5, ScalarGiven DEF IntegerFits
  <2> QED  BY <2>2, <2>3, <2>6, ScalarGiven DEF Accepts
<1>10. \E s : s \in Spinnable(f)
  <2>1. CASE f.minValue # Null
    <3>1. least = f.minValue
      BY <2>1 DEF least
    <3>2. d.minValue \in DOMAIN Number /\ Number[d.minValue] = least
      BY <1>3, <2>1, <3>1
    <3> QED  BY <1>5, <1>6, <1>7, <3>2
  <2>2. CASE f.minValue = Null /\ f.maxValue # Null
    <3>1. greatest = f.maxValue
      BY <2>2 DEF greatest
    <3>2. d.maxValue \in DOMAIN Number /\ Number[d.maxValue] = greatest
      BY <1>3, <2>2, <3>1
    <3>3. IsInteger(greatest)
      BY <1>3, <2>2, <3>1 DEF Fits32Bits
    <3> QED  BY <1>5, <1>7, <3>2, <3>3
  <2>3. CASE f.minValue = Null /\ f.maxValue = Null
    <3>1. least = MinInteger /\ greatest = MaxInteger
      BY <2>3 DEF least, greatest
    <3>2. PICK s \in DOMAIN Number : Number[s] = 0
      BY WordsAssumption
    <3>3. IsInteger(0)
      BY NumbersAssumption DEF IsInteger
    <3> QED  BY <1>1, <1>7, <3>1, <3>2, <3>3
  <2> QED  BY <2>1, <2>2, <2>3
<1> QED  BY <1>8, <1>9, <1>10, EntriesDecide

(* A bound of a DECIMAL field, or zero, is an answer to it.                *)
LEMMA DecimalAnswerable ==
  ASSUME NEW d, NEW f, SavedFrom(d, f), f.type = "DECIMAL" PROVE Answerable(f)
<1>1. \A s \in DOMAIN Number : Number[s] \in Int /\ s \in Strings \ Blank /\ s # ""
  BY StringsAssumption, WordsAssumption
<1>2. /\ d.type = "DECIMAL" /\ BoundsFit(d) /\ WellFormed(d)
      /\ f.minValue = Bound(d.minValue) /\ f.maxValue = Bound(d.maxValue)
  BY SavedFacts DEF SavedFrom, Consistent
<1>3. /\ d.minValue = Null => f.minValue = Null
      /\ d.minValue # Null => IsDecimal(d.minValue) /\ f.minValue = Number[d.minValue]
      /\ d.maxValue = Null => f.maxValue = Null
      /\ d.maxValue # Null => IsDecimal(d.maxValue) /\ f.maxValue = Number[d.maxValue]
  BY <1>2 DEF WellFormed, Bound
<1>4. /\ \A s : IsDecimal(s) => s \in DOMAIN Number
      /\ d.minValue # Null /\ d.maxValue # Null => Number[d.minValue] <= Number[d.maxValue]
  BY <1>2 DEF BoundsFit, IsDecimal
<1>5. \E s : IsDecimal(s) /\ InBounds(f, Number[s])
  <2>1. CASE d.minValue # Null
    <3>1. d.minValue \in DOMAIN Number /\ Number[d.minValue] \in Int
      BY <1>1, <1>3, <1>4, <2>1
    <3>2. InBounds(f, Number[d.minValue])
      BY <1>3, <1>4, <2>1, <3>1 DEF InBounds
    <3> QED  BY <1>3, <2>1, <3>2
  <2>2. CASE d.minValue = Null /\ d.maxValue # Null
    <3>1. d.maxValue \in DOMAIN Number /\ Number[d.maxValue] \in Int
      BY <1>1, <1>3, <1>4, <2>2
    <3>2. InBounds(f, Number[d.maxValue])
      BY <1>3, <2>2, <3>1 DEF InBounds
    <3> QED  BY <1>3, <2>2, <3>2
  <2>3. CASE d.minValue = Null /\ d.maxValue = Null
    <3>1. PICK s \in DOMAIN Number : Number[s] = 0
      BY WordsAssumption
    <3>2. IsDecimal(s)
      BY <3>1, NumbersAssumption DEF IsDecimal
    <3> QED  BY <1>3, <2>3, <3>2 DEF InBounds
  <2> QED  BY <2>1, <2>2, <2>3
<1>6. PICK s : IsDecimal(s) /\ InBounds(f, Number[s])
  BY <1>5
<1>7. s \in Strings \ Blank /\ s # "" /\ s \notin WithNul /\ Length[s] <= MaxLengthOf(f)
  <2>1. MaxLengthOf(f) = MaxText
    BY SavedFacts DEF TextTypes
  <2> QED  BY <1>1, <1>4, <1>6, <2>1, WordsAssumption
<1>8. <<s>> \in Filled(f)
  <2>1. Filled(f) = {<<t>> : t \in {u \in Strings \ WithNul : Length[u] <= MaxLengthOf(f)}}
    BY DEF Filled
  <2> QED  BY <1>7, <2>1
<1>9. Collected(f, <<s>>) = [string |-> s]
  BY <1>7 DEF Collected
<1>10. DecimalFits(f, Collected(f, <<s>>)) /\ ~Empty(Collected(f, <<s>>))
  BY <1>6, <1>7, <1>9, WordGiven DEF DecimalFits
<1> QED  BY <1>8, <1>10, EntriesDecide DEF Accepts

(* Yes, No and every day of the calendar are answers.                      *)
LEMMA OthersAnswerable ==
  ASSUME NEW d, NEW f, SavedFrom(d, f), f.type \in {"BOOLEAN", "DATE"}
  PROVE  Answerable(f)
<1>1. CASE f.type = "BOOLEAN"
  <2>1. Filled(f) = {<<"true">>, <<"false">>}
    BY <1>1 DEF Filled
  <2>2. \A e \in Filled(f) : Collected(f, e) \in [boolean : BOOLEAN]
    <3>1. /\ Collected(f, <<"true">>) = [boolean |-> TRUE]
          /\ Collected(f, <<"false">>) = [boolean |-> FALSE]
      BY <1>1 DEF Collected
    <3>2. [boolean |-> TRUE] \in [boolean : BOOLEAN] /\ [boolean |-> FALSE] \in [boolean : BOOLEAN]
      OBVIOUS
    <3>3. ASSUME NEW e \in Filled(f) PROVE Collected(f, e) \in [boolean : BOOLEAN]
      <4>1. e = <<"true">> \/ e = <<"false">>
        BY <2>1, <3>3
      <4> QED  BY <3>1, <3>2, <4>1
    <3> QED  BY <3>3
  <2>3. \A e \in Filled(f) : ~Empty(Collected(f, e)) /\ Accepts(f, Collected(f, e))
    BY <1>1, <2>2, ScalarGiven DEF Accepts
  <2> QED  BY <2>1, <2>3, EntriesDecide
<1>2. CASE f.type = "DATE"
  <2>1. Filled(f) = {<<s>> : s \in {t \in DOMAIN IsoDate : IsoDate[t] = t}}
    BY <1>2 DEF Filled
  <2>2. \A s \in DOMAIN IsoDate : s \in Strings \ Blank /\ s # ""
    BY StringsAssumption, WordsAssumption
  <2>3. ASSUME NEW s \in DOMAIN IsoDate, IsoDate[s] = s
        PROVE  ~Empty(Collected(f, <<s>>)) /\ Accepts(f, Collected(f, <<s>>))
    <3>1. Collected(f, <<s>>) = [string |-> s]
      BY <1>2, <2>2 DEF Collected
    <3>2. DateFits(Collected(f, <<s>>)) /\ ~Empty(Collected(f, <<s>>))
      BY <2>2, <2>3, <3>1, WordGiven DEF DateFits
    <3> QED  BY <1>2, <3>2 DEF Accepts
  <2>4. \E e : e \in Filled(f)
    <3>1. PICK t \in DOMAIN IsoDate : IsoDate[t] = t
      BY WordsAssumption
    <3>2. <<t>> \in Filled(f)
      BY <2>1, <3>1
    <3> QED  BY <3>2
  <2>5. ASSUME NEW e \in Filled(f)
        PROVE  ~Empty(Collected(f, e)) /\ Accepts(f, Collected(f, e))
    <3>1. PICK s \in DOMAIN IsoDate : IsoDate[s] = s /\ e = <<s>>
      BY <2>1, <2>5
    <3> QED  BY <2>3, <3>1
  <2> QED  BY <2>4, <2>5, EntriesDecide
<1> QED  BY <1>1, <1>2

(* One option, or any set of options in the order of the page.             *)
LEMMA ChoiceAnswerable ==
  ASSUME NEW d, NEW f, SavedFrom(d, f), f.type = "SINGLE_SELECT"
  PROVE  Answerable(f)
<1>1. f.options # <<>> /\ f.options \in Seq(Option) /\ OptionKeys(f) \subseteq Strings \ Blank
  BY SavedFacts DEF ChoiceTypes
<1>2. Filled(f) = {<<k>> : k \in OptionKeys(f)}
  BY DEF Filled
<1>3. ASSUME NEW k \in OptionKeys(f)
      PROVE  ~Empty(Collected(f, <<k>>)) /\ Accepts(f, Collected(f, <<k>>))
  <2>1. k \in Strings \ Blank /\ k # ""
    BY <1>1, WordsAssumption
  <2>2. Collected(f, <<k>>) = [string |-> k]
    BY <2>1 DEF Collected
  <2> QED  BY <2>1, <2>2, WordGiven DEF Accepts, IsOption
<1>4. \E e : e \in Filled(f)
  <2>1. 1 \in DOMAIN f.options
    BY <1>1
  <2> QED  BY <1>2, <2>1 DEF OptionKeys
<1> QED  BY <1>2, <1>3, <1>4, EntriesDecide

LEMMA ChoicesAnswerable ==
  ASSUME NEW d, NEW f, SavedFrom(d, f), f.type = "MULTI_SELECT"
  PROVE  Answerable(f)
<1>1. /\ f.options # <<>> /\ f.options \in Seq(Option)
      /\ OptionKeys(f) \subseteq Strings \ Blank
      /\ DistinctOptions(f)
  BY SavedFacts DEF ChoiceTypes, DistinctOptions
<1>2. /\ Filled(f) = {InOptionOrder(f, keys) : keys \in SUBSET OptionKeys(f)}
      /\ Untouched(f) = <<>>
  BY DEF Filled, Untouched
<1>3. ASSUME NEW keys \in SUBSET OptionKeys(f), NEW s, s = InOptionOrder(f, keys), s # <<>>
      PROVE  ~Empty(Collected(f, s)) /\ Accepts(f, Collected(f, s))
  <2>1. /\ s \in Seq(OptionKeys(f)) /\ Len(s) <= Len(f.options)
        /\ \A m, n \in DOMAIN s : s[m] = s[n] => m = n
    BY <1>1, <1>3, ChoicesOnce
  <2> DEFINE a == [i \in DOMAIN s |-> [string |-> s[i]]]
             v == [array |-> a]
  <2>2. s # <<"">>
    <3>1. "" \notin OptionKeys(f)
      BY <1>1, WordsAssumption
    <3>2. Len(<<"">>) = 1 /\ <<"">>[1] = ""
      OBVIOUS
    <3>3. DOMAIN s = 1 .. Len(s) /\ \A n \in DOMAIN s : s[n] \in OptionKeys(f)
      BY <2>1
    <3>4. Len(s) = 1 => s[1] \in OptionKeys(f)
      BY <3>3
    <3> QED  BY <3>1, <3>2, <3>4
  <2>3. Collected(f, s) = v
    BY <1>3, <2>2 DEF Collected
  <2>4. DOMAIN a = 1 .. Len(s) /\ Len(s) \in Nat /\ Len(s) >= 1
    BY <1>3, <2>1
  <2>5. \A i \in 1 .. Len(s) : s[i] \in OptionKeys(f) /\ s[i] \in Strings \ Blank
    BY <1>1, <2>1
  <2>6. a \in Seq(Scalars) /\ Len(a) = Len(s) /\ a # <<>>
    <3>1. a \in [1 .. Len(s) -> Scalars]
      BY <2>4, <2>5 DEF Scalars
    <3>2. a \in Seq(Scalars) /\ Len(a) = Len(s)
      <4> HIDE DEF a
      <4> QED  BY <2>4, <3>1
    <3> QED  BY <2>4, <3>2
  <2>7. v # Null /\ v.array = a /\ DOMAIN v = {"array"}
    <3>1. v \in [array : Seq(Scalars)]
      BY <2>6
    <3> QED  BY <3>1, NullAssumption
  <2>8. Is(v, "array") /\ ~Empty(v)
    BY <2>6, <2>7 DEF Is, Empty
  <2>9. \A i \in DOMAIN a : IsOption(f, a[i])
    <3>1. ASSUME NEW i \in DOMAIN a PROVE IsOption(f, a[i])
      <4>1. a[i] = [string |-> s[i]] /\ s[i] \in OptionKeys(f) /\ s[i] \in Strings \ Blank
        BY <2>4, <2>5
      <4> HIDE DEF a
      <4> QED  BY <4>1, WordGiven DEF IsOption
    <3> QED  BY <3>1
  <2>10. IsInjective(a)
    <3>1. ASSUME NEW i \in DOMAIN a, NEW j \in DOMAIN a, a[i] = a[j] PROVE i = j
      <4>1. a[i] = [string |-> s[i]] /\ a[j] = [string |-> s[j]]
        OBVIOUS
      <4>2. s[i] = s[j]
        BY <3>1, <4>1
      <4> QED  BY <2>1, <4>2
    <3> QED  BY <3>1 DEF IsInjective
  <2>11. ChoicesFit(f, v)
    <3> HIDE DEF a
    <3> QED  BY <2>1, <2>6, <2>7, <2>8, <2>9, <2>10 DEF ChoicesFit
  <2> QED  BY <2>3, <2>8, <2>11 DEF Accepts
<1>4. Empty(Collected(f, <<>>))
  BY DEF Collected, Empty
<1>5. \E e \in Filled(f) : e # <<>>
  <2>1. 1 \in DOMAIN f.options
    BY <1>1
  <2> DEFINE k == f.options[1].key
             s == InOptionOrder(f, {k})
  <2>2. k \in OptionKeys(f)
    BY <2>1 DEF OptionKeys
  <2>3. s \in Filled(f)
    BY <1>2, <2>2
  <2>4. \E n \in DOMAIN s : s[n] = k
    <3> HIDE DEF k, s
    <3>1. s = InOptionOrder(f, {k})
      BY DEF s
    <3> QED  BY <1>1, <2>2, <3>1, ChoicesOnce
  <2> QED  BY <2>3, <2>4
<1> QED  BY <1>2, <1>3, <1>4, <1>5, EntriesDecide

(* What the database keeps of a form is a definition that was validated.   *)
SavedSound == draft # Null => draft \in Drafts /\ ValidDefinition(draft)

LEMMA SavedSoundHolds == Spec => []SavedSound
<1>1. Init => SavedSound
  BY DEF Init, SavedSound
<1>2. SavedSound /\ [Next]_vars => SavedSound'
  <2>1. SUFFICES ASSUME SavedSound, [Next]_vars PROVE SavedSound'
    OBVIOUS
  <2>2. ASSUME NEW d \in Drafts, PutVersion(d) PROVE SavedSound'
    BY <2>1, <2>2 DEF PutVersion, SavedSound
  <2>3. ASSUME NEW a \in Requests, Submit(a) PROVE SavedSound'
    BY <2>1, <2>3 DEF Submit, SavedSound
  <2>4. CASE UNCHANGED vars
    BY <2>1, <2>4 DEF vars, SavedSound
  <2> QED  BY <2>1, <2>2, <2>3, <2>4 DEF Next
<1> QED  BY <1>1, <1>2, PTL DEF Spec

(* For every definition that is saved: what the page lets a visitor enter  *)
(* is accepted, and every field but an e-mail address has such an entry.   *)
THEOREM SavedFormsAnswerable == Spec => []EveryFieldAnswerable
<1>1. KeptAsSent /\ SavedSound => EveryFieldAnswerable
  <2>1. SUFFICES ASSUME KeptAsSent, SavedSound, NEW i \in DOMAIN fields
                 PROVE  Answerable(fields[i])
    BY DEF EveryFieldAnswerable
  <2>2. draft # Null /\ draft \in Drafts /\ fields = Normalized(draft) /\ ValidDefinition(draft)
    BY <2>1 DEF KeptAsSent, SavedSound
  <2>3. draft \in Seq(FieldDto) /\ i \in DOMAIN draft /\ fields[i] = SavedField(draft[i])
    BY <2>1, <2>2, InputsAssumption DEF Normalized
  <2>4. SavedFrom(draft[i], fields[i])
    BY <2>2, <2>3 DEF ValidDefinition, SavedFrom
  <2>5. fields[i].type \in FieldTypes
    BY <2>4, SavedFacts
  <2> QED
    BY <2>4, <2>5, TextAnswerable, IntegerAnswerable, DecimalAnswerable,
       OthersAnswerable, ChoiceAnswerable, ChoicesAnswerable
    DEF FieldTypes, NumberTypes, ChoiceTypes
<1>2. MeaningInv => KeptAsSent
  BY DEF MeaningInv
<1> QED  BY <1>1, <1>2, SavedSoundHolds, MeaningHolds, PTL

-----------------------------------------------------------------------------
(* The reports' order is a strict total order, whatever ties there are.    *)
LEMMA OrderIsTotal ==
  ASSUME createdAt \in [Ids -> Int], NEW w,
         NEW i \in Ids, NEW j \in Ids, NEW k \in Ids
  PROVE  /\ ~Before(w, i, i)
         /\ i # j => Before(w, i, j) \/ Before(w, j, i)
         /\ Before(w, i, j) /\ Before(w, j, k) => Before(w, i, k)
<1>1. /\ createdAt[i] \in Int /\ createdAt[j] \in Int /\ createdAt[k] \in Int
      /\ i \in Int /\ j \in Int /\ k \in Int
  BY PagingAssumption
<1> QED  BY <1>1 DEF Before

(* What the database returns: the rows found, each once, in report order.  *)
LEMMA RowsInOrderOnce ==
  ASSUME createdAt \in [Ids -> Int], NEW w, NEW found \in SUBSET Ids,
         NEW s, s = InOrder(w, found)
  PROVE  /\ s \in Seq(found) /\ s \in Seq(Ids)
         /\ \A m, n \in 1 .. Len(s) : m < n => Before(w, s[m], s[n])
         /\ \A i \in found : \E n \in 1 .. Len(s) : s[n] = i
<1> DEFINE R == {p \in found \X found : Before(w, p[1], p[2])}
           N == Cardinality(found)
<1>1. IsFiniteSet(found) /\ N \in Nat
  BY PagingAssumption, FS_Subset, FS_CardinalityType
<1>2. \A i, j \in found : <<i, j>> \in R <=> Before(w, i, j)
  OBVIOUS
<1> HIDE DEF R
<1>3. Orders(R, found)
  BY <1>2, OrderIsTotal DEF Orders
<1>4. \A t : Lists(t, R, found) <=>
         /\ t \in [1 .. N -> found]
         /\ \A m, n \in DOMAIN t : m < n => Before(w, t[m], t[n])
  <2> TAKE t
  <2>1. ASSUME t \in [1 .. N -> found], NEW m \in DOMAIN t, NEW n \in DOMAIN t
        PROVE  <<t[m], t[n]>> \in R <=> Before(w, t[m], t[n])
    BY <1>2, <2>1
  <2> QED  BY <2>1 DEF Lists
<1>5. Lists(s, R, found)
  <2>1. \E t : Lists(t, R, found)
    BY <1>1, <1>3, OrdersList
  <2>2. s = CHOOSE t \in [1 .. N -> found] :
              \A m, n \in DOMAIN t : m < n => Before(w, t[m], t[n])
    BY DEF InOrder
  <2> QED  BY <1>4, <2>1, <2>2
<1>6. /\ s \in Seq(found) /\ Len(s) = N
      /\ \A i \in found : \E n \in 1 .. Len(s) : s[n] = i
  BY <1>1, <1>3, <1>5, ListingIsOnto
<1>7. \A m, n \in 1 .. Len(s) : m < n => Before(w, s[m], s[n])
  BY <1>1, <1>4, <1>5, <1>6
<1> QED  BY <1>6, <1>7

Settled == {"committed", "gone"}
Live == {"pending", "committed"}
Asking == {"check", "read"}

(* The rows a page is read from: what the query of FromCursor finds.       *)
Found(w) ==
  {i \in Ids :
     /\ Matches(w, i, known[w], routed[w])
     /\ \/ cursor[w] = NoCursor
        \/ stage[cursor[w]] = "committed" /\ ~Before(w, i, cursor[w])}

(* skip: 1 drops the cursor row and no other, as it is the first one found *)
(* if it is found at all.  If it is not, because it was deleted, nothing   *)
(* is found; if it was relabelled, one row too many is dropped.            *)
LEMMA RestFollowsCursor ==
  ASSUME createdAt \in [Ids -> Int], NEW w, cursor[w] \in Ids \cup {NoCursor},
         NEW rest, rest = Remaining(w)
  PROVE  /\ rest \in Seq(Ids) /\ rest \in Seq(Found(w))
         /\ \A m, n \in 1 .. Len(rest) : m < n => Before(w, rest[m], rest[n])
         /\ cursor[w] # NoCursor =>
              \A n \in 1 .. Len(rest) : Before(w, cursor[w], rest[n])
         /\ cursor[w] \in Found(w) \cup {NoCursor} =>
              \A i \in Found(w) \ {cursor[w]} :
                \E n \in 1 .. Len(rest) : rest[n] = i
<1> DEFINE s == FromCursor(w)
<1>1. s = InOrder(w, Found(w)) /\ Found(w) \in SUBSET Ids
  BY DEF FromCursor, Found
<1> HIDE DEF s
<1>2. /\ s \in Seq(Found(w)) /\ s \in Seq(Ids)
      /\ \A m, n \in 1 .. Len(s) : m < n => Before(w, s[m], s[n])
      /\ \A i \in Found(w) : \E n \in 1 .. Len(s) : s[n] = i
  <2> DEFINE F == Found(w)
  <2>1. F \in SUBSET Ids /\ s = InOrder(w, F)
    BY <1>1
  <2> HIDE DEF F
  <2>2. /\ s \in Seq(F) /\ s \in Seq(Ids)
        /\ \A m, n \in 1 .. Len(s) : m < n => Before(w, s[m], s[n])
        /\ \A i \in F : \E n \in 1 .. Len(s) : s[n] = i
    BY <2>1, RowsInOrderOnce
  <2> QED  BY <2>2 DEF F
<1>3. NoCursor \notin Ids
  BY PagingAssumption
<1>4. CASE cursor[w] = NoCursor
  <2>1. rest = s
    BY <1>4 DEF Remaining, s
  <2> QED  BY <1>2, <1>4, <2>1
<1>5. CASE cursor[w] # NoCursor /\ s = <<>>
  <2>1. rest = <<>>
    BY <1>5 DEF Remaining, s
  <2>2. Found(w) = {}
    BY <1>2, <1>5
  <2> QED  BY <2>1, <2>2
<1>6. CASE cursor[w] # NoCursor /\ s # <<>>
  <2>1. rest = Tail(s)
    BY <1>6 DEF Remaining, s
  <2>2. /\ rest \in Seq(Ids) /\ rest \in Seq(Found(w))
        /\ Len(s) \in Nat \ {0} /\ Len(rest) = Len(s) - 1
        /\ \A n \in 1 .. Len(rest) : rest[n] = s[n + 1]
    BY <1>2, <1>6, <2>1
  <2>3. \A n \in 1 .. Len(rest) : n + 1 \in 1 .. Len(s) /\ n + 1 > 1
    BY <2>2
  <2>4. ASSUME NEW m \in 1 .. Len(rest), NEW n \in 1 .. Len(rest), m < n
        PROVE  Before(w, rest[m], rest[n])
    <3>1. m + 1 < n + 1 /\ m + 1 \in 1 .. Len(s) /\ n + 1 \in 1 .. Len(s)
      BY <2>3, <2>4
    <3>2. Before(w, s[m + 1], s[n + 1])
      BY <1>2, <3>1
    <3> QED  BY <2>2, <3>2
  <2>5. cursor[w] \in Ids /\ 1 \in 1 .. Len(s) /\ s[1] \in Ids
    <3>1. cursor[w] \in Ids
      BY <1>6
    <3>2. 1 \in 1 .. Len(s)
      BY <2>2
    <3>3. s[1] \in Ids
      BY <1>2, <3>2
    <3> QED  BY <3>1, <3>2, <3>3
  <2>6. \A i \in Found(w) : i \in Ids /\ ~Before(w, i, cursor[w])
    BY <1>6 DEF Found
  <2>7. \A n \in 1 .. Len(rest) : Before(w, cursor[w], rest[n])
    <3> SUFFICES ASSUME NEW n \in 1 .. Len(rest)
                 PROVE  Before(w, cursor[w], rest[n])
      OBVIOUS
    <3>1. Before(w, s[1], s[n + 1])
      BY <1>2, <2>3, <2>5
    <3>2. Before(w, s[1], rest[n]) /\ rest[n] \in Ids
      BY <2>2, <3>1
    <3>3. s[1] \in Found(w)
      BY <1>2, <2>5
    <3>4. s[1] = cursor[w] \/ Before(w, cursor[w], s[1])
      BY <2>5, <2>6, <3>3, OrderIsTotal
    <3> QED  BY <2>5, <3>2, <3>4, OrderIsTotal
  <2>8. ASSUME cursor[w] \in Found(w), NEW i \in Found(w) \ {cursor[w]}
        PROVE  \E n \in 1 .. Len(rest) : rest[n] = i
    <3>1. PICK n \in 1 .. Len(s) : s[n] = i
      BY <1>2, <2>8
    <3>2. PICK m \in 1 .. Len(s) : s[m] = cursor[w]
      BY <1>2, <2>8
    <3>3. m = 1
      <4>1. ASSUME m # 1 PROVE FALSE
        <5>1. Before(w, s[1], cursor[w])
          BY <1>2, <2>5, <3>2, <4>1
        <5>2. s[1] \in Found(w)
          BY <1>2, <2>5
        <5> QED  BY <2>6, <5>1, <5>2
      <4> QED  BY <4>1
    <3>4. n # 1
      BY <2>8, <3>1, <3>2, <3>3
    <3>5. n - 1 \in 1 .. Len(rest) /\ rest[n - 1] = s[n]
      BY <2>2, <3>1, <3>4
    <3> QED  BY <3>1, <3>5
  <2> QED  BY <1>3, <1>6, <2>2, <2>4, <2>7, <2>8
<1> QED  BY <1>4, <1>5, <1>6

(* A page is the head of the rest, and the cursor handed out with it is    *)
(* its last row; without one nothing is left.                              *)
LEMMA PageIsHead ==
  ASSUME NEW w, NEW rest \in Seq(Ids),
         NEW page, page = Page(rest), NEW next, next = NextCursor(w, rest)
  PROVE  /\ page \in Seq(Ids) /\ Len(page) <= Len(rest)
         /\ \A n \in 1 .. Len(page) : page[n] = rest[n]
         /\ next = NoCursor => Len(page) = Len(rest)
         /\ next # NoCursor =>
              /\ next \in Ids /\ Len(page) \in 1 .. Len(rest)
              /\ next = rest[Len(page)]
<1>1. Len(rest) \in Nat /\ Limit \in Nat /\ Limit >= 1 /\ NoCursor \notin Ids
  BY PagingAssumption
<1>2. CASE Len(rest) < Limit
  <2>1. page = SubSeq(rest, 1, Len(rest)) /\ next = NoCursor
    BY <1>1, <1>2 DEF Page, NextCursor
  <2> QED  BY <1>1, <2>1
<1>3. CASE ~(Len(rest) < Limit)
  <2>1. page = SubSeq(rest, 1, Limit) /\ Limit \in 1 .. Len(rest)
    BY <1>1, <1>3 DEF Page
  <2>2. page \in Seq(Ids) /\ Len(page) = Limit
    BY <1>1, <2>1
  <2>3. \A n \in 1 .. Len(page) : page[n] = rest[n]
    BY <1>1, <2>1, <2>2
  <2>4. next = IF Len(rest) > Limit THEN rest[Limit] ELSE NoCursor
    BY DEF NextCursor
  <2>5. rest[Limit] \in Ids
    BY <2>1
  <2> QED  BY <1>1, <1>3, <2>1, <2>2, <2>3, <2>4, <2>5
<1> QED  BY <1>2, <1>3
-----------------------------------------------------------------------------
VersionsKnown == \A i \in Ids : stage[i] \in Live => version[i] <= newest

(* The cursor of a walk under way is the last row it handed out.           *)
WalkShape(w) ==
  /\ cursor[w] # NoCursor =>
       /\ pc[w] \in Asking \cup {"failed"}
       /\ out[w] # <<>> /\ cursor[w] = out[w][Len(out[w])]
  /\ cursor[w] = NoCursor => pc[w] # "failed" /\ (pc[w] # "done" => out[w] = <<>>)
  /\ pc[w] = "read" => (routed[w] => classified)

(* Rows handed out keep their place: they have been committed, and their   *)
(* timestamps do not change any more.                                      *)
HandedOutInOrder(w) ==
  /\ \A n \in DOMAIN out[w] : stage[out[w][n]] \in Settled
  /\ \A m, n \in DOMAIN out[w] : m < n => Before(w, out[w][m], out[w][n])

(* The rows that are due match also what the page under way has read.      *)
DueMatch(w) ==
  \A i \in due[w] :
    /\ MatchesNow(w, i)
    /\ pc[w] = "read" => Matches(w, i, known[w], routed[w])

(* While nobody takes its cursor away, a walk has handed out all that is   *)
(* due before the cursor.                                                  *)
NothingSkippedSoFar(w) ==
  ~disturbed[w] =>
    /\ pc[w] # "failed"
    /\ pc[w] = "done" => due[w] \subseteq ToSet(out[w])
    /\ pc[w] \in Asking /\ cursor[w] # NoCursor =>
         /\ MatchesNow(w, cursor[w])
         /\ pc[w] = "read" => Matches(w, cursor[w], known[w], routed[w])
         /\ \A i \in due[w] : i \in ToSet(out[w]) \/ Before(w, cursor[w], i)

(* The revision whose columns an export has or would get now.              *)
Captured(w) ==
  IF cursor[w] # NoCursor THEN header[w]
  ELSE IF pc[w] = "read" THEN known[w] ELSE newest

(* The rows an export may still hand out answer revisions that it has      *)
(* captured: a newer one is published in a later millisecond only.         *)
ColumnsCaptured(w) ==
  kind[w] = "export" /\ pc[w] \in Asking =>
    /\ bound[w] <= clock
    /\ clock = bound[w] => newest <= Captured(w)
    /\ \A i \in Ids :
         stage[i] \in Live /\ createdAt[i] <= bound[w] => version[i] <= Captured(w)

OnlyAppendedHidden(w) == \A cell \in hidden[w] : cell[2] \in Appended

WalkInv(w) ==
  /\ WalkShape(w) /\ HandedOutInOrder(w) /\ DueMatch(w)
  /\ NothingSkippedSoFar(w) /\ ColumnsCaptured(w) /\ OnlyAppendedHidden(w)

PagingInv == ReportTypeOK /\ VersionsKnown /\ \A w \in Walks : WalkInv(w)
-----------------------------------------------------------------------------
(* What the steps of everybody else may do to the walks under way.         *)
Surroundings ==
  /\ UNCHANGED walk
  /\ newest <= newest' /\ clock <= clock' /\ (newest' # newest => clock < clock')
  /\ classified => classified'
  /\ \A i \in Ids : stage[i] \in Settled =>
       /\ stage'[i] \in Settled /\ createdAt'[i] = createdAt[i]
       /\ stage'[i] = "committed" => version'[i] = version[i]
  /\ \A i \in Ids : stage'[i] \in Live =>
       \/ /\ stage[i] \in Live
          /\ createdAt'[i] = createdAt[i] /\ version'[i] = version[i]
       \/ /\ createdAt'[i] = clock /\ version'[i] = newest
          /\ clock' = clock /\ newest' = newest
  /\ \A w \in Walks : due'[w] \subseteq due[w] /\ \A i \in due'[w] : MatchesNow(w, i)'
  /\ \A w \in Walks : ~disturbed'[w] =>
       /\ ~disturbed[w]
       /\ pc[w] \in Asking /\ cursor[w] # NoCursor => MatchesNow(w, cursor[w])'

(* RowsChanged keeps the history.                                          *)
LEMMA HistoryKept ==
  ASSUME ReportTypeOK, RowsChanged
  PROVE  /\ due' \in [Walks -> SUBSET Ids] /\ disturbed' \in [Walks -> BOOLEAN]
         /\ \A w \in Walks :
              due'[w] \subseteq due[w] /\ \A i \in due'[w] : MatchesNow(w, i)'
         /\ \A w \in Walks : ~disturbed'[w] =>
              /\ ~disturbed[w]
              /\ pc[w] \in Asking /\ cursor[w] # NoCursor => MatchesNow(w, cursor[w])'
<1>1. due' = [w \in Walks |-> {i \in due[w] : MatchesNow(w, i)'}]
  BY DEF RowsChanged
<1>2. disturbed' = [w \in Walks |->
         \/ disturbed[w]
         \/ pc[w] \in {"check", "read"} /\ cursor[w] # NoCursor
              /\ ~(MatchesNow(w, cursor[w])')]
  BY DEF RowsChanged
<1>3. \A w \in Walks : due'[w] = {i \in due[w] : MatchesNow(w, i)'}
  BY <1>1
<1>4. \A w \in Walks : disturbed[w] \in BOOLEAN /\ due[w] \in SUBSET Ids
  BY DEF ReportTypeOK
<1>5. \A w \in Walks : disturbed'[w] <=>
         \/ disturbed[w]
         \/ pc[w] \in {"check", "read"} /\ cursor[w] # NoCursor
              /\ ~(MatchesNow(w, cursor[w])')
  BY <1>2
<1>6. disturbed' \in [Walks -> BOOLEAN]
  BY <1>2, <1>4
<1>7. due' \in [Walks -> SUBSET Ids]
  BY <1>1, <1>4
<1> QED  BY <1>3, <1>5, <1>6, <1>7 DEF Asking

(* Without it: a row that matches is committed and stays as it is, and it  *)
(* belongs to every later revision as well.                                *)
LEMMA MatchesStay ==
  ASSUME PagingInv, UNCHANGED <<classified, label, walk>>, newest <= newest',
         newest' \in Int,
         \A i \in Ids : stage[i] = "committed" =>
           /\ stage'[i] = "committed"
           /\ createdAt'[i] = createdAt[i] /\ version'[i] = version[i],
         NEW w \in Walks, NEW i \in Ids, MatchesNow(w, i)
  PROVE  MatchesNow(w, i)'
<1>1. version[i] \in Int /\ newest \in Int /\ newest' \in Int
  BY PagingAssumption DEF PagingInv, ReportTypeOK, Versions
<1>2. /\ stage[i] = "committed"
      /\ version[i] <= (IF kind[w] = "revision" THEN 1 ELSE newest)
      /\ createdAt[i] <= bound[w]
      /\ classified => filter[w] \in {NoFilter, label[i]}
  BY DEF MatchesNow, Matches
<1>3. UNCHANGED <<kind, bound, filter>>
  BY DEF walk
<1> QED  BY <1>1, <1>2, <1>3 DEF MatchesNow, Matches

LEMMA HistoryStays ==
  ASSUME PagingInv, UNCHANGED <<classified, label, walk, history>>,
         newest <= newest', newest' \in Int,
         \A i \in Ids : stage[i] = "committed" =>
           /\ stage'[i] = "committed"
           /\ createdAt'[i] = createdAt[i] /\ version'[i] = version[i]
  PROVE  /\ \A w \in Walks :
              due'[w] \subseteq due[w] /\ \A i \in due'[w] : MatchesNow(w, i)'
         /\ \A w \in Walks : ~disturbed'[w] =>
              /\ ~disturbed[w]
              /\ pc[w] \in Asking /\ cursor[w] # NoCursor => MatchesNow(w, cursor[w])'
<1>1. UNCHANGED <<due, disturbed>>
  BY DEF history
<1>2. ASSUME NEW w \in Walks, NEW i \in due[w] PROVE MatchesNow(w, i)'
  <2>1. i \in Ids /\ MatchesNow(w, i)
    BY <1>2 DEF PagingInv, ReportTypeOK, WalkInv, DueMatch
  <2> QED  BY <2>1, MatchesStay
<1>3. ASSUME NEW w \in Walks, ~disturbed[w], pc[w] \in Asking, cursor[w] # NoCursor
      PROVE  MatchesNow(w, cursor[w])'
  <2>1. cursor[w] \in Ids /\ MatchesNow(w, cursor[w])
    BY <1>3 DEF PagingInv, ReportTypeOK, WalkInv, NothingSkippedSoFar
  <2>2. cursor' = cursor
    BY DEF walk
  <2> QED  BY <2>1, <2>2, MatchesStay
<1> QED  BY <1>1, <1>2, <1>3

(* Every step but those of the walks keeps to that.                        *)
LEMMA StepsAround ==
  ASSUME PagingInv,
         \/ Tick \/ Publish \/ AddFlow
         \/ \E i \in Ids : Insert(i) \/ CommitInsert(i) \/ RollBackInsert(i) \/ Delete(i)
         \/ \E i \in Ids, l \in Classes : Classify(i, l)
  PROVE  Surroundings /\ ReportTypeOK' /\ VersionsKnown'
<1>1. /\ clock \in Times /\ newest \in Versions /\ classified \in BOOLEAN
      /\ stage \in [Ids -> {"absent", "pending", "committed", "gone"}]
      /\ createdAt \in [Ids -> Times] /\ version \in [Ids -> Versions]
      /\ label \in [Ids -> Classes]
      /\ VersionsKnown /\ ReportTypeOK
  BY DEF PagingInv, ReportTypeOK
<1>2. /\ Times \subseteq Int /\ Versions \subseteq Int /\ 0 \in Times /\ 1 \in Versions
      /\ clock \in Int /\ newest \in Int /\ Unknown \in Classes
  BY <1>1, PagingAssumption DEF Times, Versions
<1> DEFINE History ==
      /\ due' \in [Walks -> SUBSET Ids] /\ disturbed' \in [Walks -> BOOLEAN]
      /\ \A w \in Walks :
           due'[w] \subseteq due[w] /\ \A i \in due'[w] : MatchesNow(w, i)'
      /\ \A w \in Walks : ~disturbed'[w] =>
           /\ ~disturbed[w]
           /\ pc[w] \in Asking /\ cursor[w] # NoCursor => MatchesNow(w, cursor[w])'
<1>3. ASSUME RowsChanged PROVE History /\ UNCHANGED walk
  BY <1>1, <1>3, HistoryKept DEF RowsChanged
<1>4. ASSUME UNCHANGED <<classified, label, walk, history>>,
             newest <= newest', newest' \in Int,
             \A i \in Ids : stage[i] = "committed" =>
               /\ stage'[i] = "committed"
               /\ createdAt'[i] = createdAt[i] /\ version'[i] = version[i]
      PROVE  History /\ UNCHANGED walk
  <2>1. due' \in [Walks -> SUBSET Ids] /\ disturbed' \in [Walks -> BOOLEAN]
    BY <1>1, <1>4 DEF ReportTypeOK, history
  <2> QED  BY <1>4, <2>1, HistoryStays
<1>5. ASSUME History, UNCHANGED walk,
             clock' \in Times, newest' \in Versions, classified' \in BOOLEAN,
             stage' \in [Ids -> {"absent", "pending", "committed", "gone"}],
             createdAt' \in [Ids -> Times], version' \in [Ids -> Versions],
             label' \in [Ids -> Classes]
      PROVE  ReportTypeOK'
  <2>1. UNCHANGED <<pc, kind, filter, bound, cursor, known, routed, header, out, hidden>>
    BY <1>5 DEF walk
  <2> QED  BY <1>1, <1>5, <2>1 DEF ReportTypeOK, Times, Versions, Stages, Kinds
<1> HIDE DEF History
<1>10. CASE Tick
  <2>1. /\ clock' = clock + 1 /\ clock' \in Times
        /\ UNCHANGED <<newest, classified, stage, createdAt, version, label, walk, history>>
    BY <1>2, <1>10, <1>1, PagingAssumption DEF Tick, Times, formState, rows
  <2>2. History /\ UNCHANGED walk
    BY <1>2, <1>4, <2>1
  <2>3. ReportTypeOK'
    BY <1>1, <1>5, <2>1, <2>2
  <2>4. VersionsKnown'
    BY <1>1, <2>1 DEF VersionsKnown
  <2>5. Surroundings
    BY <1>1, <1>2, <2>1, <2>2 DEF Surroundings, History, VersionsKnown
  <2> QED  BY <2>3, <2>4, <2>5
<1>11. CASE Publish
  <2>1. /\ clock' = clock + 1 /\ clock' \in Times
        /\ newest' = newest + 1 /\ newest' \in Versions
        /\ UNCHANGED <<classified, stage, createdAt, version, label, walk, history>>
    BY <1>2, <1>11, <1>1, PagingAssumption DEF Publish, Times, rows
  <2>2. History /\ UNCHANGED walk
    BY <1>2, <1>4, <2>1
  <2>3. ReportTypeOK'
    BY <1>1, <1>5, <2>1, <2>2
  <2>4. VersionsKnown'
    <3>1. \A i \in Ids : version[i] \in Int
      BY <1>1, <1>2
    <3> QED  BY <1>1, <1>2, <2>1, <3>1 DEF VersionsKnown
  <2>5. Surroundings
    BY <1>1, <1>2, <2>1, <2>2 DEF Surroundings, History, VersionsKnown
  <2> QED  BY <2>3, <2>4, <2>5
<1>12. CASE AddFlow
  <2>1. /\ classified' = TRUE /\ RowsChanged
        /\ UNCHANGED <<clock, newest, stage, createdAt, version, label>>
    BY <1>12 DEF AddFlow, rows
  <2>2. History /\ UNCHANGED walk
    BY <1>3, <2>1
  <2>3. ReportTypeOK'
    BY <1>1, <1>5, <2>1, <2>2
  <2>4. VersionsKnown'
    BY <1>1, <2>1 DEF VersionsKnown
  <2>5. Surroundings
    BY <1>1, <1>2, <2>1, <2>2 DEF Surroundings, History
  <2> QED  BY <2>3, <2>4, <2>5
<1>13. ASSUME NEW j \in Ids, Insert(j)
       PROVE  Surroundings /\ ReportTypeOK' /\ VersionsKnown'
  <2>1. /\ stage[j] = "absent"
        /\ stage' = [stage EXCEPT ![j] = "pending"]
        /\ createdAt' = [createdAt EXCEPT ![j] = clock]
        /\ version' = [version EXCEPT ![j] = newest]
        /\ UNCHANGED <<clock, newest, classified, label, walk, history>>
    BY <1>13 DEF Insert, formState
  <2>2. \A i \in Ids :
          \/ /\ i # j /\ stage'[i] = stage[i]
             /\ createdAt'[i] = createdAt[i] /\ version'[i] = version[i]
          \/ i = j /\ stage'[i] = "pending" /\ createdAt'[i] = clock /\ version'[i] = newest
    BY <1>1, <2>1
  <2>3. History /\ UNCHANGED walk
    BY <1>2, <1>4, <2>1, <2>2
  <2>4. ReportTypeOK'
    BY <1>1, <1>5, <2>1, <2>3
  <2>5. VersionsKnown'
    BY <1>1, <1>2, <2>1, <2>2 DEF VersionsKnown, Live
  <2>6. Surroundings
    BY <1>1, <1>2, <2>1, <2>2, <2>3 DEF Surroundings, History, Settled, Live
  <2> QED  BY <2>4, <2>5, <2>6
<1>14. ASSUME NEW j \in Ids, RollBackInsert(j)
       PROVE  Surroundings /\ ReportTypeOK' /\ VersionsKnown'
  <2>1. /\ stage[j] = "pending"
        /\ stage' = [stage EXCEPT ![j] = "absent"]
        /\ createdAt' = [createdAt EXCEPT ![j] = 0]
        /\ version' = [version EXCEPT ![j] = 1]
        /\ UNCHANGED <<clock, newest, classified, label, walk, history>>
    BY <1>14 DEF RollBackInsert, formState
  <2>2. \A i \in Ids :
          \/ /\ i # j /\ stage'[i] = stage[i]
             /\ createdAt'[i] = createdAt[i] /\ version'[i] = version[i]
          \/ i = j /\ stage'[i] = "absent"
    BY <1>1, <2>1
  <2>3. History /\ UNCHANGED walk
    BY <1>2, <1>4, <2>1, <2>2
  <2>4. ReportTypeOK'
    BY <1>1, <1>2, <1>5, <2>1, <2>3
  <2>5. VersionsKnown'
    BY <1>1, <1>2, <2>1, <2>2 DEF VersionsKnown, Live
  <2>6. Surroundings
    BY <1>1, <1>2, <2>1, <2>2, <2>3 DEF Surroundings, History, Settled, Live
  <2> QED  BY <2>4, <2>5, <2>6
<1>15. ASSUME NEW j \in Ids, CommitInsert(j)
       PROVE  Surroundings /\ ReportTypeOK' /\ VersionsKnown'
  <2>1. /\ stage[j] = "pending" /\ RowsChanged
        /\ stage' = [stage EXCEPT ![j] = "committed"]
        /\ UNCHANGED <<clock, newest, classified, createdAt, version, label>>
    BY <1>15 DEF CommitInsert, formState
  <2>2. \A i \in Ids :
          \/ i # j /\ stage'[i] = stage[i]
          \/ i = j /\ stage'[i] = "committed"
    BY <1>1, <2>1
  <2>3. History /\ UNCHANGED walk
    BY <1>3, <2>1
  <2>4. ReportTypeOK'
    BY <1>1, <1>5, <2>1, <2>3
  <2>5. VersionsKnown'
    BY <1>1, <1>2, <2>1, <2>2 DEF VersionsKnown, Live
  <2>6. Surroundings
    BY <1>1, <1>2, <2>1, <2>2, <2>3 DEF Surroundings, History, Settled, Live
  <2> QED  BY <2>4, <2>5, <2>6
<1>16. ASSUME NEW j \in Ids, Delete(j)
       PROVE  Surroundings /\ ReportTypeOK' /\ VersionsKnown'
  <2>1. /\ stage[j] = "committed" /\ RowsChanged
        /\ stage' = [stage EXCEPT ![j] = "gone"]
        /\ version' = [version EXCEPT ![j] = 1]
        /\ label' = [label EXCEPT ![j] = Unknown]
        /\ UNCHANGED <<clock, newest, classified, createdAt>>
    BY <1>16 DEF Delete, formState
  <2>2. \A i \in Ids :
          \/ i # j /\ stage'[i] = stage[i] /\ version'[i] = version[i]
          \/ i = j /\ stage'[i] = "gone"
    BY <1>1, <2>1
  <2>3. History /\ UNCHANGED walk
    BY <1>3, <2>1
  <2>4. ReportTypeOK'
    BY <1>1, <1>2, <1>5, <2>1, <2>3
  <2>5. VersionsKnown'
    BY <1>1, <1>2, <2>1, <2>2 DEF VersionsKnown, Live
  <2>6. Surroundings
    BY <1>1, <1>2, <2>1, <2>2, <2>3 DEF Surroundings, History, Settled, Live
  <2> QED  BY <2>4, <2>5, <2>6
<1>17. ASSUME NEW j \in Ids, NEW l \in Classes, Classify(j, l)
       PROVE  Surroundings /\ ReportTypeOK' /\ VersionsKnown'
  <2>1. /\ label' = [label EXCEPT ![j] = l] /\ RowsChanged
        /\ UNCHANGED <<clock, newest, classified, stage, createdAt, version>>
    BY <1>17 DEF Classify, formState
  <2>2. History /\ UNCHANGED walk
    BY <1>3, <2>1
  <2>3. ReportTypeOK'
    BY <1>1, <1>5, <2>1, <2>2
  <2>4. VersionsKnown'
    BY <1>1, <2>1 DEF VersionsKnown
  <2>5. Surroundings
    BY <1>1, <1>2, <2>1, <2>2 DEF Surroundings, History
  <2> QED  BY <2>3, <2>4, <2>5
<1> QED  BY <1>10, <1>11, <1>12, <1>13, <1>14, <1>15, <1>16, <1>17

(* And the walks under way keep their invariants then.                     *)
LEMMA SurroundingsKeepWalks ==
  ASSUME PagingInv, ReportTypeOK', Surroundings, NEW w \in Walks
  PROVE  WalkInv(w)'
<1>1. /\ ReportTypeOK /\ WalkInv(w) /\ PagingInv
      /\ UNCHANGED <<pc, kind, filter, bound, cursor, known, routed, header, out, hidden>>
  BY DEF PagingInv, Surroundings, walk
<1>2. /\ newest \in Int /\ newest' \in Int /\ clock \in Int /\ clock' \in Int
      /\ bound[w] \in Int /\ known[w] \in Int /\ header[w] \in Int
      /\ cursor[w] \in Ids \cup {NoCursor} /\ due[w] \in SUBSET Ids /\ out[w] \in Seq(Ids)
      /\ \A i \in Ids : /\ createdAt[i] \in Int /\ createdAt'[i] \in Int
                        /\ version[i] \in Int /\ version'[i] \in Int
  BY <1>1, PagingAssumption DEF ReportTypeOK, Times, Versions
<1>3. /\ newest <= newest' /\ clock <= clock' /\ (newest' # newest => clock < clock')
      /\ classified => classified'
      /\ \A i \in Ids : stage[i] \in Settled =>
           /\ stage'[i] \in Settled /\ createdAt'[i] = createdAt[i]
           /\ stage'[i] = "committed" => version'[i] = version[i]
      /\ \A i \in Ids : stage'[i] \in Live =>
           \/ /\ stage[i] \in Live
              /\ createdAt'[i] = createdAt[i] /\ version'[i] = version[i]
           \/ /\ createdAt'[i] = clock /\ version'[i] = newest
              /\ clock' = clock /\ newest' = newest
      /\ due'[w] \subseteq due[w] /\ \A i \in due'[w] : MatchesNow(w, i)'
      /\ ~disturbed'[w] =>
           /\ ~disturbed[w]
           /\ pc[w] \in Asking /\ cursor[w] # NoCursor => MatchesNow(w, cursor[w])'
  BY DEF Surroundings
<1>4. \A i, j \in Ids : stage[i] \in Settled /\ stage[j] \in Settled =>
        (Before(w, i, j)' <=> Before(w, i, j))
  BY <1>1, <1>3 DEF Before
<1>5. WalkShape(w)'
  BY <1>1, <1>3 DEF WalkInv, WalkShape
<1>6. HandedOutInOrder(w)'
  <2>1. \A n \in DOMAIN out[w] : out[w][n] \in Ids /\ stage[out[w][n]] \in Settled
    BY <1>1, <1>2 DEF WalkInv, HandedOutInOrder
  <2> QED  BY <1>1, <1>3, <1>4, <2>1 DEF WalkInv, HandedOutInOrder
(* A row that still matches now matches what was read before, if it did.   *)
<1>7. ASSUME NEW i \in Ids, stage[i] = "committed", MatchesNow(w, i)',
             pc[w] = "read", Matches(w, i, known[w], routed[w])
      PROVE  Matches(w, i, known[w], routed[w])'
  <2>1. /\ stage'[i] = "committed" /\ createdAt'[i] <= bound'[w]
        /\ classified' => filter'[w] \in {NoFilter, label'[i]}
    BY <1>7 DEF MatchesNow, Matches
  <2>2. version'[i] = version[i]
    BY <1>3, <1>7, <2>1 DEF Settled
  <2>3. routed'[w] => classified'
    BY <1>1, <1>3, <1>7 DEF WalkInv, WalkShape
  <2>4. version[i] <= (IF kind[w] = "revision" THEN 1 ELSE known[w])
    BY <1>7 DEF Matches
  <2> QED  BY <1>1, <2>1, <2>2, <2>3, <2>4 DEF Matches
<1>8. \A i \in due[w] : i \in Ids /\ stage[i] = "committed"
  BY <1>1, <1>2 DEF WalkInv, DueMatch, MatchesNow, Matches
<1>9. DueMatch(w)'
  <2> SUFFICES ASSUME NEW i \in due'[w]
               PROVE  /\ MatchesNow(w, i)'
                      /\ pc[w] = "read" => Matches(w, i, known[w], routed[w])'
    BY <1>1 DEF DueMatch
  <2>1. i \in due[w] /\ MatchesNow(w, i)'
    BY <1>3
  <2>2. pc[w] = "read" => Matches(w, i, known[w], routed[w])
    BY <1>1, <2>1 DEF WalkInv, DueMatch
  <2> QED  BY <1>7, <1>8, <2>1, <2>2
<1>10. NothingSkippedSoFar(w)'
  <2> SUFFICES ASSUME ~disturbed'[w]
               PROVE  /\ pc[w] # "failed"
                      /\ pc[w] = "done" => due'[w] \subseteq ToSet(out[w])
                      /\ pc[w] \in Asking /\ cursor[w] # NoCursor =>
                           /\ MatchesNow(w, cursor[w])'
                           /\ pc[w] = "read" => Matches(w, cursor[w], known[w], routed[w])'
                           /\ \A i \in due'[w] : i \in ToSet(out[w]) \/ Before(w, cursor[w], i)'
    BY <1>1 DEF NothingSkippedSoFar
  <2>1. ~disturbed[w]
    BY <1>3
  <2>2. pc[w] # "failed" /\ (pc[w] = "done" => due'[w] \subseteq ToSet(out[w]))
    BY <1>1, <1>3, <2>1 DEF WalkInv, NothingSkippedSoFar
  <2>3. ASSUME pc[w] \in Asking, cursor[w] # NoCursor
        PROVE  /\ MatchesNow(w, cursor[w])'
               /\ pc[w] = "read" => Matches(w, cursor[w], known[w], routed[w])'
               /\ \A i \in due'[w] : i \in ToSet(out[w]) \/ Before(w, cursor[w], i)'
    <3>1. /\ cursor[w] \in Ids /\ MatchesNow(w, cursor[w]) /\ MatchesNow(w, cursor[w])'
          /\ pc[w] = "read" => Matches(w, cursor[w], known[w], routed[w])
          /\ \A i \in due[w] : i \in ToSet(out[w]) \/ Before(w, cursor[w], i)
      BY <1>1, <1>2, <1>3, <2>1, <2>3 DEF WalkInv, NothingSkippedSoFar
    <3>2. stage[cursor[w]] = "committed"
      BY <3>1 DEF MatchesNow, Matches
    <3>3. cursor'[w] = cursor[w]
      BY <1>1
    <3>4. pc[w] = "read" => Matches(w, cursor[w], known[w], routed[w])'
      BY <1>7, <3>1, <3>2, <3>3
    <3>5. \A i \in due'[w] : i \in ToSet(out[w]) \/ Before(w, cursor[w], i)'
      BY <1>3, <1>4, <1>8, <3>1, <3>2, <3>3 DEF Settled
    <3> QED  BY <3>1, <3>4, <3>5
  <2> QED  BY <2>2, <2>3
<1>11. ColumnsCaptured(w)'
  <2> SUFFICES ASSUME kind[w] = "export", pc[w] \in Asking
               PROVE  /\ bound[w] <= clock'
                      /\ clock' = bound[w] => newest' <= Captured(w)'
                      /\ \A i \in Ids : stage'[i] \in Live /\ createdAt'[i] <= bound[w] =>
                           version'[i] <= Captured(w)'
    BY <1>1 DEF ColumnsCaptured
  <2>1. /\ bound[w] <= clock
        /\ clock = bound[w] => newest <= Captured(w)
        /\ \A i \in Ids : stage[i] \in Live /\ createdAt[i] <= bound[w] =>
             version[i] <= Captured(w)
    BY <1>1 DEF WalkInv, ColumnsCaptured
  <2>2. /\ Captured(w) \in Int /\ Captured(w)' \in Int /\ Captured(w) <= Captured(w)'
        /\ Captured(w) = newest => Captured(w)' = newest' \/ Captured(w)' = newest
    BY <1>1, <1>2, <1>3 DEF Captured
  <2>3. bound[w] <= clock' /\ (clock' = bound[w] => clock = bound[w] /\ newest' = newest)
    BY <1>2, <1>3, <2>1
  <2>4. ASSUME NEW i \in Ids, stage'[i] \in Live, createdAt'[i] <= bound[w]
        PROVE  version'[i] <= Captured(w)'
    <3>1. CASE /\ stage[i] \in Live
               /\ createdAt'[i] = createdAt[i] /\ version'[i] = version[i]
      <4>1. version[i] <= Captured(w)
        BY <2>1, <2>4, <3>1
      <4> QED  BY <1>2, <2>2, <3>1, <4>1
    <3>2. CASE /\ createdAt'[i] = clock /\ version'[i] = newest
               /\ clock' = clock /\ newest' = newest
      <4>1. clock = bound[w]
        BY <1>2, <2>1, <2>4, <3>2
      <4> QED  BY <1>2, <2>1, <2>2, <3>2, <4>1
    <3> QED  BY <1>3, <2>4, <3>1, <3>2
  <2> QED  BY <1>2, <2>1, <2>2, <2>3, <2>4
<1>12. OnlyAppendedHidden(w)'
  BY <1>1 DEF WalkInv, OnlyAppendedHidden
<1> QED  BY <1>5, <1>6, <1>9, <1>10, <1>11, <1>12 DEF WalkInv

(* A step of one walk leaves the others as they are.                       *)
LEMMA OthersStay ==
  ASSUME PagingInv, UNCHANGED <<clock, formState, rows>>, NEW u \in Walks,
         pc'[u] = pc[u], kind'[u] = kind[u], filter'[u] = filter[u],
         bound'[u] = bound[u], cursor'[u] = cursor[u], known'[u] = known[u],
         routed'[u] = routed[u], header'[u] = header[u], out'[u] = out[u],
         hidden'[u] = hidden[u], due'[u] = due[u], disturbed'[u] = disturbed[u]
  PROVE  WalkInv(u)'
<1>1. /\ WalkInv(u)
      /\ UNCHANGED <<clock, newest, classified, stage, createdAt, version, label>>
  BY DEF PagingInv, formState, rows
<1>2. \A i, j : Before(u, i, j)' <=> Before(u, i, j)
  BY <1>1 DEF Before
<1>3. \A i : /\ MatchesNow(u, i)' <=> MatchesNow(u, i)
             /\ Matches(u, i, known[u], routed[u])' <=> Matches(u, i, known[u], routed[u])
  BY <1>1 DEF MatchesNow, Matches
<1>4. MatchesNow(u, cursor[u])' <=> MatchesNow(u, cursor[u])
  BY <1>1 DEF MatchesNow, Matches
<1>5. Matches(u, cursor[u], known[u], routed[u])' <=> Matches(u, cursor[u], known[u], routed[u])
  BY <1>1 DEF Matches
<1>6. \A i : Before(u, cursor[u], i)' <=> Before(u, cursor[u], i)
  BY <1>1 DEF Before
<1>7. WalkShape(u)'
  BY <1>1 DEF WalkInv, WalkShape
<1>8. HandedOutInOrder(u)'
  BY <1>1, <1>2 DEF WalkInv, HandedOutInOrder
<1>9. DueMatch(u)'
  BY <1>1, <1>3 DEF WalkInv, DueMatch
<1>10. NothingSkippedSoFar(u)'
  BY <1>1, <1>4, <1>5, <1>6 DEF WalkInv, NothingSkippedSoFar
<1>11. ColumnsCaptured(u)'
  BY <1>1 DEF WalkInv, ColumnsCaptured, Captured
<1>12. OnlyAppendedHidden(u)'
  BY <1>1 DEF WalkInv, OnlyAppendedHidden
<1> QED  BY <1>7, <1>8, <1>9, <1>10, <1>11, <1>12 DEF WalkInv

(* The facts about types that every step of a walk needs.                  *)
LEMMA TypesOfWalks ==
  ASSUME ReportTypeOK, NEW w \in Walks
  PROVE  /\ newest \in Versions /\ Versions \subseteq Int /\ 1 \in Versions
         /\ clock \in Times /\ Times \subseteq Int /\ MaxTime \in Times
         /\ \A i \in Ids : createdAt[i] \in Int /\ version[i] \in Versions
         /\ cursor[w] \in Ids \cup {NoCursor} /\ NoCursor \notin Ids
         /\ known[w] \in Versions /\ header[w] \in Versions /\ bound[w] \in Times
         /\ out[w] \in Seq(Ids) /\ due[w] \in SUBSET Ids
         /\ createdAt \in [Ids -> Int]
BY PagingAssumption DEF ReportTypeOK, Times, Versions

LEMMA BeginStep ==
  ASSUME PagingInv, NEW w \in Walks, NEW k \in Kinds,
         NEW f \in Classes \cup {NoFilter}, Begin(w, k, f)
  PROVE  PagingInv'
<1>1. ReportTypeOK /\ VersionsKnown /\ \A u \in Walks : WalkInv(u)
  BY DEF PagingInv
<1>2. /\ pc[w] = "idle"
      /\ pc' = [pc EXCEPT ![w] = "check"] /\ kind' = [kind EXCEPT ![w] = k]
      /\ filter' = [filter EXCEPT ![w] = f]
      /\ bound' = [bound EXCEPT ![w] = Snapshot(k)]
      /\ due' = [due EXCEPT ![w] = {i \in Ids : MatchesNow(w, i)'}]
      /\ UNCHANGED <<clock, formState, rows, cursor, known, routed, header, out,
                     hidden, disturbed>>
  BY DEF Begin
<1>3. UNCHANGED <<clock, newest, classified, stage, createdAt, version, label>>
  BY <1>2 DEF formState, rows
<1>4. Snapshot(k) \in Times
  BY <1>1, TypesOfWalks DEF Snapshot
<1>5. ReportTypeOK'
  BY <1>1, <1>2, <1>3, <1>4 DEF ReportTypeOK, Stages, Versions, Times
<1>6. VersionsKnown'
  BY <1>1, <1>3 DEF VersionsKnown
<1>7. ASSUME NEW u \in Walks, u # w PROVE WalkInv(u)'
  <2>1. /\ pc'[u] = pc[u] /\ kind'[u] = kind[u] /\ filter'[u] = filter[u]
        /\ bound'[u] = bound[u] /\ due'[u] = due[u]
    BY <1>1, <1>2, <1>7 DEF ReportTypeOK
  <2> QED  BY <1>2, <2>1, OthersStay
<1>8. /\ pc'[w] = "check" /\ kind'[w] = k /\ bound'[w] = Snapshot(k)
      /\ due'[w] = {i \in Ids : MatchesNow(w, i)'}
  BY <1>1, <1>2 DEF ReportTypeOK
<1>9. cursor'[w] = NoCursor /\ out'[w] = <<>> /\ cursor[w] = NoCursor
  BY <1>1, <1>2 DEF WalkInv, WalkShape, Asking
<1>10. WalkShape(w)'
  BY <1>8, <1>9 DEF WalkShape
<1>11. HandedOutInOrder(w)'
  <2>1. DOMAIN out'[w] = {}
    BY <1>9
  <2> QED  BY <2>1 DEF HandedOutInOrder
<1>12. DueMatch(w)'
  BY <1>8 DEF DueMatch
<1>13. NothingSkippedSoFar(w)'
  BY <1>8, <1>9 DEF NothingSkippedSoFar
<1>14. ColumnsCaptured(w)'
  <2>1. k = "export" => bound'[w] = clock
    BY <1>8 DEF Snapshot
  <2>2. Captured(w)' = newest
    BY <1>3, <1>8, <1>9 DEF Captured
  <2>3. clock \in Int /\ newest \in Int
    BY <1>1, TypesOfWalks
  <2> QED  BY <1>1, <1>3, <1>8, <2>1, <2>2, <2>3 DEF ColumnsCaptured, VersionsKnown
<1>15. OnlyAppendedHidden(w)'
  BY <1>1, <1>2 DEF WalkInv, OnlyAppendedHidden
<1>16. WalkInv(w)'
  BY <1>10, <1>11, <1>12, <1>13, <1>14, <1>15 DEF WalkInv
<1> QED  BY <1>5, <1>6, <1>7, <1>16 DEF PagingInv

LEMMA CheckStep ==
  ASSUME PagingInv, NEW w \in Walks, CheckCursor(w)
  PROVE  PagingInv'
<1>1. ReportTypeOK /\ VersionsKnown /\ \A u \in Walks : WalkInv(u)
  BY DEF PagingInv
<1>2. /\ pc[w] = "check"
      /\ UNCHANGED <<clock, formState, rows, kind, filter, bound, cursor, header,
                     out, hidden, history>>
      /\ \/ /\ cursor[w] = NoCursor \/ MatchesNow(w, cursor[w])
            /\ pc' = [pc EXCEPT ![w] = "read"]
            /\ known' = [known EXCEPT ![w] = newest]
            /\ routed' = [routed EXCEPT ![w] = classified]
         \/ /\ cursor[w] # NoCursor /\ ~MatchesNow(w, cursor[w])
            /\ pc' = [pc EXCEPT ![w] = "failed"] /\ UNCHANGED <<known, routed>>
  BY DEF CheckCursor, CursorBelongs
<1>3. UNCHANGED <<clock, newest, classified, stage, createdAt, version, label, due, disturbed>>
  BY <1>2 DEF formState, rows, history
<1>4. ReportTypeOK'
  <2>1. pc' \in [Walks -> Stages]
    BY <1>1, <1>2 DEF ReportTypeOK, Stages
  <2>2. known' \in [Walks -> Versions] /\ routed' \in [Walks -> BOOLEAN]
    <3>1. /\ known \in [Walks -> Versions] /\ routed \in [Walks -> BOOLEAN]
          /\ newest \in Versions /\ classified \in BOOLEAN
      BY <1>1 DEF ReportTypeOK
    <3>2. known' = known \/ known' = [known EXCEPT ![w] = newest]
      BY <1>2
    <3>3. routed' = routed \/ routed' = [routed EXCEPT ![w] = classified]
      BY <1>2
    <3>4. known' \in [Walks -> Versions]
      BY <3>1, <3>2
    <3>5. routed' \in [Walks -> BOOLEAN]
      BY <3>1, <3>3
    <3> QED  BY <3>4, <3>5
  <2> QED
    BY <1>1, <1>2, <1>3, <2>1, <2>2 DEF ReportTypeOK, Stages, Kinds, Versions, Times
<1>5. VersionsKnown'
  BY <1>1, <1>3 DEF VersionsKnown
<1>6. ASSUME NEW u \in Walks, u # w PROVE WalkInv(u)'
  <2>1. pc'[u] = pc[u] /\ known'[u] = known[u] /\ routed'[u] = routed[u]
    BY <1>1, <1>2, <1>6 DEF ReportTypeOK
  <2> QED  BY <1>2, <1>3, <2>1, OthersStay
<1>7. /\ WalkShape(w) /\ HandedOutInOrder(w) /\ DueMatch(w)
      /\ NothingSkippedSoFar(w) /\ ColumnsCaptured(w) /\ OnlyAppendedHidden(w)
  BY <1>1 DEF WalkInv
<1>8. /\ \A i, j : Before(w, i, j)' <=> Before(w, i, j)
      /\ \A i, r, c : Matches(w, i, r, c)' <=> Matches(w, i, r, c)
  BY <1>2, <1>3 DEF Before, Matches
<1>9. HandedOutInOrder(w)'
  BY <1>2, <1>3, <1>7, <1>8 DEF HandedOutInOrder
<1>10. OnlyAppendedHidden(w)'
  BY <1>2, <1>7 DEF OnlyAppendedHidden
<1>11. CASE pc' = [pc EXCEPT ![w] = "failed"] /\ cursor[w] # NoCursor /\ ~MatchesNow(w, cursor[w])
  <2>1. pc'[w] = "failed"
    BY <1>1, <1>11 DEF ReportTypeOK
  <2>2. disturbed[w]
    BY <1>2, <1>7, <1>11 DEF NothingSkippedSoFar, Asking
  <2>3. WalkShape(w)'
    BY <1>2, <1>7, <1>11, <2>1 DEF WalkShape
  <2>4. DueMatch(w)'
    BY <1>2, <1>3, <1>7, <2>1 DEF DueMatch, MatchesNow, Matches
  <2>5. NothingSkippedSoFar(w)' /\ ColumnsCaptured(w)'
    BY <1>3, <2>1, <2>2 DEF NothingSkippedSoFar, ColumnsCaptured, Asking
  <2>6. WalkInv(w)'
    BY <1>9, <1>10, <2>3, <2>4, <2>5 DEF WalkInv
  <2> QED  BY <1>4, <1>5, <1>6, <2>6 DEF PagingInv
<1>12. CASE /\ cursor[w] = NoCursor \/ MatchesNow(w, cursor[w])
            /\ pc' = [pc EXCEPT ![w] = "read"]
            /\ known' = [known EXCEPT ![w] = newest]
            /\ routed' = [routed EXCEPT ![w] = classified]
  <2>1. pc'[w] = "read" /\ known'[w] = newest /\ routed'[w] = classified
    BY <1>1, <1>12 DEF ReportTypeOK
  <2>2. WalkShape(w)'
    BY <1>2, <1>3, <1>7, <2>1 DEF WalkShape, Asking
  <2>3. \A i : MatchesNow(w, i) =>
           MatchesNow(w, i)' /\ Matches(w, i, known[w], routed[w])'
    BY <1>2, <1>3, <2>1 DEF MatchesNow, Matches
  <2>4. DueMatch(w)'
    BY <1>3, <1>7, <2>3 DEF DueMatch
  <2>5. NothingSkippedSoFar(w)'
    <3>1. MatchesNow(w, cursor[w]) =>
            MatchesNow(w, cursor[w])' /\ Matches(w, cursor[w], known[w], routed[w])'
      BY <1>2, <1>3, <2>1 DEF MatchesNow, Matches
    <3>2. \A i : Before(w, cursor[w], i)' <=> Before(w, cursor[w], i)
      BY <1>2, <1>3 DEF Before
    <3> QED  BY <1>2, <1>3, <1>7, <1>12, <2>1, <3>1, <3>2 DEF NothingSkippedSoFar, Asking
  <2>6. ColumnsCaptured(w)'
    <3>1. Captured(w)' = Captured(w)
      BY <1>2, <1>3, <2>1 DEF Captured
    <3> QED  BY <1>2, <1>3, <1>7, <2>1, <3>1 DEF ColumnsCaptured, Asking
  <2>7. WalkInv(w)'
    BY <1>9, <1>10, <2>2, <2>4, <2>5, <2>6 DEF WalkInv
  <2> QED  BY <1>4, <1>5, <1>6, <2>7 DEF PagingInv
<1> QED  BY <1>2, <1>11, <1>12

LEMMA CloseStep ==
  ASSUME PagingInv, NEW w \in Walks, Close(w)
  PROVE  PagingInv'
<1>1. ReportTypeOK /\ VersionsKnown /\ \A u \in Walks : WalkInv(u)
  BY DEF PagingInv
<1>2. /\ pc' = [pc EXCEPT ![w] = "idle"] /\ cursor' = [cursor EXCEPT ![w] = NoCursor]
      /\ known' = [known EXCEPT ![w] = 1] /\ routed' = [routed EXCEPT ![w] = FALSE]
      /\ header' = [header EXCEPT ![w] = 1] /\ out' = [out EXCEPT ![w] = <<>>]
      /\ hidden' = [hidden EXCEPT ![w] = {}] /\ due' = [due EXCEPT ![w] = {}]
      /\ disturbed' = [disturbed EXCEPT ![w] = FALSE]
      /\ UNCHANGED <<clock, formState, rows, kind, filter, bound>>
  BY DEF Close
<1>3. UNCHANGED <<clock, newest, classified, stage, createdAt, version, label>>
  BY <1>2 DEF formState, rows
<1>4. ReportTypeOK'
  <2>1. <<>> \in Seq(Ids) /\ 1 \in Versions
    BY <1>1, TypesOfWalks
  <2> QED  BY <1>1, <1>2, <1>3, <2>1 DEF ReportTypeOK, Stages, Versions, Times
<1>5. VersionsKnown'
  BY <1>1, <1>3 DEF VersionsKnown
<1>6. ASSUME NEW u \in Walks, u # w PROVE WalkInv(u)'
  BY <1>1, <1>2, <1>3, <1>6, OthersStay DEF ReportTypeOK
<1>7. WalkInv(w)'
  <2>1. /\ pc'[w] = "idle" /\ cursor'[w] = NoCursor /\ out'[w] = <<>>
        /\ due'[w] = {}
    BY <1>1, <1>2 DEF ReportTypeOK
  <2>2. DOMAIN out'[w] = {}
    BY <2>1
  <2>3. hidden'[w] = {}
    BY <1>1, <1>2 DEF ReportTypeOK
  <2>4. WalkShape(w)' /\ HandedOutInOrder(w)' /\ DueMatch(w)'
    BY <2>1, <2>2 DEF WalkShape, HandedOutInOrder, DueMatch
  <2>5. NothingSkippedSoFar(w)' /\ ColumnsCaptured(w)'
    BY <2>1 DEF NothingSkippedSoFar, ColumnsCaptured, Asking
  <2>6. OnlyAppendedHidden(w)'
    BY <2>3 DEF OnlyAppendedHidden
  <2> QED  BY <2>4, <2>5, <2>6 DEF WalkInv
<1> QED  BY <1>4, <1>5, <1>6, <1>7 DEF PagingInv

(* A row on a page matched what was read, and in an export it answers a    *)
(* revision whose columns were captured; what is hidden of it can only be  *)
(* under an appended column.                                               *)
LEMMA PageHidesAppended ==
  ASSUME PagingInv, NEW w \in Walks, pc[w] = "read", NEW i \in Found(w)
  PROVE  /\ FieldsOf[version[i]] \ Shown(w) \subseteq Appended
         /\ FieldsOf[version[i]] \subseteq UNION ToSet(FieldsOf)
<1>1. ReportTypeOK /\ WalkInv(w)
  BY DEF PagingInv
<1>2. /\ i \in Ids /\ stage[i] = "committed" /\ createdAt[i] <= bound[w]
      /\ version[i] <= (IF kind[w] = "revision" THEN 1 ELSE known[w])
  BY DEF Found, Matches
<1>3. /\ version[i] \in Versions /\ known[w] \in Versions /\ header[w] \in Versions
      /\ 1 \in Versions /\ Versions \subseteq Int
  BY <1>1, <1>2, TypesOfWalks
<1>4. version[i] <= Header(w) /\ Header(w) \in Versions
  <2>1. CASE kind[w] = "export" /\ cursor[w] # NoCursor
    <3>1. version[i] <= Captured(w)
      BY <1>1, <1>2, <2>1 DEF WalkInv, ColumnsCaptured, Asking, Live
    <3> QED  BY <1>3, <2>1, <3>1 DEF Header, Captured
  <2>2. CASE ~(kind[w] = "export" /\ cursor[w] # NoCursor)
    BY <1>2, <1>3, <2>2 DEF Header
  <2> QED  BY <2>1, <2>2
<1>5. version[i] \in 1 .. Header(w)
  BY <1>3, <1>4, PagingAssumption DEF Versions
<1>6. FieldsOf[version[i]] \subseteq FieldColumns(Header(w))
  BY <1>5 DEF FieldColumns
<1>7. FieldsOf[version[i]] \subseteq UNION ToSet(FieldsOf)
  BY <1>3 DEF ToSet, Versions
<1>8. Overwritten(w) \subseteq Appended
  BY DEF Overwritten
<1> QED  BY <1>6, <1>7, <1>8 DEF Shown

LEMMA ReadStep ==
  ASSUME PagingInv, NEW w \in Walks, ReadPage(w)
  PROVE  PagingInv'
<1> DEFINE rest == Remaining(w)
           page == Page(rest)
           next == NextCursor(w, rest)
           cells == UNION {{i} \X (FieldsOf[version[i]] \ Shown(w)) : i \in ToSet(page)}
<1>1. ReportTypeOK /\ VersionsKnown /\ \A u \in Walks : WalkInv(u)
  BY DEF PagingInv
<1>2. /\ pc[w] = "read"
      /\ UNCHANGED <<clock, formState, rows, kind, filter, bound, due>>
      /\ out' = [out EXCEPT ![w] = out[w] \o page]
      /\ hidden' = [hidden EXCEPT ![w] = hidden[w] \cup cells]
      /\ header' = [header EXCEPT ![w] = Header(w)]
      /\ known' = [known EXCEPT ![w] = 1]
      /\ routed' = [routed EXCEPT ![w] = FALSE]
      /\ cursor' = [cursor EXCEPT ![w] = next]
      /\ pc' = [pc EXCEPT ![w] = IF next = NoCursor THEN "done" ELSE "check"]
      /\ disturbed' = [disturbed EXCEPT ![w] =
           disturbed[w] \/ (next # NoCursor /\ ~MatchesNow(w, next))]
  BY DEF ReadPage
<1>3. UNCHANGED <<clock, newest, classified, stage, createdAt, version, label>>
  BY <1>2 DEF formState, rows
<1>4. /\ newest \in Versions /\ Versions \subseteq Int /\ 1 \in Versions
      /\ cursor[w] \in Ids \cup {NoCursor} /\ NoCursor \notin Ids
      /\ known[w] \in Versions /\ header[w] \in Versions
      /\ out[w] \in Seq(Ids) /\ due[w] \in SUBSET Ids
      /\ createdAt \in [Ids -> Int]
  BY <1>1, TypesOfWalks
<1>5. /\ rest \in Seq(Ids) /\ rest \in Seq(Found(w))
      /\ \A m, n \in 1 .. Len(rest) : m < n => Before(w, rest[m], rest[n])
      /\ cursor[w] # NoCursor =>
           \A n \in 1 .. Len(rest) : Before(w, cursor[w], rest[n])
      /\ cursor[w] \in Found(w) \cup {NoCursor} =>
           \A i \in Found(w) \ {cursor[w]} : \E n \in 1 .. Len(rest) : rest[n] = i
  BY <1>4, RestFollowsCursor
<1>6. /\ page \in Seq(Ids) /\ Len(page) <= Len(rest)
      /\ \A n \in 1 .. Len(page) : page[n] = rest[n]
      /\ next = NoCursor => Len(page) = Len(rest)
      /\ next # NoCursor =>
           /\ next \in Ids /\ Len(page) \in 1 .. Len(rest)
           /\ next = rest[Len(page)]
  BY <1>5, PageIsHead
<1> HIDE DEF rest, page, next, cells
<1>7. Len(page) \in Nat /\ Len(rest) \in Nat /\ 1 .. Len(page) \subseteq 1 .. Len(rest)
  BY <1>5, <1>6
<1>8. \A i \in ToSet(page) : i \in Found(w) /\ i \in Ids
  <2>1. \A n \in 1 .. Len(page) : page[n] \in Found(w) /\ page[n] \in Ids
    BY <1>5, <1>6, <1>7
  <2>2. DOMAIN page = 1 .. Len(page)
    BY <1>6
  <2> QED  BY <2>1, <2>2 DEF ToSet
<1>9. \A cell \in cells : cell[2] \in Appended /\ cell \in Ids \X UNION ToSet(FieldsOf)
  <2> SUFFICES ASSUME NEW i \in ToSet(page), NEW cell \in {i} \X (FieldsOf[version[i]] \ Shown(w))
               PROVE  cell[2] \in Appended /\ cell \in Ids \X UNION ToSet(FieldsOf)
    BY DEF cells
  <2>1. /\ FieldsOf[version[i]] \ Shown(w) \subseteq Appended
        /\ FieldsOf[version[i]] \subseteq UNION ToSet(FieldsOf)
    BY <1>2, <1>8, PageHidesAppended
  <2>2. i \in Ids
    BY <1>8
  <2> QED  BY <2>1, <2>2
<1>10. /\ pc'[w] = (IF next = NoCursor THEN "done" ELSE "check")
       /\ cursor'[w] = next /\ out'[w] = out[w] \o page
       /\ hidden'[w] = hidden[w] \cup cells /\ header'[w] = Header(w)
       /\ routed'[w] = FALSE
       /\ disturbed'[w] = (disturbed[w] \/ (next # NoCursor /\ ~MatchesNow(w, next)))
  BY <1>1, <1>2 DEF ReportTypeOK
<1>11. ReportTypeOK'
  <2>1. Header(w) \in Versions
    BY <1>4 DEF Header
  <2>2. out' \in [Walks -> Seq(Ids)]
    <3>1. out[w] \o page \in Seq(Ids)
      BY <1>4, <1>6
    <3> QED  BY <1>1, <1>2, <3>1 DEF ReportTypeOK
  <2>3. hidden' \in [Walks -> SUBSET (Ids \X UNION ToSet(FieldsOf))]
    <3>1. hidden[w] \cup cells \in SUBSET (Ids \X UNION ToSet(FieldsOf))
      <4>1. hidden[w] \in SUBSET (Ids \X UNION ToSet(FieldsOf))
        BY <1>1 DEF ReportTypeOK
      <4>2. cells \subseteq Ids \X UNION ToSet(FieldsOf)
        BY <1>9
      <4> QED  BY <4>1, <4>2
    <3> QED  BY <1>1, <1>2, <3>1 DEF ReportTypeOK
  <2>4. cursor' \in [Walks -> Ids \cup {NoCursor}]
    BY <1>1, <1>2, <1>6 DEF ReportTypeOK
  <2>5. disturbed' \in [Walks -> BOOLEAN]
    <3>1. disturbed[w] \in BOOLEAN /\ disturbed \in [Walks -> BOOLEAN]
      BY <1>1 DEF ReportTypeOK
    <3> QED  BY <1>2, <3>1
  <2>6. pc' \in [Walks -> Stages]
    BY <1>1, <1>2 DEF ReportTypeOK, Stages
  <2>7. /\ known' \in [Walks -> Versions] /\ header' \in [Walks -> Versions]
        /\ routed' \in [Walks -> BOOLEAN]
    BY <1>1, <1>2, <1>4, <2>1 DEF ReportTypeOK
  <2> QED
    BY <1>1, <1>2, <1>3, <2>2, <2>3, <2>4, <2>5, <2>6, <2>7 DEF ReportTypeOK
<1>12. VersionsKnown'
  BY <1>1, <1>3 DEF VersionsKnown
<1>13. ASSUME NEW u \in Walks, u # w PROVE WalkInv(u)'
  <2>1. /\ pc'[u] = pc[u] /\ cursor'[u] = cursor[u] /\ known'[u] = known[u]
        /\ routed'[u] = routed[u] /\ header'[u] = header[u] /\ out'[u] = out[u]
        /\ hidden'[u] = hidden[u] /\ disturbed'[u] = disturbed[u]
    BY <1>1, <1>2, <1>13 DEF ReportTypeOK
  <2> QED  BY <1>2, <2>1, OthersStay
<1>14. /\ WalkShape(w) /\ HandedOutInOrder(w) /\ DueMatch(w)
       /\ NothingSkippedSoFar(w) /\ ColumnsCaptured(w) /\ OnlyAppendedHidden(w)
  BY <1>1 DEF WalkInv
<1>15. /\ \A i, j : Before(w, i, j)' <=> Before(w, i, j)
       /\ \A i, r, c : Matches(w, i, r, c)' <=> Matches(w, i, r, c)
       /\ \A i : MatchesNow(w, i)' <=> MatchesNow(w, i)
  BY <1>2, <1>3 DEF Before, Matches, MatchesNow
<1> DEFINE old == out[w]
           new == out'[w]
<1>16. /\ new \in Seq(Ids) /\ Len(new) = Len(old) + Len(page)
       /\ DOMAIN new = 1 .. Len(new) /\ Len(old) \in Nat
       /\ DOMAIN old = 1 .. Len(old)
       /\ \A n \in 1 .. Len(new) :
            \/ n \in 1 .. Len(old) /\ new[n] = old[n]
            \/ /\ n > Len(old) /\ n - Len(old) \in 1 .. Len(page)
               /\ new[n] = page[n - Len(old)]
       /\ \A n \in 1 .. Len(page) : n + Len(old) \in 1 .. Len(new) /\ new[n + Len(old)] = page[n]
       /\ \A n \in 1 .. Len(old) : n \in 1 .. Len(new) /\ new[n] = old[n]
  BY <1>4, <1>6, <1>10
<1>17. ToSet(new) = ToSet(old) \cup ToSet(page)
  <2>1. DOMAIN page = 1 .. Len(page)
    BY <1>6
  <2> HIDE DEF old, new
  <2>2. ASSUME NEW x \in ToSet(new) PROVE x \in ToSet(old) \cup ToSet(page)
    <3>1. PICK n \in 1 .. Len(new) : x = new[n]
      BY <1>16 DEF ToSet
    <3> QED  BY <1>16, <2>1, <3>1 DEF ToSet
  <2>3. ASSUME NEW x \in ToSet(old) PROVE x \in ToSet(new)
    <3>1. PICK n \in 1 .. Len(old) : x = old[n]
      BY <1>16 DEF ToSet
    <3> QED  BY <1>16, <3>1 DEF ToSet
  <2>4. ASSUME NEW x \in ToSet(page) PROVE x \in ToSet(new)
    <3>1. PICK n \in 1 .. Len(page) : x = page[n]
      BY <2>1 DEF ToSet
    <3>2. n + Len(old) \in DOMAIN new /\ new[n + Len(old)] = x
      BY <1>16, <3>1
    <3> QED  BY <3>2 DEF ToSet
  <2> QED  BY <2>2, <2>3, <2>4
<1>18. WalkShape(w)'
  <2>1. next # NoCursor => new # <<>> /\ next = new[Len(new)]
    <3> SUFFICES ASSUME next # NoCursor PROVE new # <<>> /\ next = new[Len(new)]
      OBVIOUS
    <3>1. Len(page) \in 1 .. Len(page) /\ next = page[Len(page)]
      BY <1>6, <1>7
    <3> HIDE DEF old, new
    <3>2. next = new[Len(page) + Len(old)] /\ Len(new) \in Nat /\ Len(new) # 0
      BY <1>16, <3>1
    <3> QED  BY <1>7, <1>16, <3>2
  <2> QED  BY <1>10, <2>1 DEF WalkShape, Asking
<1>19. HandedOutInOrder(w)'
  <2>1. \A n \in 1 .. Len(page) : stage[page[n]] = "committed" /\ page[n] \in Ids
    <3>1. \A i \in Found(w) : stage[i] = "committed"
      BY DEF Found, Matches
    <3>2. \A n \in 1 .. Len(page) : page[n] \in Found(w) /\ page[n] \in Ids
      BY <1>5, <1>6, <1>7
    <3> QED  BY <3>1, <3>2
  <2>2. \A n \in 1 .. Len(old) : old[n] \in Ids /\ stage[old[n]] \in Settled
    BY <1>4, <1>14, <1>16 DEF HandedOutInOrder
  <2>3. ASSUME NEW m \in 1 .. Len(new), NEW n \in 1 .. Len(new), m < n
        PROVE  Before(w, new[m], new[n])
    <3>1. CASE n \in 1 .. Len(old) /\ new[n] = old[n]
      <4>1. m \in 1 .. Len(old) /\ new[m] = old[m]
        BY <1>16, <2>3, <3>1
      <4> QED  BY <1>14, <1>16, <2>3, <3>1, <4>1 DEF HandedOutInOrder
    <3>2. CASE /\ m > Len(old) /\ m - Len(old) \in 1 .. Len(page)
               /\ new[m] = page[m - Len(old)]
      <4>1. n - Len(old) \in 1 .. Len(page) /\ new[n] = page[n - Len(old)]
        BY <1>16, <2>3, <3>2
      <4>2. m - Len(old) < n - Len(old)
        BY <1>16, <2>3
      <4>3. Before(w, rest[m - Len(old)], rest[n - Len(old)])
        BY <1>5, <1>7, <3>2, <4>1, <4>2
      <4> QED  BY <1>6, <3>2, <4>1, <4>3
    <3>3. CASE /\ m \in 1 .. Len(old) /\ new[m] = old[m]
               /\ n - Len(old) \in 1 .. Len(page) /\ new[n] = page[n - Len(old)]
      <4>1. cursor[w] # NoCursor
        BY <1>2, <1>14, <3>3 DEF WalkShape
      <4>2. cursor[w] \in Ids /\ cursor[w] = old[Len(old)]
        BY <1>4, <1>14, <4>1 DEF WalkShape
      <4>3. new[m] = cursor[w] \/ Before(w, new[m], cursor[w])
        <5>1. m = Len(old) \/ (m < Len(old) /\ Len(old) \in 1 .. Len(old))
          BY <1>16, <3>3
        <5>2. m < Len(old) => Before(w, old[m], old[Len(old)])
          BY <1>14, <1>16, <3>3, <5>1 DEF HandedOutInOrder
        <5> QED  BY <3>3, <4>2, <5>1, <5>2
      <4>4. Before(w, cursor[w], new[n]) /\ new[n] \in Ids
        BY <1>5, <1>6, <1>7, <2>1, <3>3, <4>1
      <4>5. new[m] \in Ids
        BY <2>2, <3>3
      <4> QED  BY <1>4, <4>2, <4>3, <4>4, <4>5, OrderIsTotal
    <3> QED  BY <1>16, <3>1, <3>2, <3>3
  <2>4. ASSUME NEW n \in DOMAIN new PROVE stage[new[n]] \in Settled
    <3>1. CASE n \in 1 .. Len(old) /\ new[n] = old[n]
      BY <2>2, <3>1
    <3>2. CASE n - Len(old) \in 1 .. Len(page) /\ new[n] = page[n - Len(old)]
      BY <2>1, <3>2 DEF Settled
    <3> QED  BY <1>16, <2>4, <3>1, <3>2
  <2> QED  BY <1>3, <1>15, <1>16, <2>3, <2>4 DEF HandedOutInOrder
<1>20. DueMatch(w)'
  <2>1. pc'[w] # "read" /\ due'[w] = due[w]
    BY <1>2, <1>10
  <2>2. \A i \in due[w] : MatchesNow(w, i)
    BY <1>14 DEF DueMatch
  <2> QED  BY <1>15, <2>1, <2>2 DEF DueMatch
<1>21. NothingSkippedSoFar(w)'
  <2> SUFFICES ASSUME ~disturbed'[w]
               PROVE  /\ next = NoCursor => due[w] \subseteq ToSet(new)
                      /\ next # NoCursor =>
                           /\ MatchesNow(w, next)
                           /\ \A i \in due[w] : i \in ToSet(new) \/ Before(w, next, i)
    <3>1. MatchesNow(w, cursor[w])' <=> MatchesNow(w, next)
      BY <1>2, <1>3, <1>10 DEF MatchesNow, Matches
    <3>2. \A i : Before(w, cursor[w], i)' <=> Before(w, next, i)
      BY <1>2, <1>3, <1>10 DEF Before
    <3>3. /\ pc'[w] # "failed" /\ pc'[w] # "read"
          /\ pc'[w] = "done" <=> next = NoCursor
          /\ due'[w] = due[w] /\ cursor'[w] = next
      BY <1>2, <1>10
    <3> HIDE DEF new
    <3> QED
      <4>1. ToSet(new) = ToSet(out[w])'
        BY DEF new
      <4> QED  BY <3>1, <3>2, <3>3, <4>1 DEF NothingSkippedSoFar
  <2>1. ~disturbed[w] /\ (next # NoCursor => MatchesNow(w, next))
    BY <1>10
  <2>2. cursor[w] # NoCursor =>
          /\ Matches(w, cursor[w], known[w], routed[w])
          /\ \A i \in due[w] : i \in ToSet(old) \/ Before(w, cursor[w], i)
    BY <1>2, <1>14, <2>1 DEF NothingSkippedSoFar, Asking
  <2>3. cursor[w] \in Found(w) \cup {NoCursor}
    <3> SUFFICES ASSUME cursor[w] # NoCursor PROVE cursor[w] \in Found(w)
      OBVIOUS
    <3>1. cursor[w] \in Ids /\ stage[cursor[w]] = "committed"
      BY <1>4, <2>2 DEF Matches
    <3>2. ~Before(w, cursor[w], cursor[w])
      BY <1>4, <3>1, OrderIsTotal
    <3> QED  BY <2>2, <3>1, <3>2 DEF Found
  <2>4. ASSUME NEW i \in due[w], i \notin ToSet(old)
        PROVE  \E n \in 1 .. Len(rest) : rest[n] = i
    <3>1. i \in Ids /\ Matches(w, i, known[w], routed[w])
      BY <1>2, <1>4, <1>14 DEF DueMatch
    <3>2. cursor[w] # NoCursor =>
            /\ cursor[w] \in Ids /\ stage[cursor[w]] = "committed"
            /\ Before(w, cursor[w], i)
      BY <1>4, <2>2, <2>4 DEF Matches
    <3>3. cursor[w] # NoCursor => ~Before(w, i, cursor[w]) /\ i # cursor[w]
      BY <1>4, <3>1, <3>2, OrderIsTotal
    <3>4. i \in Found(w) /\ i # cursor[w]
      BY <1>4, <3>1, <3>2, <3>3 DEF Found
    <3> QED  BY <1>5, <2>3, <3>4
  <2>5. ASSUME NEW i \in due[w], i \notin ToSet(new)
        PROVE  next # NoCursor /\ Before(w, next, i)
    <3>1. PICK n \in 1 .. Len(rest) : rest[n] = i
      BY <1>17, <2>4, <2>5
    <3>2. n \notin 1 .. Len(page)
      <4>1. DOMAIN page = 1 .. Len(page)
        BY <1>6
      <4>2. n \in 1 .. Len(page) => i \in ToSet(page)
        BY <1>6, <3>1, <4>1 DEF ToSet
      <4> QED  BY <1>17, <2>5, <4>2
    <3>3. next # NoCursor
      BY <1>6, <3>1, <3>2
    <3>4. Len(page) < n
      BY <1>7, <3>1, <3>2
    <3>5. Before(w, rest[Len(page)], rest[n])
      BY <1>5, <1>6, <3>1, <3>3, <3>4
    <3> QED  BY <1>6, <3>1, <3>3, <3>5
  <2> QED  BY <2>1, <2>5
<1>22. ColumnsCaptured(w)'
  <2> SUFFICES ASSUME next # NoCursor, kind[w] = "export"
               PROVE  /\ bound[w] <= clock
                      /\ clock = bound[w] => newest <= Captured(w)'
                      /\ \A i \in Ids : stage[i] \in Live /\ createdAt[i] <= bound[w] =>
                           version[i] <= Captured(w)'
    BY <1>2, <1>3, <1>10 DEF ColumnsCaptured, Asking
  <2>1. Captured(w)' = Captured(w)
    BY <1>2, <1>10 DEF Captured, Header
  <2> QED  BY <1>2, <1>14, <2>1 DEF ColumnsCaptured, Asking
<1>23. OnlyAppendedHidden(w)'
  BY <1>9, <1>10, <1>14 DEF OnlyAppendedHidden
<1>24. WalkInv(w)'
  BY <1>18, <1>19, <1>20, <1>21, <1>22, <1>23 DEF WalkInv
<1> QED  BY <1>11, <1>12, <1>13, <1>24 DEF PagingInv

LEMMA PagingStep == PagingInv /\ [PagingNext]_pagingVars => PagingInv'
<1> SUFFICES ASSUME PagingInv, [PagingNext]_pagingVars PROVE PagingInv'
  OBVIOUS
<1>1. ASSUME \/ Tick \/ Publish \/ AddFlow
             \/ \E i \in Ids : Insert(i) \/ CommitInsert(i) \/ RollBackInsert(i) \/ Delete(i)
             \/ \E i \in Ids, l \in Classes : Classify(i, l)
      PROVE  PagingInv'
  <2>1. Surroundings /\ ReportTypeOK' /\ VersionsKnown'
    BY <1>1, StepsAround
  <2>2. \A w \in Walks : WalkInv(w)'
    BY <2>1, SurroundingsKeepWalks
  <2> QED  BY <2>1, <2>2 DEF PagingInv
<1>2. CASE UNCHANGED pagingVars
  <2>1. /\ UNCHANGED <<clock, formState, rows, pc, kind, filter, bound, cursor, known>>
        /\ UNCHANGED <<routed, header, out, hidden, due, disturbed>>
    BY <1>2 DEF pagingVars, walk, history
  <2>2. \A w \in Walks : WalkInv(w)'
    BY <2>1, OthersStay
  <2>3. ReportTypeOK' /\ VersionsKnown'
    BY <2>1 DEF PagingInv, ReportTypeOK, VersionsKnown, formState, rows
  <2> QED  BY <2>2, <2>3 DEF PagingInv
<1>3. CASE \E w \in Walks, k \in Kinds, f \in Classes \cup {NoFilter} : Begin(w, k, f)
  BY <1>3, BeginStep
<1>4. CASE \E w \in Walks : CheckCursor(w)
  BY <1>4, CheckStep
<1>5. CASE \E w \in Walks : ReadPage(w)
  BY <1>5, ReadStep
<1>6. CASE \E w \in Walks : Close(w)
  BY <1>6, CloseStep
<1> QED  BY <1>1, <1>2, <1>3, <1>4, <1>5, <1>6 DEF PagingNext

LEMMA PagingHolds == PagingSpec => []PagingInv
<1>1. PagingInit => PagingInv
  <2> SUFFICES ASSUME PagingInit PROVE PagingInv
    OBVIOUS
  <2>1. ReportTypeOK
    <3>1. 1 \in Versions /\ 0 \in Times /\ MaxTime \in Times /\ Unknown \in Classes
      BY PagingAssumption DEF Versions, Times
    <3>2. <<>> \in Seq(Ids)
      OBVIOUS
    <3> QED  BY <3>1, <3>2 DEF PagingInit, ReportTypeOK, Stages, Kinds
  <2>2. VersionsKnown
    BY DEF PagingInit, VersionsKnown, Live
  <2>3. ASSUME NEW w \in Walks PROVE WalkInv(w)
    <3>1. /\ pc[w] = "idle" /\ cursor[w] = NoCursor /\ out[w] = <<>>
          /\ due[w] = {} /\ hidden[w] = {} /\ routed[w] = FALSE
      BY <2>3 DEF PagingInit
    <3>2. DOMAIN out[w] = {}
      BY <3>1
    <3>3. WalkShape(w) /\ HandedOutInOrder(w) /\ DueMatch(w) /\ OnlyAppendedHidden(w)
      BY <3>1, <3>2 DEF WalkShape, HandedOutInOrder, DueMatch, OnlyAppendedHidden
    <3>4. NothingSkippedSoFar(w) /\ ColumnsCaptured(w)
      BY <3>1 DEF NothingSkippedSoFar, ColumnsCaptured, Asking
    <3> QED  BY <3>3, <3>4 DEF WalkInv
  <2> QED  BY <2>1, <2>2, <2>3 DEF PagingInv
<1> QED  BY <1>1, PagingStep, PTL DEF PagingSpec

(* Rows, walks, headers and histories stay well-typed.                     *)
THEOREM ReportTypesHold == PagingSpec => []ReportTypeOK
BY PagingHolds, PTL DEF PagingInv

(* For any number of rows, walks and revisions and any size of pages: a    *)
(* walk hands rows out in strict report order, whatever commits, vanishes  *)
(* or changes its label between its pages.                                 *)
THEOREM WalksKeepOrder == PagingSpec => []RowsInOrder
<1>1. PagingInv => RowsInOrder
  BY DEF PagingInv, WalkInv, HandedOutInOrder, RowsInOrder
<1> QED  BY <1>1, PagingHolds, PTL

(* A walk that keeps its cursor is never refused it, and has handed out    *)
(* every row that matched all along when it ends.                          *)
THEOREM WalksSkipNothing == PagingSpec => []NothingSkipped
<1>1. PagingInv => NothingSkipped
  BY DEF PagingInv, WalkInv, NothingSkippedSoFar, NothingSkipped
<1> QED  BY <1>1, PagingHolds, PTL

(* No row of any page answers a field without a column, but for answers    *)
(* under the names of appended columns.                                    *)
THEOREM AnswersKeepColumns == PagingSpec => []AnswersHaveColumns
<1>1. PagingInv => AnswersHaveColumns
  BY DEF PagingInv, WalkInv, OnlyAppendedHidden, AnswersHaveColumns
<1> QED  BY <1>1, PagingHolds, PTL
-----------------------------------------------------------------------------
(* What is left of the promise that following nextCursor ends, once the    *)
(* scheduling is taken away: a walk hands out no more rows than there are  *)
(* ids, however many arrive or vanish meanwhile...                         *)
HandsOutAtMostOnce == \A w \in Walks : Len(out[w]) <= Cardinality(Ids)

(* ...and a page that announces another one is full.                       *)
PageIsFull(w) ==
  pc[w] = "read" /\ pc'[w] = "check" => Len(out'[w]) = Len(out[w]) + Limit

(* The rows handed out are in strict report order, hence all different:    *)
(* the cursor walk of reportForm, exportForm and report repeats none.      *)
THEOREM WalksAreBounded == PagingSpec => []HandsOutAtMostOnce
<1>1. PagingInv => HandsOutAtMostOnce
  <2> SUFFICES ASSUME PagingInv, NEW w \in Walks
               PROVE  Len(out[w]) <= Cardinality(Ids)
    BY DEF HandsOutAtMostOnce
  <2> DEFINE s == out[w]
             N == 1 .. Len(s)
  <2>1. /\ s \in Seq(Ids) /\ createdAt \in [Ids -> Int]
    BY TypesOfWalks DEF PagingInv
  <2>2. Len(s) \in Nat /\ DOMAIN s = N /\ s \in [N -> Ids]
    BY <2>1
  <2>3. ASSUME NEW m \in N, NEW n \in N, m # n PROVE s[m] # s[n]
    <3>1. s[m] \in Ids /\ s[n] \in Ids
      BY <2>2
    <3>2. \A a, b \in N : a < b => Before(w, s[a], s[b])
      BY <2>2 DEF PagingInv, WalkInv, HandedOutInOrder
    <3>3. m < n \/ n < m
      BY <2>2, <2>3
    <3>4. ~Before(w, s[m], s[m])
      BY <2>1, <3>1, OrderIsTotal
    <3> QED  BY <3>2, <3>3, <3>4
  <2>4. s \in Injection(N, Ids)
    BY <2>2, <2>3 DEF Injection, IsInjective
  <2>5. Cardinality(N) <= Cardinality(Ids)
    BY <2>4, PagingAssumption, FS_Injection
  <2>6. Cardinality(N) = Len(s)
    BY <2>2, FS_Interval
  <2> QED  BY <2>5, <2>6
<1> QED  BY <1>1, PagingHolds, PTL

(* No page announces another one without having handed out Limit rows, so  *)
(* that a walk reads at most Cardinality(Ids) \div Limit + 1 pages.        *)
THEOREM PagesAreFull == PagingSpec => [][\A w \in Walks : PageIsFull(w)]_pagingVars
<1>1. PagingInv /\ [PagingNext]_pagingVars =>
        [\A w \in Walks : PageIsFull(w)]_pagingVars
  <2> SUFFICES ASSUME PagingInv, PagingNext, NEW w \in Walks,
                      pc[w] = "read", pc'[w] = "check"
               PROVE  Len(out'[w]) = Len(out[w]) + Limit
    BY DEF PageIsFull
  <2>1. /\ pc \in [Walks -> Stages] /\ out \in [Walks -> Seq(Ids)]
        /\ cursor[w] \in Ids \cup {NoCursor} /\ createdAt \in [Ids -> Int]
    BY TypesOfWalks DEF PagingInv, ReportTypeOK
  <2>2. ASSUME UNCHANGED walk PROVE FALSE
    BY <2>2 DEF walk
  <2>3. ~(Tick \/ Publish \/ AddFlow)
    BY <2>2 DEF Tick, Publish, AddFlow, RowsChanged
  <2>4. \A i \in Ids :
          ~(Insert(i) \/ CommitInsert(i) \/ RollBackInsert(i) \/ Delete(i))
    BY <2>2 DEF Insert, CommitInsert, RollBackInsert, Delete, RowsChanged
  <2>5. \A i \in Ids, l \in Classes : ~Classify(i, l)
    BY <2>2 DEF Classify, RowsChanged
  <2>6. ASSUME NEW u \in Walks,
               \/ \E k \in Kinds, f \in Classes \cup {NoFilter} : Begin(u, k, f)
               \/ CheckCursor(u) \/ Close(u)
        PROVE  FALSE
    BY <2>1, <2>6 DEF Begin, CheckCursor, Close
  <2>7. PICK u \in Walks : ReadPage(u)
    BY <2>3, <2>4, <2>5, <2>6 DEF PagingNext
  <2>8. u = w
    BY <2>1, <2>7 DEF ReadPage
  <2> DEFINE rest == Remaining(w)
             page == Page(rest)
  <2>9. /\ out'[w] = out[w] \o page /\ NextCursor(w, rest) # NoCursor
    BY <2>1, <2>7, <2>8 DEF ReadPage
  <2>10. rest \in Seq(Ids)
    BY <2>1, RestFollowsCursor
  <2> HIDE DEF rest
  <2>11. Len(rest) > Limit
    BY <2>9 DEF NextCursor
  <2>12. page = SubSeq(rest, 1, Limit) /\ Limit \in 1 .. Len(rest)
    BY <2>10, <2>11, PagingAssumption DEF Page
  <2>13. page \in Seq(Ids) /\ Len(page) = Limit
    BY <2>10, <2>12, PagingAssumption
  <2> HIDE DEF page
  <2>14. out[w] \in Seq(Ids) /\ Limit \in Nat
    BY <2>1, PagingAssumption
  <2>15. Len(out[w] \o page) = Len(out[w]) + Limit
    BY <2>13, <2>14
  <2> QED  BY <2>9, <2>15
<1> QED  BY <1>1, PagingHolds, PTL DEF PagingSpec
=============================================================================
