----------------------------- MODULE MCAnswers -----------------------------
(* Two-bit signed integers, decimals in halves up to 3, labels of one      *)
(* character, texts of up to three.  The heart is a character that comes   *)
(* with a selector: one for the pipe, two for the column.  Every draft     *)
(* differs from a sound one in one respect or holds two fields; answers    *)
(* come alone, in pairs or under an unknown key.                           *)
EXTENDS Answers, TLC

MCStrings ==
  {"", " ", "tab", "nul", "a", "abc", "abcd", "a@b", "-3", "-0.5", "0", "-0",
   "0.5", "0.50", "1", "1.5", "2", "9", "2026-03-02", "2026-02-30", "2026-13-01",
   "red", "blue", "f", "g", "form_version", "F", "heart"}
MCBlank == {"", " ", "tab"}
MCSpaces == {"", " "}
MCWithNul == {"nul"}
MCEmails == {"a@b"}
MCSafeKeys == {"red", "blue", "f", "g", "form_version"}
MCReservedKeys == {"form_version"}
MCLength ==
  [s \in MCStrings |->
    CASE s = "" -> 0 [] s \in {" ", "tab", "nul", "a", "f", "g", "F"} -> 1
      [] s = "heart" -> 2 [] s = "abcd" -> 4 [] OTHER -> 3]
MCPipeLength == [MCLength EXCEPT !["heart"] = 1]
MCNumber ==
  "-3" :> -6 @@ "-0.5" :> -1 @@ "0" :> 0 @@ "-0" :> 0 @@ "0.5" :> 1 @@ "0.50" :> 1
    @@ "1" :> 2 @@ "1.5" :> 3 @@ "2" :> 4 @@ "9" :> 18
MCIsoDate ==
  "2026-03-02" :> "2026-03-02" @@ "2026-02-30" :> "2026-03-02"
    @@ "2026-13-01" :> Null
MCMinInteger == -4

Typed(type) ==
  [key |-> "f", label |-> "a", type |-> type, required |-> TRUE, maxLength |-> Null,
   minValue |-> Null, maxValue |-> Null, options |-> <<>>]
Optional(f) == [f EXCEPT !.required = FALSE]
Within(f, m, n) == [f EXCEPT !.minValue = m, !.maxValue = n]
Limited(f, n) == [f EXCEPT !.maxLength = n]
Choice(type, labels) ==
  [Typed(type) EXCEPT !.options = [i \in DOMAIN labels |->
     [key |-> <<"red", "blue">>[i], label |-> labels[i]]]]
Both(f, g) == <<f, [g EXCEPT !.key = "g"]>>

Text == Typed("TEXT")
Integer == Typed("INTEGER")
Decimal == Typed("DECIMAL")
Single == Choice("SINGLE_SELECT", <<"a", "a">>)
Multi == Choice("MULTI_SELECT", <<"a", "a">>)

SoundFields ==
  {Typed("TEXTAREA"), Limited(Text, 1), Optional(Text), Typed("EMAIL"), Integer,
   Within(Integer, "0", "1"), Within(Integer, Null, "-0"), Optional(Integer), Decimal,
   Within(Decimal, "0.5", "1.5"), Within(Decimal, "0.50", "1.5"),
   Within(Decimal, "-3", "0"), Typed("BOOLEAN"), Optional(Typed("BOOLEAN")),
   Typed("DATE"), Single, Multi, Optional(Multi)}
DoubtfulFields ==
  {[Text EXCEPT !.key = "F"], [Text EXCEPT !.key = "form_version"],
   [Text EXCEPT !.label = " "], [Text EXCEPT !.label = "nul"],
   [Text EXCEPT !.label = "abc"], Limited(Text, 0), Limited(Text, 4),
   Limited(Integer, 1), Within(Text, "0", Null), Within(Decimal, "1", "0"),
   Within(Decimal, "9", Null), Within(Decimal, "a", Null),
   Within(Integer, "0.5", "0.5"), Within(Integer, "2", Null),
   Typed("SINGLE_SELECT"), [Text EXCEPT !.options = Multi.options],
   [Text EXCEPT !.label = "heart"], Choice("SINGLE_SELECT", <<"a", "heart">>),
   Choice("MULTI_SELECT", <<"a", " ">>), Choice("MULTI_SELECT", <<"nul">>),
   [Multi EXCEPT !.options[2].key = "red"]}
MCDrafts ==
  {<<f>> : f \in SoundFields \cup DoubtfulFields} \cup
  {<<Text, Text>>, Both(Text, Optional(Multi)), Both(Optional(Decimal), Integer)}

Texts == [string : MCStrings \ {"red", "blue", "f", "g", "form_version", "F"}]
Numbers == [number : {-6, -4, 0, 1, 2, 4}]
Arrays ==
  [array : {<<>>} \cup {<<x>> : x \in {[string |-> "red"], [string |-> "a"], [number |-> 2]}}
     \cup {<<[string |-> x], [string |-> y]>> : x, y \in {"red", "blue"}}]
MCValues ==
  {Null, [string |-> "red"]} \cup Texts \cup Numbers \cup [boolean : BOOLEAN] \cup Arrays
Few ==
  {Null, [string |-> "a"], [string |-> "0.5"], [string |-> "0.50"], [number |-> 0]}
    \cup [array : {<<[string |-> "red"], [string |-> "blue"]>>,
                   <<[string |-> "blue"], [string |-> "red"]>>, <<>>}]
MCRequests ==
  {<<>>} \cup {"f" :> v : v \in MCValues} \cup {"F" :> [string |-> "a"]}
  \cup {"f" :> v @@ "g" :> w : v, w \in Few}
=============================================================================
