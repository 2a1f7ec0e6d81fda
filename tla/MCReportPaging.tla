--------------------------- MODULE MCReportPaging ---------------------------
(* Three submissions stamped in two milliseconds, so that two of them tie, *)
(* walked one row at a time; the second revision replaces the field of the *)
(* first and has another one named like an appended column.                *)
EXTENDS ReportPaging

CONSTANTS sales, spam, email, topic, classification

MCFieldsOf == <<{email}, {topic, classification}>>
MCAppended == {classification}
MCClasses == {sales, spam}
=============================================================================
