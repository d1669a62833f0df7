-------------------------------- MODULE CsvText --------------------------------
(***************************************************************************)
(* What the CSV exporters of PanelActions share (src/unnamed/part_001):   *)
(* the text the template literals and String() give a cell value,         *)
(* Array.prototype.join, the quote doubling of their escaping, and         *)
(* new Date(ms).toISOString() with the order Object.keys(...).sort() puts  *)
(* ISO strings in; and, as the reference the files are checked against, a  *)
(* CSV reader.  Strings are TLA+ strings, handled as sequences of          *)
(* characters.                                                             *)
(***************************************************************************)
EXTENDS QueryClassifier, SequencesExt

QUOTE == "\""
COMMA == ","
NL == "\n"

\* the characters of a string, as a sequence of one-character strings
Chars(s) == [i \in 1..Len(s) |-> SubSeq(s, i, i)]
\* parts.join(sep)
Join(parts, sep) ==
  IF parts = <<>> THEN ""
  ELSE FoldLeft(LAMBDA acc, p : acc \o sep \o p, Head(parts), Tail(parts))
\* each line followed by \n, as the += `...\n` of the serializers
Lines(ls) == FoldLeft(LAMBDA acc, l : acc \o l \o NL, "", ls)

\* String(v) and `${v}` for the values that occur as cells (integers,
\* strings, null and undefined; no arrays or objects)
DIGITS == "0123456789"
NatText[n \in Nat] ==
  IF n < 10 THEN SubSeq(DIGITS, n + 1, n + 1)
  ELSE NatText[n \div 10] \o SubSeq(DIGITS, (n % 10) + 1, (n % 10) + 1)
ToText(v) ==
  CASE v.t = "string"    -> v.s
    [] v.t = "number"    -> IF v.n < 0 THEN "-" \o NatText[-v.n] ELSE NatText[v.n]
    [] v.t = "null"      -> "null"
    [] v.t = "undefined" -> "undefined"
    [] OTHER             -> "[object Object]"

\* s.replace(/"/g, '""')
DoubleQuotes(s) ==
  FoldLeft(LAMBDA acc, c : acc \o (IF c = QUOTE THEN QUOTE \o QUOTE ELSE c), "", Chars(s))

-----------------------------------------------------------------------------
(***************************************************************************)
(* Timestamps are counted in units of 1e7 ms, so that 1e10 and the range   *)
(* of a Date fit TLC's integers.  A row is keyed by the ISO string of its  *)
(* instant, represented by the instant and whether the year is past 9999, *)
(* where toISOString writes "+YYYYYY" and the string sorts before every   *)
(* 4-digit year.                                                           *)
(***************************************************************************)
MAX_TIME_MS == 864000000     \* 8.64e15 ms: a larger Date is invalid
YEAR_10000_MS == 25340231    \* 253402300800000 ms, rounded up to the unit

\* new Date(ms).toISOString(): a RangeError past the range of Date
IsoOf(ms) ==
  IF ms > MAX_TIME_MS THEN [kind |-> "throw"]
  ELSE [kind |-> "time", key |-> [plus |-> ms >= YEAR_10000_MS, ms |-> ms]]
\* Object.keys(result).sort(): code-unit order of the ISO strings
IsoBefore(a, b) == IF a.plus # b.plus THEN a.plus ELSE a.ms < b.ms

-----------------------------------------------------------------------------
(***************************************************************************)
(* Reference: a CSV reader as RFC 4180 describes it, which also skips the  *)
(* lines that start with '#' (the comment convention the export uses).     *)
(* A record is a sequence of field texts.                                  *)
(***************************************************************************)
ReadStep(st, c) ==
  LET endField == Append(st.rec, st.field)
  IN  CASE st.mode = "bol" /\ c = "#"           -> [st EXCEPT !.mode = "comment"]
        [] st.mode = "comment"                  -> IF c = NL THEN [st EXCEPT !.mode = "bol"] ELSE st
        [] st.mode \in {"bol", "field"} /\ c = QUOTE -> [st EXCEPT !.mode = "quoted"]
        [] st.mode \in {"bol", "field", "plain", "closed"} /\ c = COMMA ->
             [st EXCEPT !.rec = endField, !.field = "", !.mode = "field"]
        [] st.mode \in {"bol", "field", "plain", "closed"} /\ c = NL ->
             [recs |-> Append(st.recs, endField), rec |-> <<>>, field |-> "", mode |-> "bol"]
        [] st.mode = "quoted" /\ c = QUOTE      -> [st EXCEPT !.mode = "closed"]
        [] st.mode = "closed" /\ c = QUOTE      -> [st EXCEPT !.field = @ \o QUOTE, !.mode = "quoted"]
        [] st.mode = "quoted"                   -> [st EXCEPT !.field = @ \o c]
        [] OTHER                                -> [st EXCEPT !.field = @ \o c, !.mode = "plain"]
\* the first line that is not a comment: the reader skips the leading
\* comment block at once and scans the rest character by character
DataStart(text) ==
  LET starts == {i \in 1..Len(text) : /\ i = 1 \/ SubSeq(text, i - 1, i - 1) = NL
                                      /\ SubSeq(text, i, i) # "#"}
  IN  IF starts = {} THEN Len(text) + 1 ELSE Min(starts)
ReadCsv(text) ==
  LET data == SubSeq(text, DataStart(text), Len(text))
      scan[i \in 0..Len(data)] ==
        IF i = 0 THEN [recs |-> <<>>, rec |-> <<>>, field |-> "", mode |-> "bol"]
        ELSE ReadStep(scan[i - 1], SubSeq(data, i, i))
  IN  scan[Len(data)].recs

=============================================================================
