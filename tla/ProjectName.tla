----------------------------- MODULE ProjectName -----------------------------
(***************************************************************************)
(* getProjectName of Panel (src/ui/dashboards/src/components/Panel/        *)
(* Panel.tsx:59-146): the explicit prop, nine property paths of the panel *)
(* definition, the first part of a separated metadata.name, six patterns  *)
(* of the URL path, two query parameters and a pattern of the hash, in     *)
(* that order.  The patterns are written as what the regular expressions   *)
(* match (leftmost match, greedy runs); decodeURIComponent is written as   *)
(* ECMA-262 Decode: a malformed escape or an escaped byte sequence that is *)
(* not UTF-8 raises a URIError.  window.location is the record loc with    *)
(* the pathname and the hash as strings and URLSearchParams.get as the     *)
(* field query (the browser's parsing of the search string is not code of  *)
(* this repository).                                                        *)
(*                                                                         *)
(* A project name is the sequence of its characters, each [ch |-> c], with  *)
(* the bytes of a decoded escape beyond printable ASCII kept as            *)
(* [byte |-> b], so that names from every source compare as JavaScript    *)
(* strings do.  No operator here is recursive.                             *)
(***************************************************************************)
EXTENDS QueryClassifier

Ch(s, i) == SubSeq(s, i, i)
FirstOf(S) == CHOOSE i \in S : \A j \in S : i <= j
LastOf(S) == CHOOSE i \in S : \A j \in S : j <= i

\* a JavaScript string of the code, as a project name
Text(s) == [i \in 1..Len(s) |-> [ch |-> Ch(s, i)]]
Name(t) == [kind |-> "name", name |-> t]
NoName == [kind |-> "undefined"]
URIError == [kind |-> "throw"]

\* String.prototype.trim, for the white space that occurs in names
WhiteSpace == {" ", "\t", "\n"}
Trim(s) ==
  LET inner == {i \in 1..Len(s) : Ch(s, i) \notin WhiteSpace}
  IN  IF inner = {} THEN "" ELSE SubSeq(s, FirstOf(inner), LastOf(inner))

-----------------------------------------------------------------------------
(***************************************************************************)
(* decodeURIComponent.  Every '%' must start two hex digits; an escaped    *)
(* byte below 0x80 is the character, a lead byte 0xC2-0xF4 must be        *)
(* followed by the escaped continuation bytes (0x80-0xBF) of its length,   *)
(* with the second byte in the range RFC 3629 allows after E0, ED, F0 and *)
(* F4; any other escaped byte is a URIError.                               *)
(***************************************************************************)
HEX_UPPER == "0123456789ABCDEF"
HEX_LOWER == "0123456789abcdef"
IsHex(c) == \E k \in 1..16 : c \in {Ch(HEX_UPPER, k), Ch(HEX_LOWER, k)}
HexVal(c) == CHOOSE v \in 0..15 : c \in {Ch(HEX_UPPER, v + 1), Ch(HEX_LOWER, v + 1)}
\* the characters of the codes 32..95 and 97..126 (a TLA+ string holds no backquote)
PRINTABLE_LOW == " !\"#$%&'()*+,-./0123456789:;<=>?@ABCDEFGHIJKLMNOPQRSTUVWXYZ[\\]^_"
PRINTABLE_HIGH == "abcdefghijklmnopqrstuvwxyz{|}~"
CharOf(b) == IF b < 96 THEN Ch(PRINTABLE_LOW, b - 31) ELSE Ch(PRINTABLE_HIGH, b - 96)

Escapes(s) == {i \in 1..Len(s) : Ch(s, i) = "%"}
WellFormed(s) ==
  \A i \in Escapes(s) : i + 2 <= Len(s) /\ IsHex(Ch(s, i + 1)) /\ IsHex(Ch(s, i + 2))
Byte(s, i) == 16 * HexVal(Ch(s, i + 1)) + HexVal(Ch(s, i + 2))
Continuation(s, i) == i \in Escapes(s) /\ Byte(s, i) \in 128..191
\* the number of bytes a lead byte starts (0: not a lead byte)
Utf8Length(b) ==
  CASE b \in 194..223 -> 2
    [] b \in 224..239 -> 3
    [] b \in 240..244 -> 4
    [] OTHER          -> 0
SecondByteOk(b, c) ==
  CASE b = 224 -> c >= 160
    [] b = 237 -> c < 160
    [] b = 240 -> c >= 144
    [] b = 244 -> c < 144
    [] OTHER   -> TRUE
Utf8Ok(s) ==
  \A i \in Escapes(s) :
    LET b == Byte(s, i)
    IN  \/ b < 128
        \/ /\ b \in 128..191
           \/ \E k \in 1..3 :
                /\ i - 3 * k \in Escapes(s)
                /\ Utf8Length(Byte(s, i - 3 * k)) > k
                /\ \A m \in 1..(k - 1) : Continuation(s, i - 3 * m)
        \/ /\ Utf8Length(b) > 0
           /\ \A m \in 1..(Utf8Length(b) - 1) : Continuation(s, i + 3 * m)
           /\ SecondByteOk(b, Byte(s, i + 3))

DecodeURIComponent(s) ==
  LET kept == SelectSeq([i \in 1..Len(s) |-> i],
                        LAMBDA i : \A j \in Escapes(s) : i # j + 1 /\ i # j + 2)
      unit(i) == IF i \notin Escapes(s) THEN [ch |-> Ch(s, i)]
                 ELSE IF Byte(s, i) \in (32..126) \ {96} THEN [ch |-> CharOf(Byte(s, i))]
                 ELSE [byte |-> Byte(s, i)]
  IN  IF WellFormed(s) /\ Utf8Ok(s) THEN Name([k \in DOMAIN kept |-> unit(kept[k])])
      ELSE URIError

-----------------------------------------------------------------------------
(***************************************************************************)
(* The patterns.  A match is [at, from, to]: where it starts and the       *)
(* characters of its group.  [^/]+ and [^&/#]+ take the longest run, and   *)
(* a regular expression returns the match that starts first.               *)
(***************************************************************************)
\* the last index of the run of characters of s from j on that are not in stop
RunEnd(s, j, stop) == LastOf({k \in (j - 1)..Len(s) : \A m \in j..k : Ch(s, m) \notin stop})
At3(a, f, t) == [at |-> a, from |-> f, to |-> t]
Lit(s, i, lit) == i >= 1 /\ i + Len(lit) - 1 <= Len(s) /\ SubSeq(s, i, i + Len(lit) - 1) = lit

\* /<lit>([^\/]+)/, lit ending in '/'
GroupAfter(s, lit) ==
  {At3(i, i + Len(lit), RunEnd(s, i + Len(lit), {"/"})) :
     i \in {i \in 1..Len(s) : Lit(s, i, lit) /\ RunEnd(s, i + Len(lit), {"/"}) >= i + Len(lit)}}
\* /\/([^\/]+)<lit>/, lit starting with '/'
GroupBefore(s, lit) ==
  {At3(i, i + 1, RunEnd(s, i + 1, {"/"})) :
     i \in {i \in 1..Len(s) : /\ Ch(s, i) = "/"
                              /\ RunEnd(s, i + 1, {"/"}) >= i + 1
                              /\ Lit(s, RunEnd(s, i + 1, {"/"}) + 1, lit)}}
\* /\/orgs\/[^\/]+\/projects\/([^\/]+)/
OrgsGroup(s) ==
  LET org(i) == RunEnd(s, i + 6, {"/"})
  IN  {At3(i, org(i) + 11, RunEnd(s, org(i) + 11, {"/"})) :
         i \in {i \in 1..Len(s) : /\ Lit(s, i, "/orgs/") /\ org(i) >= i + 6
                                  /\ Lit(s, org(i) + 1, "/projects/")
                                  /\ RunEnd(s, org(i) + 11, {"/"}) >= org(i) + 11}}
\* /project[=/]([^&/#]+)/i
PROJECT_WORD == <<{"p", "P"}, {"r", "R"}, {"o", "O"}, {"j", "J"}, {"e", "E"}, {"c", "C"}, {"t", "T"}>>
HashGroup(s) ==
  {At3(i, i + 8, RunEnd(s, i + 8, {"&", "/", "#"})) :
     i \in {i \in 1..Len(s) : /\ i + 7 <= Len(s)
                              /\ \A k \in 1..7 : Ch(s, i + k - 1) \in PROJECT_WORD[k]
                              /\ Ch(s, i + 7) \in {"=", "/"}
                              /\ RunEnd(s, i + 8, {"&", "/", "#"}) >= i + 8}}

\* path.match(pattern)[1], or "" when the pattern does not match
Group(s, ms) ==
  IF ms = {} THEN ""
  ELSE LET m == CHOOSE m \in ms : \A n \in ms : m.at <= n.at IN SubSeq(s, m.from, m.to)

\* the urlPatterns, in their order
UrlGroups(p) ==
  << Group(p, GroupAfter(p, "/projects/")), Group(p, GroupAfter(p, "/project/")),
     Group(p, GroupAfter(p, "/p/")), Group(p, GroupBefore(p, "/dashboards")),
     Group(p, GroupBefore(p, "/panels")), Group(p, OrgsGroup(p)) >>

-----------------------------------------------------------------------------
(***************************************************************************)
(* getProjectName(explicitProjectName, definition), with window.location.  *)
(* The URL's group is decoded outside any try, so its URIError escapes;    *)
(* the hash's group is decoded inside one, and its URIError ends in        *)
(* return undefined.                                                        *)
(***************************************************************************)
DefinitionPaths(def) ==
  LET md == Get(def, "metadata")
  IN  << Get(md, "project"), Get(Get(md, "labels"), "project"),
         Get(Get(md, "annotations"), "project"), Get(Get(md, "annotations"), "project.name"),
         Get(Get(md, "annotations"), "perses.dev/project"),
         Get(Get(Get(def, "spec"), "metadata"), "project"), Get(Get(def, "spec"), "project"),
         Get(def, "project"), Get(def, "projectName") >>

\* the definition paths that hold a string not blank after trim, in order
NamedPaths(def) == SelectSeq(DefinitionPaths(def), LAMBDA v : v.t = "string" /\ Trim(v.s) # "")
MetadataName(def) == Get(Get(def, "metadata"), "name")
\* the places of the separators of metadata.name.split(/[-._]/)
NameSeparators(def) ==
  IF MetadataName(def).t = "string"
  THEN {i \in 1..Len(MetadataName(def).s) : Ch(MetadataName(def).s, i) \in {"-", ".", "_"}}
  ELSE {}
\* the non-empty groups of the URL patterns that match, in the patterns' order
FoundUrlGroups(loc) == SelectSeq(UrlGroups(loc.pathname), LAMBDA g : g # "")
QueryName(loc) == Or(loc.query.project, loc.query.projectName)
HashName(loc) == Group(loc.hash, HashGroup(loc.hash))

\* The sources in the code's order: the first that yields a name returns.
GetProjectName(explicit, def, loc) ==
  IF Truthy(explicit) THEN Name(Text(explicit.s))
  ELSE IF Truthy(def) /\ NamedPaths(def) # <<>>
    THEN Name(Text(Trim(Head(NamedPaths(def)).s)))
  ELSE IF Truthy(def) /\ Truthy(MetadataName(def)) /\ MetadataName(def).t = "string"
          /\ NameSeparators(def) # {}
    THEN Name(Text(SubSeq(MetadataName(def).s, 1, FirstOf(NameSeparators(def)) - 1)))
  ELSE IF FoundUrlGroups(loc) # <<>>
    THEN DecodeURIComponent(Head(FoundUrlGroups(loc)))
  ELSE IF Truthy(QueryName(loc)) THEN Name(Text(QueryName(loc).s))
  ELSE IF HashName(loc) # "" /\ DecodeURIComponent(HashName(loc)) # URIError
    THEN DecodeURIComponent(HashName(loc))
  ELSE NoName

=============================================================================
