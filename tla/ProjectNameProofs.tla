-------------------------- MODULE ProjectNameProofs --------------------------
(***************************************************************************)
(* Proofs about getProjectName (Panel.tsx:59-146), for every explicit      *)
(* prop, definition and window.location: when resolving the project name   *)
(* can throw, and what decodeURIComponent needs to throw at all.           *)
(***************************************************************************)
EXTENDS ProjectName, TLAPS

\* A name, the absence of one, and the URIError are told apart by their kind.
LEMMA NameIsNoError ==
  ASSUME NEW t
  PROVE  Name(t) # URIError /\ NoName # URIError
BY DEF Name, NoName, URIError

\* The value of a hex digit is a digit value.
LEMMA HexValRange ==
  ASSUME NEW c, IsHex(c)
  PROVE  HexVal(c) \in 0..15
<1>1. PICK k \in 1..16 : c \in {Ch(HEX_UPPER, k), Ch(HEX_LOWER, k)}
  BY DEF IsHex
<1>2. \E v \in 0..15 : c \in {Ch(HEX_UPPER, v + 1), Ch(HEX_LOWER, v + 1)}
  BY <1>1
<1>3. QED
  BY <1>2 DEF HexVal

\* Each escape of a well-formed string stands for a byte.
LEMMA ByteRange ==
  ASSUME NEW s, WellFormed(s), NEW i \in Escapes(s)
  PROVE  Byte(s, i) \in 0..255
<1>1. HexVal(Ch(s, i + 1)) \in 0..15 /\ HexVal(Ch(s, i + 2)) \in 0..15
  BY HexValRange DEF WellFormed
<1>2. QED
  BY <1>1 DEF Byte

(***************************************************************************)
(* decodeURIComponent does not throw on a string whose every '%' starts    *)
(* two hex digits that encode an ASCII byte: only a malformed escape or an *)
(* escaped byte of 0x80 or more can make it throw.                         *)
(***************************************************************************)
LEMMA AsciiEscapesDecode ==
  ASSUME NEW s, WellFormed(s), \A i \in Escapes(s) : Byte(s, i) < 128
  PROVE  DecodeURIComponent(s) # URIError
<1>1. Utf8Ok(s)
  BY DEF Utf8Ok
<1>2. QED
  BY <1>1, NameIsNoError DEF DecodeURIComponent

(***************************************************************************)
(* Resolving the project name throws only in the URL step: no truthy       *)
(* projectName prop was passed, the definition names no project, and the  *)
(* first non-empty group the URL patterns find holds a malformed escape or *)
(* an escaped byte of 0x80 or more (a non-ASCII character, or bytes that  *)
(* are not UTF-8).  The query parameters are never decoded, and the       *)
(* decode of the hash is guarded, so neither makes Panel's render fail;   *)
(* passing Panel a projectName prop rules the failure out.                *)
(***************************************************************************)
THEOREM ThrowsOnlyOnUrlEscape ==
  ASSUME NEW explicit, NEW def, NEW loc,
         GetProjectName(explicit, def, loc) = URIError
  PROVE  /\ ~Truthy(explicit)
         /\ ~(Truthy(def) /\ NamedPaths(def) # <<>>)
         /\ FoundUrlGroups(loc) # <<>>
         /\ LET g == Head(FoundUrlGroups(loc))
            IN  \/ ~WellFormed(g)
                \/ \E i \in Escapes(g) : Byte(g, i) \in 128..255
<1> DEFINE g == Head(FoundUrlGroups(loc))
<1>1. ~Truthy(explicit)
  BY NameIsNoError DEF GetProjectName
<1>2. ~(Truthy(def) /\ NamedPaths(def) # <<>>)
  BY <1>1, NameIsNoError DEF GetProjectName
<1>3. FoundUrlGroups(loc) # <<>> /\ DecodeURIComponent(g) = URIError
  <2>1. ~(Truthy(def) /\ Truthy(MetadataName(def)) /\ MetadataName(def).t = "string"
          /\ NameSeparators(def) # {})
    BY <1>1, <1>2, NameIsNoError DEF GetProjectName
  <2>2. FoundUrlGroups(loc) # <<>>
    BY <1>1, <1>2, <2>1, NameIsNoError DEF GetProjectName
  <2>3. QED
    BY <1>1, <1>2, <2>1, <2>2 DEF GetProjectName
<1>4. ~WellFormed(g) \/ \E i \in Escapes(g) : Byte(g, i) \in 128..255
  <2> SUFFICES ASSUME WellFormed(g) PROVE \E i \in Escapes(g) : Byte(g, i) \in 128..255
    OBVIOUS
  <2>1. ~(\A i \in Escapes(g) : Byte(g, i) < 128)
    BY <1>3, AsciiEscapesDecode
  <2>2. PICK i \in Escapes(g) : ~(Byte(g, i) < 128)
    BY <2>1
  <2>3. Byte(g, i) \in 0..255
    BY ByteRange
  <2>4. QED
    BY <2>2, <2>3
<1>5. QED
  BY <1>1, <1>2, <1>3, <1>4

=============================================================================
