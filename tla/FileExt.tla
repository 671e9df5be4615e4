-------------------------------- MODULE FileExt --------------------------------
(***************************************************************************)
(* utils/file_ext: the set of file extensions a caller wants (a white      *)
(* list) or does not want (a black list).  The set owns one buffer, as     *)
(* long as the longest extension, into which a look-up copies the end of   *)
(* the file's name, backwards.  The hash table, external, is a set.        *)
(***************************************************************************)
EXTENDS Integers, Sequences

CONSTANTS
  InitialMax,  \* max_str_len of a new set, 5
  Chars,       \* characters
  Exts,        \* the extensions callers add: sequences of letters
  FileNames,   \* the names they ask about: sequences of letters and dots
  MaxAdds      \* bound on count

ASSUME FileExtAssumption ==
  /\ InitialMax \in Nat /\ MaxAdds \in Nat
  /\ {"a", "b"} \subseteq Chars
  /\ Exts \subseteq Seq(Chars) /\ FileNames \subseteq Seq(Chars)

VARIABLES
  fileExt,   \* file_ext_t, when there is one: {} or one record
  added,     \* history: the extensions added since the last clear
  cleared,   \* history: whether clear_file_ext() was called on this set
  answer,    \* the answer to the question just asked, NoAnswer after a change
  crashed    \* a NULL buffer was written to, or a byte beyond it

feVars == <<fileExt, added, cleared, answer, crashed>>

MATCH == 1
NOT_MATCH == 0
NoAnswer == [name |-> << >>, ret |-> -1]

\* g_ascii_strdown()
Lower(s) == [i \in DOMAIN s |-> CASE s[i] = "A" -> "a" [] s[i] = "B" -> "b" [] OTHER -> s[i]]

FileExtInit ==
  fileExt = {} /\ added = {} /\ cleared = FALSE /\ answer = NoAnswer /\ crashed = FALSE

\* init_file_ext(): size is what is allocated for max_str, 0 when it is NULL.
InitFileExt ==
  /\ fileExt = {}
  /\ fileExt' = {[count |-> 0, ext_hs |-> {}, max_str_len |-> InitialMax,
                  size |-> InitialMax + 1, is_black |-> FALSE]}
  /\ added' = {} /\ cleared' = FALSE /\ UNCHANGED <<answer, crashed>>

\* clear_file_ext(): the buffer goes too.
ClearFileExt(f) ==
  /\ fileExt' = {[f EXCEPT !.count = 0, !.ext_hs = {}, !.max_str_len = 0, !.size = 0]}
  /\ added' = {} /\ cleared' = TRUE /\ answer' = NoAnswer /\ UNCHANGED crashed

DestroyFileExt(f) ==
  fileExt' = {} /\ added' = {} /\ cleared' = FALSE /\ answer' = NoAnswer /\ UNCHANGED crashed

\* A longer extension than any before it gets a longer buffer.
Room(f, len) ==
  IF len > f.max_str_len THEN [f EXCEPT !.max_str_len = len, !.size = len + 1] ELSE f

\* add_file_ext(): count grows also when the extension was there.
AddFileExt(f, ext) ==
  /\ fileExt' = {[Room(f, Len(ext)) EXCEPT !.count = @ + 1,
                                           !.ext_hs = @ \cup {Lower(ext)}]}
  /\ added' = added \cup {ext} /\ answer' = NoAnswer /\ UNCHANGED <<cleared, crashed>>

SetFileExtBlackWhite(f, b) ==
  /\ fileExt' = {[f EXCEPT !.is_black = b]}
  /\ answer' = NoAnswer /\ UNCHANGED <<added, cleared, crashed>>

\* The loop from the last character down to, and without, the first one: the
\* position of the dot it stops at, 0 when it finds none.
Dot(name) ==
  LET dots == {i \in 2 .. Len(name) : name[i] = "."}
  IN IF dots = {} THEN 0 ELSE CHOOSE i \in dots : \A j \in dots : j <= i

\* How many characters it has copied before it stops: at the dot, at the first
\* character, or as soon as there are more than max_str_len.
\* (Mutant: it stops one character early.)
CopiedShort(f, name) ==
  LET n == IF Dot(name) > 0 THEN Len(name) - Dot(name)
           ELSE IF name = << >> THEN 0 ELSE Len(name) - 1
  IN IF n > f.max_str_len - 1 THEN f.max_str_len + 1 ELSE n
Copied(f, name) ==
  LET n == IF Dot(name) > 0 THEN Len(name) - Dot(name)
           ELSE IF name = << >> THEN 0 ELSE Len(name) - 1
  IN IF n > f.max_str_len THEN f.max_str_len + 1 ELSE n

Reversed(s) == [i \in DOMAIN s |-> s[Len(s) + 1 - i]]

\* The extension is looked up only when its dot was reached within the buffer.
Found(f, name) ==
  /\ Dot(name) > 0 /\ Copied(f, name) <= f.max_str_len
  /\ LET buffer == Reversed(SubSeq(name, Dot(name) + 1, Len(name)))
     IN Lower(Reversed(buffer)) \in f.ext_hs

\* is_black turns the answer round.
Answer(f, found) == IF found # f.is_black THEN MATCH ELSE NOT_MATCH

\* is_need_file_ext(): max_str[0] is written first, whatever the name.
IsNeedFileExt(f, name) ==
  /\ \/ /\ f.size = 0 \/ Copied(f, name) > f.size
        /\ crashed' = TRUE /\ UNCHANGED answer
     \/ /\ f.size > 0 /\ Copied(f, name) <= f.size
        /\ answer' = [name |-> name, ret |-> Answer(f, Found(f, name))]
        /\ UNCHANGED crashed
  /\ UNCHANGED <<fileExt, added, cleared>>

FileExtNext ==
  \/ InitFileExt
  \/ \E f \in fileExt :
       /\ ~ crashed
       /\ \/ ClearFileExt(f) \/ DestroyFileExt(f)
          \/ \E ext \in Exts : f.count < MaxAdds /\ AddFileExt(f, ext)
          \/ \E b \in BOOLEAN : SetFileExtBlackWhite(f, b)
          \/ \E name \in FileNames : IsNeedFileExt(f, name)

FileExtSpec == FileExtInit /\ [][FileExtNext]_feVars

-----------------------------------------------------------------------------
\* The types; the buffer is NULL or has max_str_len bytes and the final NUL,
\* and no stored extension is longer than max_str_len.
FileExtTypeOK ==
  /\ \A f \in fileExt :
       /\ f.count \in 0 .. MaxAdds /\ f.max_str_len \in Nat /\ f.is_black \in BOOLEAN
       /\ \/ f.size = f.max_str_len + 1
          \/ f.size = 0 /\ f.max_str_len = 0
       /\ \A e \in f.ext_hs : Len(e) <= f.max_str_len
  /\ added \subseteq Exts /\ cleared \in BOOLEAN /\ crashed \in BOOLEAN

\* The name is a non-empty stem, a dot, and an extension somebody added, in any
\* case of letters.
HasAddedExt(name) ==
  \E i \in 2 .. Len(name) :
    /\ name[i] = "." /\ \A j \in (i + 1) .. Len(name) : name[j] # "."
    /\ \E e \in added : Lower(e) = Lower(SubSeq(name, i + 1, Len(name)))

\* file_ext.h: is_need_file_ext() says whether the name's extension is in the
\* set, and is_black turns that round.  Giving up after max_str_len characters,
\* and the backwards copy into a buffer kept between calls, lose no match,
\* whatever was added, cleared and added again.
AnswersBySuffix ==
  answer # NoAnswer =>
    \A f \in fileExt : (answer.ret = MATCH) <=> (HasAddedExt(answer.name) # f.is_black)

\* A look-up writes only within the buffer, unless the set was cleared and has
\* had no letter added to it since: clear_file_ext() frees the buffer, and only
\* a longer extension brings it back.
BufferHoldsName == crashed => cleared /\ added \subseteq {<< >>}

\* Over every sequence of calls the buffer fits what the set holds, the answers given
\* follow the extension of the name, and a look-up stays in the buffer, but for the
\* look-ups after clear_file_ext() that BufferHoldsName names: they write through NULL.
FileExtInv == FileExtTypeOK /\ AnswersBySuffix /\ BufferHoldsName
=============================================================================
