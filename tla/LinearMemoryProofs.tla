------------------------- MODULE LinearMemoryProofs -------------------------
(***************************************************************************)
(* LinearMemory for a memory of any size and for all widths.  Its          *)
(* properties say of the call answered last what is true of that call      *)
(* alone, so each is shown of the answer every function gives, if it got   *)
(* what it is owed; and of a text that is copied, that its units are, byte *)
(* by byte, where they belong (WrittenIsThere).                            *)
(***************************************************************************)
EXTENDS LinearMemory, WellFoundedInduction, TLAPS

(* Numbers.                                                                 *)

\* A set of numbers has a least one.
LEMMA LeastNumber ==
  ASSUME NEW S, S \subseteq Nat, S # {}
  PROVE  Min(S) \in S /\ \A n \in S : Min(S) <= n
  <1>1. PICK less : less = OpToRel(<, Nat)
    OBVIOUS
  <1>2. \A m, n \in Nat : <<m, n>> \in less <=> m < n
    BY <1>1 DEF OpToRel
  <1>3. IsWellFoundedOn(less, Nat)
    BY <1>1, NatLessThanWellFounded
  <1>4. PICK n \in S : \A m \in S : <<m, n>> \notin less
    BY <1>3, WFMin
  <1>5. \A m \in S : m \in Nat /\ n \in Nat /\ ~(m < n)
    BY <1>2, <1>4
  <1>6. \A m \in S : n <= m
    BY <1>5
  <1>7. QED
    BY <1>6 DEF Min

\* The units that fit into some bytes.
LEMMA Whole ==
  ASSUME NEW u \in Nat \ {0}, NEW m \in Nat
  PROVE  m \div u \in Nat /\ u * (m \div u) <= m /\ m < u * (m \div u) + u
  OBVIOUS

\* Fewer units are fewer bytes.
LEMMA Scaled ==
  ASSUME NEW u \in Nat, NEW m \in Nat, NEW n \in Nat, m <= n
  PROVE  u * m \in Nat /\ u * n \in Nat /\ u * m <= u * n
  OBVIOUS

-----------------------------------------------------------------------------
(* Memory.                                                                  *)

\* A buffer that was checked is inside.
LEMMA BufferInside ==
  ASSUME NEW x \in Nat, NEW size \in Nat, NEW n \in Nat, Buffer(x, size), n <= size
  PROVE  Span(x, n) \subseteq Cells
  BY SizesAssumption DEF Buffer, Span, Cells

\* A text and its end are inside.
LEMMA TextInside ==
  ASSUME NEW m, NEW u \in Nat, NEW x \in Nat, Ends(m, u, x) # {}
  PROVE  /\ Length(m, u, x) \in Nat /\ Length(m, u, x) <= MemorySize
         /\ \A n \in Nat : n <= Length(m, u, x) + 1 => Span(x, u * n) \subseteq Cells
         /\ Span(x, u * (Length(m, u, x) + 1)) \subseteq Cells
  <1>1. PICK n \in Ends(m, u, x) : n = Length(m, u, x)
    <2>1. Ends(m, u, x) \subseteq Nat
      BY SizesAssumption DEF Ends
    <2>2. QED
      BY <2>1, LeastNumber DEF Length
  <1>2. n \in Nat /\ n <= MemorySize /\ x + u * (n + 1) <= MemorySize
    BY <1>1, SizesAssumption DEF Ends
  <1>3. ASSUME NEW k \in Nat, k <= n + 1 PROVE Span(x, u * k) \subseteq Cells
    <2>1. u * k \in Nat /\ u * (n + 1) \in Nat /\ u * k <= u * (n + 1)
      BY <1>2, <1>3, Scaled
    <2>2. QED
      BY <1>2, <2>1, BufferInside DEF Buffer
  <1>4. Span(x, u * (n + 1)) \subseteq Cells
    <2>1. n + 1 \in Nat /\ n + 1 <= n + 1
      BY <1>2
    <2>2. QED
      BY <1>3, <2>1
  <1>5. QED
    BY <1>1, <1>2, <1>3, <1>4

\* As many units as asked for, or the end of a text.
Unities(m, u) == {Unit(m, u, x) : x \in Int} \cup {Zero(u)}
LEMMA UnitsAreMany ==
  ASSUME NEW m, NEW u \in Nat, NEW x \in Nat, NEW n \in Nat
  PROVE  Units(m, u, x, n) \in Seq(Unities(m, u)) /\ Len(Units(m, u, x, n)) = n
  <1>1. \A k \in 1..n : Unit(m, u, x + u * (k - 1)) \in Unities(m, u)
    <2>1. \A k \in 1..n : x + u * (k - 1) \in Int
      OBVIOUS
    <2>2. QED
      BY <2>1 DEF Unities
  <1>2. QED
    BY <1>1 DEF Units

\* What is read of a text of which at most n units are needed is inside.
LEMMA PrefixInside ==
  ASSUME NEW u \in Nat, NEW x \in Nat, NEW n \in Nat, IsPrefix(u, x, n)
  PROVE  /\ Len(Prefix(u, x, n)) \in Nat
         /\ Span(x, u * Len(Prefix(u, x, n))) \subseteq Cells
  <1> DEFINE k == IF IsText(u, x) THEN Smaller(Length(memory, u, x) + 1, n) ELSE n
  <1>1. CASE IsText(u, x)
    <2>1. /\ Length(memory, u, x) \in Nat
          /\ \A m \in Nat : m <= Length(memory, u, x) + 1 => Span(x, u * m) \subseteq Cells
      BY <1>1, TextInside DEF IsText
    <2>2. k \in Nat /\ k <= Length(memory, u, x) + 1
      BY <1>1, <2>1 DEF Smaller
    <2>3. Len(Prefix(u, x, n)) = k
      BY <2>2 DEF Prefix, Units
    <2>4. QED
      BY <2>1, <2>2, <2>3
  <1>2. CASE ~IsText(u, x)
    <2>1. k = n /\ Buffer(x, u * n)
      BY <1>2 DEF IsPrefix
    <2>2. Len(Prefix(u, x, n)) = k
      BY <2>1 DEF Prefix, Units
    <2>3. u * n \in Nat
      OBVIOUS
    <2>4. QED
      BY <2>1, <2>2, <2>3, BufferInside
  <1>3. QED
    BY <1>1, <1>2

-----------------------------------------------------------------------------
(* What a function answers.                                                 *)

\* The answer is to fn with these arguments, and if fn got what it is owed, it touched
\* nothing outside.
Answered(fn, args) == call'.fn = fn /\ call'.args = args /\ InMemory

\* An answer that touches nothing.
LEMMA RefuseAnswers ==
  ASSUME NEW fn, NEW args, NEW ret, Refuse(fn, args, ret)
  PROVE  Answered(fn, args) /\ call'.ret = ret
  BY DEF Refuse, Answer, Answered, InMemory

\* An answer that touches what is inside, if the function got what it is owed.
LEMMA AnswerAnswers ==
  ASSUME NEW fn, NEW args, NEW ret, NEW touched, Answer(fn, args, ret, touched),
         Owed(fn, args) => touched \subseteq Cells
  PROVE  Answered(fn, args) /\ call'.ret = ret
  <1>1. call'.fn = fn /\ call'.args = args /\ call'.ret = ret /\ call'.touched = touched
    BY DEF Answer
  <1>2. QED
    BY <1>1, Zenon DEF Answered, InMemory

\* The bytes of a unit of a function, and the functions that compute sizes.
UnitOf(fn) == IF fn \in Wide THEN WCHAR_SIZE ELSE 1
Sized == {"memcpy", "wmemcpy", "memmove", "wmemmove", "memset", "wmemset", "memcmp", "wmemcmp",
          "strncpy", "wcsncpy"}

\* A size that is owed to be a word is the one that is used; that of chars always is.
LEMMA SizesFit ==
  ASSUME NEW fn \in Sized, NEW a, NEW b, NEW n \in Counts, NEW u \in Nat, u = UnitOf(fn),
         Owed(fn, <<a, b, n>>)
  PROVE  SizeFits(u, n) /\ Size(u, n) = u * n /\ u * n \in Nat
  <1>1. n \in Nat /\ n < Word
    BY ArgumentsAssumption, WidthsAssumption
  <1>2. SizeFits(u, n)
    <2>1. CASE fn \in Wide
      BY <2>1 DEF Sized, Wide, UnitOf, Owed
    <2>2. CASE fn \notin Wide
      <3>1. u = 1 /\ 1 * n = n
        BY <1>1, <2>2 DEF UnitOf
      <3>2. QED
        BY <1>1, <3>1 DEF SizeFits
    <2>3. QED
      BY <2>1, <2>2
  <1>3. PICK size \in Nat : size = u * n
    BY <1>1
  <1>4. size < Word => size % Word = size
    BY WidthsAssumption
  <1>5. QED
    BY <1>2, <1>3, <1>4 DEF SizeFits, Size

\* Two buffers of n units that were checked.
LEMMA BuffersInside ==
  ASSUME NEW fn \in Sized, NEW a, NEW b, NEW n \in Counts, NEW u \in Nat, u = UnitOf(fn),
         Owed(fn, <<a, b, n>>), NEW x \in Nat, Buffer(x, Size(u, n))
  PROVE  Span(x, u * n) \subseteq Cells
  <1>1. PICK size \in Nat : size = u * n /\ Size(u, n) = size
    BY SizesFit
  <1>2. QED
    BY <1>1, BufferInside

\* memcpy, memmove and their wide forms.
LEMMA CopyAnswers ==
  ASSUME NEW fn \in Sized, NEW u \in Nat, u = UnitOf(fn), NEW d \in Nat, NEW s \in Nat,
         NEW n \in Counts, NEW may, Copy(fn, u, d, s, n, may)
  PROVE  Answered(fn, <<d, s, n>>)
  <1>1. CASE Buffer(d, Size(u, n)) /\ Buffer(s, Size(u, n))
    <2>1. Owed(fn, <<d, s, n>>) => Span(d, u * n) \cup Span(s, u * n) \subseteq Cells
      BY <1>1, BuffersInside
    <2>2. Answer(fn, <<d, s, n>>, d, Span(d, u * n) \cup Span(s, u * n))
      BY <1>1 DEF Copy
    <2>3. QED
      BY <2>1, <2>2, AnswerAnswers
  <1>2. QED
    BY <1>1, RefuseAnswers DEF Copy

\* memset and wmemset.
LEMMA FillAnswers ==
  ASSUME NEW fn \in Sized, NEW u \in Nat, u = UnitOf(fn), NEW d \in Nat, NEW val, NEW n \in Counts,
         Fill(fn, u, d, val, n)
  PROVE  Answered(fn, <<d, val, n>>)
  <1>1. CASE Buffer(d, Size(u, n))
    <2>1. Owed(fn, <<d, val, n>>) => Span(d, u * n) \subseteq Cells
      BY <1>1, BuffersInside
    <2>2. Answer(fn, <<d, val, n>>, d, Span(d, u * n))
      BY <1>1 DEF Fill
    <2>3. QED
      BY <2>1, <2>2, AnswerAnswers
  <1>2. QED
    BY <1>1, RefuseAnswers DEF Fill

\* memcmp and wmemcmp.
LEMMA CompareAnswers ==
  ASSUME NEW fn \in Sized, NEW u \in Nat, u = UnitOf(fn), NEW a \in Nat, NEW b \in Nat,
         NEW n \in Counts, Compare(fn, u, a, b, n)
  PROVE  Answered(fn, <<a, b, n>>)
  <1>1. CASE Buffer(a, Size(u, n)) /\ Buffer(b, Size(u, n))
    <2>1. Owed(fn, <<a, b, n>>) => Span(a, u * n) \cup Span(b, u * n) \subseteq Cells
      BY <1>1, BuffersInside
    <2>2. PICK order : Answer(fn, <<a, b, n>>, order, Span(a, u * n) \cup Span(b, u * n))
      BY <1>1 DEF Compare
    <2>3. QED
      BY <2>1, <2>2, AnswerAnswers
  <1>2. QED
    BY <1>1, RefuseAnswers DEF Compare

\* A function that runs on along a text that does not end did not get what it is owed.
LEMMA RunOnAnswers ==
  ASSUME NEW fn, NEW args, NEW s, RunOn(fn, args, s), ~Owed(fn, args)
  PROVE  Answered(fn, args)
  BY AnswerAnswers DEF RunOn

\* strlen and wcslen.
LEMMA MeasureAnswers ==
  ASSUME NEW fn \in {"strlen", "wcslen"}, NEW u \in Nat, u = UnitOf(fn), NEW s \in Nat, Measure(fn, u, s)
  PROVE  Answered(fn, <<s>>)
  <1>1. CASE Pointer(s) /\ IsText(u, s)
    <2>1. PICK n \in Nat : n = Length(memory, u, s) /\ Span(s, u * (n + 1)) \subseteq Cells
      BY <1>1, TextInside DEF IsText
    <2>2. Answer(fn, <<s>>, n, Span(s, u * (n + 1)))
      BY <1>1, <2>1 DEF Measure
    <2>3. QED
      BY <2>1, <2>2, AnswerAnswers
  <1>2. CASE Pointer(s) /\ ~IsText(u, s)
    <2>1. ~Owed(fn, <<s>>)
      BY <1>2 DEF Owed, UnitOf
    <2>2. RunOn(fn, <<s>>, s)
      BY <1>2 DEF Measure
    <2>3. QED
      BY <2>1, <2>2, RunOnAnswers
  <1>3. QED
    BY <1>1, <1>2, RefuseAnswers DEF Measure

\* strchrnul and wcschr.
LEMMA FindAnswers ==
  ASSUME NEW fn \in {"strchrnul", "wcschr"}, NEW u \in Nat, u = UnitOf(fn), NEW s \in Nat, NEW ch,
         NEW missing, Find(fn, u, s, ch, missing)
  PROVE  Answered(fn, <<s, ch>>)
  <1>1. CASE IsText(u, s)
    <2>1. PICK n \in Nat : n = Length(memory, u, s) /\ Span(s, u * (n + 1)) \subseteq Cells
      BY <1>1, TextInside DEF IsText
    <2>2. PICK ret : Answer(fn, <<s, ch>>, ret, Span(s, u * (n + 1)))
      BY <1>1, <2>1 DEF Find
    <2>3. QED
      BY <2>1, <2>2, AnswerAnswers
  <1>2. CASE ~IsText(u, s)
    <2>1. ~Owed(fn, <<s, ch>>)
      BY <1>2 DEF Owed, UnitOf
    <2>2. RunOn(fn, <<s, ch>>, s)
      BY <1>2 DEF Find
    <2>3. QED
      BY <2>1, <2>2, RunOnAnswers
  <1>3. QED
    BY <1>1, <1>2

\* strcmp, strncmp and their wide forms.
LEMMA CompareTextsAnswers ==
  ASSUME NEW fn \in {"strcmp", "wcscmp", "strncmp", "wcsncmp"}, NEW u \in Nat, u = UnitOf(fn),
         NEW a \in Nat, NEW b \in Nat, NEW n \in Nat, CompareTexts(fn, u, a, b, n)
  PROVE  Answered(fn, <<a, b, n>>)
  <1>1. CASE Pointer(a) /\ Pointer(b)
    <2>1. PICK read : read = Span(a, u * Len(Prefix(u, a, n))) \cup Span(b, u * Len(Prefix(u, b, n)))
      OBVIOUS
    <2>2. Owed(fn, <<a, b, n>>) => IsPrefix(u, a, n) /\ IsPrefix(u, b, n)
      BY DEF Owed, UnitOf
    <2>3. Owed(fn, <<a, b, n>>) => read \subseteq Cells
      BY <2>1, <2>2, PrefixInside
    <2>4. PICK order : Answer(fn, <<a, b, n>>, order, read)
      BY <1>1, <2>1 DEF CompareTexts
    <2>5. QED
      BY <2>3, <2>4, AnswerAnswers
  <1>2. QED
    BY <1>1, RefuseAnswers DEF CompareTexts

\* What strcpy and its relatives store was checked with the room it takes.
LEMMA StoreAnswers ==
  ASSUME NEW fn, NEW args, NEW u \in Nat, NEW d \in Nat, NEW room \in Nat, NEW new, Len(new) = room,
         NEW read, read \subseteq Cells, Store(fn, args, u, d, room, new, read)
  PROVE  Answered(fn, args)
  <1>1. u * room \in Nat
    OBVIOUS
  <1>2. CASE Buffer(d, u * room)
    <2>1. read \cup Span(d, u * Len(new)) \subseteq Cells
      BY <1>1, <1>2, BufferInside
    <2>2. QED
      BY <1>2, <2>1, AnswerAnswers DEF Store
  <1>3. QED
    BY <1>2, RefuseAnswers DEF Store

\* What runs on along texts that do not end stores anything, but was not owed that.
LEMMA StoreOnAnswers ==
  ASSUME NEW fn, NEW args, NEW d, NEW s, StoreOn(fn, args, d, s), ~Owed(fn, args)
  PROVE  Answered(fn, args)
  BY AnswerAnswers DEF StoreOn

\* strcpy and wcscpy.
LEMMA CopyTextAnswers ==
  ASSUME NEW fn \in {"strcpy", "wcscpy"}, NEW u \in Nat, u = UnitOf(fn), NEW d \in Nat, NEW s \in Nat,
         CopyText(fn, u, d, s, 1)
  PROVE  Answered(fn, <<d, s>>)
  <1>1. PICK new : new = Units(memory, u, s, Length(memory, u, s) + 1)
    OBVIOUS
  <1>2. CASE Pointer(s) /\ IsText(u, s)
    <2>1. Store(fn, <<d, s>>, u, d, Len(new), new, Span(s, u * Len(new)))
      BY <1>1, <1>2 DEF CopyText
    <2>2. PICK n \in Nat : n = Length(memory, u, s) /\ Span(s, u * (n + 1)) \subseteq Cells
      BY <1>2, TextInside DEF IsText
    <2>3. Len(new) = n + 1
      BY <1>1, <2>2 DEF Units
    <2>4. Span(s, u * Len(new)) \subseteq Cells /\ Len(new) \in Nat
      BY <2>2, <2>3
    <2>5. QED
      BY <2>1, <2>4, StoreAnswers
  <1>3. CASE Pointer(s) /\ ~IsText(u, s)
    <2>1. ~Owed(fn, <<d, s>>)
      BY <1>3 DEF Owed, UnitOf
    <2>2. StoreOn(fn, <<d, s>>, d, s)
      BY <1>3 DEF CopyText
    <2>3. QED
      BY <2>1, <2>2, StoreOnAnswers
  <1>4. QED
    BY <1>2, <1>3, RefuseAnswers DEF CopyText

\* strncpy and wcsncpy.
LEMMA CopyPrefixAnswers ==
  ASSUME NEW fn \in {"strncpy", "wcsncpy"}, NEW u \in Nat, u = UnitOf(fn), NEW d \in Nat, NEW s \in Nat,
         NEW n \in Counts, CopyPrefix(fn, u, d, s, n)
  PROVE  Answered(fn, <<d, s, n>>)
  <1>1. n \in Nat /\ fn \in Sized
    BY ArgumentsAssumption, WidthsAssumption DEF Sized
  <1>2. PICK read : read = Prefix(u, s, n)
    OBVIOUS
  <1>3. CASE Pointer(s) /\ Buffer(d, Size(u, n))
    <2>1. Owed(fn, <<d, s, n>>) => IsPrefix(u, s, n)
      BY DEF Owed, UnitOf
    <2>2. Owed(fn, <<d, s, n>>) => Span(s, u * Len(read)) \subseteq Cells
      BY <1>1, <1>2, <2>1, PrefixInside
    <2>3. Owed(fn, <<d, s, n>>) => Span(d, u * n) \subseteq Cells
      BY <1>1, <1>3, BuffersInside
    <2>4. Answer(fn, <<d, s, n>>, d, Span(s, u * Len(read)) \cup Span(d, u * n))
      BY <1>2, <1>3 DEF CopyPrefix
    <2>5. QED
      BY <2>2, <2>3, <2>4, AnswerAnswers
  <1>4. QED
    BY <1>3, RefuseAnswers DEF CopyPrefix

\* strncat and wcsncat: the end that is written is in the room that is checked.
LEMMA AppendTextAnswers ==
  ASSUME NEW fn \in {"strncat", "wcsncat"}, NEW u \in Nat, u = UnitOf(fn), NEW d \in Nat, NEW s \in Nat,
         NEW n \in Nat, AppendText(fn, u, d, s, n, 1)
  PROVE  Answered(fn, <<d, s, n>>)
  <1>1. PICK taken, text, more, new : /\ taken = Smaller(Length(memory, u, s), n)
                                      /\ text = Text(memory, u, d)
                                      /\ more = Units(memory, u, s, taken)
                                      /\ new = text \o more \o <<Zero(u)>>
    OBVIOUS
  <1>2. CASE Pointer(s) /\ Pointer(d) /\ IsText(u, s) /\ IsText(u, d)
    <2>1. Store(fn, <<d, s, n>>, u, d, Length(memory, u, d) + 1 + taken, new,
                Span(s, u * (Length(memory, u, s) + 1)))
      BY <1>1, <1>2 DEF AppendText
    <2>2. PICK m \in Nat : m = Length(memory, u, s) /\ Span(s, u * (m + 1)) \subseteq Cells
      BY <1>2, TextInside DEF IsText
    <2>3. PICK k \in Nat : k = Length(memory, u, d)
      BY <1>2, TextInside DEF IsText
    <2>4. taken \in Nat
      BY <1>1, <2>2 DEF Smaller
    <2>5. /\ text \in Seq(Unities(memory, u)) /\ Len(text) = k
          /\ more \in Seq(Unities(memory, u)) /\ Len(more) = taken
      BY <1>1, <2>3, <2>4, UnitsAreMany DEF Text
    <2>6. Len(new) = k + 1 + taken
      <3>1. PICK V : text \in Seq(V) /\ more \in Seq(V) /\ <<Zero(u)>> \in Seq(V)
        BY <2>5 DEF Unities
      <3>2. Len(new) = (Len(text) + Len(more)) + 1
        BY <1>1, <3>1
      <3>3. QED
        BY <2>4, <2>5, <3>2
    <2>7. Store(fn, <<d, s, n>>, u, d, k + 1 + taken, new, Span(s, u * (m + 1))) /\ k + 1 + taken \in Nat
      BY <2>1, <2>2, <2>3, <2>4
    <2>8. QED
      BY <2>2, <2>6, <2>7, StoreAnswers
  <1>3. CASE Pointer(s) /\ Pointer(d) /\ ~(IsText(u, s) /\ IsText(u, d))
    <2>1. ~Owed(fn, <<d, s, n>>)
      BY <1>3 DEF Owed, UnitOf
    <2>2. StoreOn(fn, <<d, s, n>>, d, s)
      BY <1>3 DEF AppendText
    <2>3. QED
      BY <2>1, <2>2, StoreOnAnswers
  <1>4. QED
    BY <1>2, <1>3, RefuseAnswers DEF AppendText

\* memchr and wmemchr.
LEMMA SeekAnswers ==
  ASSUME NEW fn, NEW u \in Nat \ {0}, NEW s \in Nat, NEW ch, NEW n, NEW max_size \in Nat,
         Seek(fn, u, s, ch, n, max_size)
  PROVE  Answered(fn, <<s, ch, n>>)
  <1>1. CASE Buffer(s, max_size)
    <2>1. PICK size \in Nat : size = u * (max_size \div u) /\ size <= max_size
      BY Whole
    <2>2. Span(s, size) \subseteq Cells
      BY <1>1, <2>1, BufferInside
    <2>3. PICK ret : Answer(fn, <<s, ch, n>>, ret, Span(s, size))
      BY <1>1, <2>1 DEF Seek
    <2>4. QED
      BY <2>2, <2>3, AnswerAnswers
  <1>2. QED
    BY <1>1, RefuseAnswers DEF Seek

\* strtol and its relatives; the number, or zero for zero, is given back only for a text that is
\* there.
LEMMA ParseAnswers ==
  ASSUME NEW fn \in {"strtol", "strtoul", "strtoll", "strtoull"}, NEW s \in Nat, NEW e \in Nat, NEW sign,
         NEW mag, NEW ret, Parse(fn, s, e, sign, mag, ret)
  PROVE  /\ Answered(fn, <<s, e, sign, mag>>)
         /\ Pointer(s) => call'.ret = ret \/ (sign = 1 /\ mag = 0 /\ call'.ret = 0)
  <1>1. CASE Pointer(s) /\ ~(sign = 1 /\ mag = 0 /\ Refuse(fn, <<s, e, sign, mag>>, 0))
    <2> DEFINE end == IF e # X_NULL /\ Buffer(e, WordBytes) THEN Span(e, WordBytes) ELSE {}
    <2>1. end \subseteq Cells
      BY SizesAssumption, BufferInside
    <2>2. Owed(fn, <<s, e, sign, mag>>) => IsText(1, s)
      BY DEF Owed, Wide
    <2>3. PICK touched : /\ touched = (IF IsText(1, s) THEN Span(s, Length(memory, 1, s) + 1)
                                       ELSE Onward(s)) \cup end
                         /\ Answer(fn, <<s, e, sign, mag>>, ret, touched)
      BY <1>1 DEF Parse
    <2> HIDE DEF end
    <2>4. IsText(1, s) => touched \subseteq Cells
      <3>1. SUFFICES ASSUME IsText(1, s) PROVE touched \subseteq Cells
        OBVIOUS
      <3>2. PICK n \in Nat : n = Length(memory, 1, s) /\ Span(s, 1 * (n + 1)) \subseteq Cells
        BY <3>1, TextInside DEF IsText
      <3>3. 1 * (n + 1) = n + 1
        BY <3>2
      <3>4. touched = Span(s, n + 1) \cup end /\ Span(s, n + 1) \subseteq Cells
        BY <2>3, <3>1, <3>2, <3>3
      <3>5. QED
        BY <2>1, <3>4
    <2>5. QED
      BY <2>2, <2>3, <2>4, AnswerAnswers
  <1>2. QED
    BY <1>1, RefuseAnswers DEF Parse

\* What is left of the memory is a number of 32 bits.
LEMMA LeftIsNumber ==
  ASSUME NEW s \in Nat, NEW n \in Nat
  PROVE  Left(s) \in Nat /\ Smaller(Left(s), n) \in Nat
  BY SizesAssumption, WidthsAssumption DEF Left, Smaller

Searches == {"memchr", "wmemchr"}
Narrows == {"strtol", "strtoul"}
Copies == {"strcpy", "wcscpy", "strncat", "wcsncat"}

\* Every function answers, and touches nothing outside if it got what it is owed; those that do
\* not search, narrow numbers or copy texts do not answer in the name of those that do.
LEMMA CallAnswers ==
  ASSUME NextCall
  PROVE  /\ InMemory
         /\ \/ call'.fn \notin Searches \cup Narrows
            \/ \E s \in Offsets, ch \in Chars, n \in Counts : my_memchr(s, ch, n) \/ my_wmemchr(s, ch, n)
            \/ \E s, e \in Offsets, sign \in {1, -1}, mag \in Magnitudes :
                  my_strtol(s, e, sign, mag) \/ my_strtoul(s, e, sign, mag)
         /\ \/ call'.fn \notin Copies
            \/ \E d, s \in Offsets : my_strcpy(d, s) \/ my_wcscpy(d, s)
            \/ \E d, s \in Offsets, n \in Counts : my_strncat(d, s, n) \/ my_wcsncat(d, s, n)
  <1>1. ASSUME NEW d \in Offsets, NEW s \in Offsets, NEW n \in Counts,
               \/ my_memcpy(d, s, n) \/ my_wmemcpy(d, s, n) \/ my_memmove(d, s, n) \/ my_wmemmove(d, s, n)
               \/ my_memcmp(d, s, n) \/ my_wmemcmp(d, s, n) \/ my_strncmp(d, s, n) \/ my_wcsncmp(d, s, n)
               \/ my_strncpy(d, s, n) \/ my_wcsncpy(d, s, n) \/ my_strncat(d, s, n) \/ my_wcsncat(d, s, n)
        PROVE  /\ InMemory /\ call'.fn \notin Searches \cup Narrows
               /\ call'.fn \notin Copies \/ my_strncat(d, s, n) \/ my_wcsncat(d, s, n)
    <2>1. d \in Nat /\ s \in Nat /\ n \in Nat /\ WCHAR_SIZE \in Nat /\ 1 \in Nat
      BY SizesAssumption, ArgumentsAssumption, WidthsAssumption
    <2>2. CASE my_memcpy(d, s, n) \/ my_wmemcpy(d, s, n) \/ my_memmove(d, s, n) \/ my_wmemmove(d, s, n)
      <3>1. \/ Answered("memcpy", <<d, s, n>>) \/ Answered("wmemcpy", <<d, s, n>>)
            \/ Answered("memmove", <<d, s, n>>) \/ Answered("wmemmove", <<d, s, n>>)
        BY <2>1, <2>2, CopyAnswers DEF my_memcpy, my_wmemcpy, my_memmove, my_wmemmove, Sized, UnitOf, Wide
      <3>2. QED
        BY <3>1 DEF Answered, Searches, Narrows, Copies
    <2>3. CASE my_memcmp(d, s, n) \/ my_wmemcmp(d, s, n)
      <3>1. Answered("memcmp", <<d, s, n>>) \/ Answered("wmemcmp", <<d, s, n>>)
        BY <2>1, <2>3, CompareAnswers DEF my_memcmp, my_wmemcmp, Sized, UnitOf, Wide
      <3>2. QED
        BY <3>1 DEF Answered, Searches, Narrows, Copies
    <2>4. CASE my_strncmp(d, s, n) \/ my_wcsncmp(d, s, n)
      <3>1. Answered("strncmp", <<d, s, n>>) \/ Answered("wcsncmp", <<d, s, n>>)
        BY <2>1, <2>4, CompareTextsAnswers DEF my_strncmp, my_wcsncmp, UnitOf, Wide
      <3>2. QED
        BY <3>1 DEF Answered, Searches, Narrows, Copies
    <2>5. CASE my_strncpy(d, s, n) \/ my_wcsncpy(d, s, n)
      <3>1. Answered("strncpy", <<d, s, n>>) \/ Answered("wcsncpy", <<d, s, n>>)
        BY <2>1, <2>5, CopyPrefixAnswers DEF my_strncpy, my_wcsncpy, UnitOf, Wide
      <3>2. QED
        BY <3>1 DEF Answered, Searches, Narrows, Copies
    <2>6. CASE my_strncat(d, s, n) \/ my_wcsncat(d, s, n)
      <3>1. Answered("strncat", <<d, s, n>>) \/ Answered("wcsncat", <<d, s, n>>)
        BY <2>1, <2>6, AppendTextAnswers DEF my_strncat, my_wcsncat, UnitOf, Wide
      <3>2. QED
        BY <2>6, <3>1 DEF Answered, Searches, Narrows, Copies
    <2>7. QED
      BY <1>1, <2>2, <2>3, <2>4, <2>5, <2>6
  <1>2. ASSUME NEW d \in Offsets, NEW ch \in Chars, NEW n \in Counts,
               my_memset(d, ch, n) \/ my_wmemset(d, ch, n)
        PROVE  InMemory /\ call'.fn \notin Searches \cup Narrows \cup Copies
    <2>1. d \in Nat /\ n \in Nat /\ WCHAR_SIZE \in Nat /\ 1 \in Nat
      BY SizesAssumption, ArgumentsAssumption, WidthsAssumption
    <2>2. Answered("memset", <<d, ch, n>>) \/ Answered("wmemset", <<d, ch, n>>)
      BY <1>2, <2>1, FillAnswers DEF my_memset, my_wmemset, Sized, UnitOf, Wide
    <2>3. QED
      BY <2>2 DEF Answered, Searches, Narrows, Copies
  <1>3. ASSUME NEW s \in Offsets, NEW ch \in Chars, NEW n \in Counts,
               my_memchr(s, ch, n) \/ my_wmemchr(s, ch, n)
        PROVE  InMemory /\ call'.fn \notin Copies
    <2>1. s \in Nat /\ n \in Nat /\ WCHAR_SIZE \in Nat \ {0} /\ 1 \in Nat \ {0} /\ Size(WCHAR_SIZE, n) \in Nat
      BY SizesAssumption, ArgumentsAssumption, WidthsAssumption DEF Size
    <2>2. Smaller(Left(s), n) \in Nat /\ Smaller(Left(s), Size(WCHAR_SIZE, n)) \in Nat
      BY <2>1, LeftIsNumber
    <2>3. \E m \in Counts : Answered("memchr", <<s, ch, m>>) \/ Answered("wmemchr", <<s, ch, m>>)
      BY <1>3, <2>1, <2>2, SeekAnswers DEF my_memchr, my_wmemchr
    <2>4. QED
      BY <2>3 DEF Answered, Copies
  <1>4. ASSUME NEW d \in Offsets, NEW s \in Offsets,
               my_strcmp(d, s) \/ my_wcscmp(d, s) \/ my_strcpy(d, s) \/ my_wcscpy(d, s)
        PROVE  /\ InMemory /\ call'.fn \notin Searches \cup Narrows
               /\ call'.fn \notin Copies \/ my_strcpy(d, s) \/ my_wcscpy(d, s)
    <2>1. d \in Nat /\ s \in Nat /\ WCHAR_SIZE \in Nat /\ 1 \in Nat /\ MemorySize + 1 \in Nat
      BY SizesAssumption, ArgumentsAssumption, WidthsAssumption
    <2>2. CASE my_strcmp(d, s) \/ my_wcscmp(d, s)
      <3>1. Answered("strcmp", <<d, s, MemorySize + 1>>) \/ Answered("wcscmp", <<d, s, MemorySize + 1>>)
        BY <2>1, <2>2, CompareTextsAnswers DEF my_strcmp, my_wcscmp, UnitOf, Wide
      <3>2. QED
        BY <3>1 DEF Answered, Searches, Narrows, Copies
    <2>3. CASE my_strcpy(d, s) \/ my_wcscpy(d, s)
      <3>1. Answered("strcpy", <<d, s>>) \/ Answered("wcscpy", <<d, s>>)
        BY <2>1, <2>3, CopyTextAnswers DEF my_strcpy, my_wcscpy, UnitOf, Wide
      <3>2. QED
        BY <2>3, <3>1 DEF Answered, Searches, Narrows, Copies
    <2>4. QED
      BY <1>4, <2>2, <2>3
  <1>5. ASSUME NEW s \in Offsets, NEW ch \in Chars, my_strchrnul(s, ch) \/ my_wcschr(s, ch)
        PROVE  InMemory /\ call'.fn \notin Searches \cup Narrows \cup Copies
    <2>1. s \in Nat /\ WCHAR_SIZE \in Nat /\ 1 \in Nat
      BY SizesAssumption, ArgumentsAssumption, WidthsAssumption
    <2>2. CASE my_strchrnul(s, ch)
      <3>1. Answered("strchrnul", <<s, ch>>)
        BY <2>1, <2>2, FindAnswers, RefuseAnswers DEF my_strchrnul, UnitOf, Wide
      <3>2. QED
        BY <3>1 DEF Answered, Searches, Narrows, Copies
    <2>3. CASE my_wcschr(s, ch)
      <3>1. Answered("wcschr", <<s, ch>>)
        BY <2>1, <2>3, FindAnswers DEF my_wcschr, UnitOf, Wide
      <3>2. QED
        BY <3>1 DEF Answered, Searches, Narrows, Copies
    <2>4. QED
      BY <1>5, <2>2, <2>3
  <1>6. ASSUME NEW s \in Offsets, my_strlen(s) \/ my_wcslen(s)
        PROVE  InMemory /\ call'.fn \notin Searches \cup Narrows \cup Copies
    <2>1. s \in Nat /\ WCHAR_SIZE \in Nat /\ 1 \in Nat
      BY SizesAssumption, ArgumentsAssumption, WidthsAssumption
    <2>2. Answered("strlen", <<s>>) \/ Answered("wcslen", <<s>>)
      BY <1>6, <2>1, MeasureAnswers DEF my_strlen, my_wcslen, UnitOf, Wide
    <2>3. QED
      BY <2>2 DEF Answered, Searches, Narrows, Copies
  <1>7. ASSUME NEW s \in Offsets, NEW e \in Offsets, NEW sign \in {1, -1}, NEW mag \in Magnitudes
        PROVE  /\ my_strtol(s, e, sign, mag) \/ my_strtoul(s, e, sign, mag) =>
                     InMemory /\ call'.fn \notin Copies
               /\ my_strtoll(s, e, sign, mag) \/ my_strtoull(s, e, sign, mag) =>
                     InMemory /\ call'.fn \notin Searches \cup Narrows \cup Copies
    <2>1. s \in Nat /\ e \in Nat
      BY SizesAssumption, ArgumentsAssumption, WidthsAssumption
    <2>2. my_strtol(s, e, sign, mag) \/ my_strtoul(s, e, sign, mag) =>
             Answered("strtol", <<s, e, sign, mag>>) \/ Answered("strtoul", <<s, e, sign, mag>>)
      BY <2>1, ParseAnswers DEF my_strtol, my_strtoul
    <2>3. my_strtoll(s, e, sign, mag) \/ my_strtoull(s, e, sign, mag) =>
             Answered("strtoll", <<s, e, sign, mag>>) \/ Answered("strtoull", <<s, e, sign, mag>>)
      BY <2>1, ParseAnswers DEF my_strtoll, my_strtoull
    <2>4. QED
      BY <2>2, <2>3 DEF Answered, Searches, Narrows, Copies
  <1>8. QED
    BY <1>1, <1>2, <1>3, <1>4, <1>5, <1>6, <1>7 DEF NextCall

-----------------------------------------------------------------------------
\* A function that gets what it is owed, or like memcpy and memchr is owed nothing, touches nothing
\* outside the program's memory.
THEOREM AlwaysInMemory == Spec => StaysInMemory
  <1>1. [Next]_vars => [InMemory]_vars
    <2>1. NextCall => InMemory
      BY CallAnswers
    <2>2. Return => InMemory
      BY DEF Return, NoCall, InMemory
    <2>3. QED
      BY <2>1, <2>2 DEF Next
  <1>2. QED
    BY <1>1, PTL DEF Spec, StaysInMemory

-----------------------------------------------------------------------------
(* Searching.                                                               *)

\* Fewer units are fewer bytes, and the other way around.
LEMMA ScaledBack ==
  ASSUME NEW u \in Nat \ {0}, NEW m \in Nat, NEW n \in Nat
  PROVE  m < n <=> u * m + u <= u * n
  <1>1. ASSUME m < n PROVE u * m + u <= u * n
    <2>1. u * (m + 1) <= u * n
      BY <1>1, Scaled
    <2>2. u * (m + 1) = u * m + u
      OBVIOUS
    <2>3. QED
      BY <2>1, <2>2
  <1>2. ASSUME n <= m PROVE ~(u * m + u <= u * n)
    <2>1. u * n <= u * m /\ u * m \in Nat /\ u * n \in Nat
      BY <1>2, Scaled
    <2>2. QED
      BY <2>1
  <1>3. QED
    BY <1>1, <1>2

\* The units that a search finds.
Hits(m, u, s, ch, n) == {k \in 0..n - 1 : Buffer(s + u * k, u) /\ Unit(m, u, s + u * k) = Cut(ch, u)}

CutTo(u, s, n, max_size) == max_size = Smaller(Left(s), u * n)
UnitFits(u, s, k) == Buffer(s + u * k, u)

\* The size that memchr and wmemchr cut to what is left of a memory holds just the units that
\* both the count and the memory hold.
LEMMA CutSize ==
  ASSUME MemorySize < Word, NEW u \in Nat \ {0}, NEW s \in Nat, NEW n \in Nat, NEW max_size \in Nat,
         CutTo(u, s, n, max_size)
  PROVE  /\ Buffer(s, max_size) <=> s <= MemorySize
         /\ Buffer(s, max_size) => \A k \in Nat : k < max_size \div u <=> k < n /\ UnitFits(u, s, k)
  <1>1. u * n \in Nat
    OBVIOUS
  <1>2. CASE s <= MemorySize
    <2>1. MemorySize - s \in Nat /\ MemorySize - s < Word
      BY <1>2, SizesAssumption, WidthsAssumption
    <2>2. Left(s) = MemorySize - s
      BY <2>1, WidthsAssumption DEF Left
    <2>3. \A x \in Nat : x <= max_size <=> x <= MemorySize - s /\ x <= u * n
      BY <1>1, <2>1, <2>2 DEF Smaller, CutTo
    <2>4. Buffer(s, max_size)
      BY <2>1, <2>3, SizesAssumption DEF Buffer
    <2>5. PICK q \in Nat : q = max_size \div u /\ u * q <= max_size /\ max_size < u * q + u
      BY Whole
    <2>6. ASSUME NEW k \in Nat PROVE k < q <=> k < n /\ UnitFits(u, s, k)
      <3>1. u * k \in Nat /\ u * q \in Nat /\ u * k + u \in Nat
        OBVIOUS
      <3>2. k < q <=> u * k + u <= u * q
        BY ScaledBack
      <3>3. k < n <=> u * k + u <= u * n
        BY ScaledBack
      <3>4. UnitFits(u, s, k) <=> u * k + u <= MemorySize - s
        BY <2>1, <3>1, SizesAssumption DEF Buffer, UnitFits
      <3>5. k < n /\ UnitFits(u, s, k) <=> u * k + u <= max_size
        BY <2>3, <3>1, <3>3, <3>4
      <3>6. k < q => u * k + u <= max_size
        BY <2>5, <3>1, <3>2
      <3>7. ASSUME q <= k PROVE ~(u * k + u <= max_size)
        <4>1. u * q <= u * k
          BY <3>7, Scaled
        <4>2. QED
          BY <2>5, <3>1, <4>1
      <3>8. QED
        BY <3>5, <3>6, <3>7
    <2>7. QED
      BY <1>2, <2>4, <2>5, <2>6
  <1>3. CASE ~(s <= MemorySize)
    BY <1>3, SizesAssumption DEF Buffer
  <1>4. QED
    BY <1>2, <1>3

\* memchr and wmemchr give the first unit that is there.
LEMMA SeekFinds ==
  ASSUME MemorySize < Word, NEW fn, NEW u \in Nat \ {0}, NEW s \in Nat, NEW ch, NEW n \in Nat,
         NEW max_size \in Nat, CutTo(u, s, n, max_size), Seek(fn, u, s, ch, n, max_size)
  PROVE  /\ call'.fn = fn /\ call'.args = <<s, ch, n>> /\ memory' = memory
         /\ call'.ret = IF Hits(memory, u, s, ch, n) = {} THEN X_NULL
                        ELSE s + u * Min(Hits(memory, u, s, ch, n))
  <1> DEFINE At(k) == s + u * k
             Found(x) == Unit(memory, u, x) = Cut(ch, u)
             Fits(k) == UnitFits(u, s, k)
  <1>1. PICK H : /\ H = Hits(memory, u, s, ch, n)
                 /\ H = {k \in 0..n - 1 : Fits(k) /\ Found(At(k))}
    BY DEF Hits, UnitFits
  <1>2. CASE Buffer(s, max_size)
    <2>1. PICK q \in Nat : q = max_size \div u
      BY Whole
    <2>2. \A k \in Nat : k < max_size \div u <=> k < n /\ UnitFits(u, s, k)
      BY <1>2, CutSize
    <2>3. PICK G, touched : /\ G = {x \in {s + u * k : k \in 0..max_size \div u - 1} :
                                      Unit(memory, u, x) = Cut(ch, u)}
                            /\ touched = Span(s, u * (max_size \div u))
      OBVIOUS
    <2>4. /\ call'.fn = fn /\ call'.args = <<s, ch, n>> /\ memory' = memory
          /\ call'.ret = IF G = {} THEN X_NULL ELSE Min(G)
      <3>1. Answer(fn, <<s, ch, n>>, IF G = {} THEN X_NULL ELSE Min(G), touched) /\ UNCHANGED memory
        BY <1>2, <2>3 DEF Seek
      <3>2. QED
        BY <3>1 DEF Answer
    <2>5. G = {x \in {At(k) : k \in 0..q - 1} : Found(x)}
      BY <2>1, <2>3
    <2>6. \A k \in Nat : k < q <=> k < n /\ Fits(k)
      BY <2>1, <2>2
    <2> HIDE DEF At, Found, Fits
    <2>7. H \subseteq Nat /\ \A k \in Nat : k \in H <=> k \in 0..q - 1 /\ Found(At(k))
      BY <1>1, <2>6
    <2>8. \A k \in H : At(k) \in G
      BY <2>5, <2>7
    <2>9. \A x \in G : \E k \in H : x = At(k)
      <3>1. 0..q - 1 \subseteq Nat
        OBVIOUS
      <3>2. QED
        BY <2>5, <2>7, <3>1
    <2> USE DEF At
    <2>10. CASE H = {}
      BY <1>1, <2>4, <2>9, <2>10
    <2>11. CASE H # {}
      <3>1. PICK m \in Nat : m = Min(H) /\ m \in H /\ \A k \in H : m <= k
        BY <2>7, <2>11, LeastNumber
      <3>2. s + u * m \in G /\ G # {}
        BY <2>8, <3>1
      <3>3. G \subseteq Nat
        BY <2>7, <2>9
      <3>4. Min(G) \in G /\ Min(G) <= s + u * m
        BY <3>2, <3>3, LeastNumber
      <3>5. PICK k \in H : Min(G) = s + u * k
        BY <2>9, <3>4
      <3>6. u * m \in Nat /\ u * k \in Nat /\ u * m <= u * k
        BY <2>7, <3>1, Scaled
      <3>7. Min(G) = s + u * m
        BY <3>4, <3>5, <3>6
      <3>8. QED
        BY <1>1, <2>4, <2>11, <3>1, <3>2, <3>7
    <2>12. QED
      BY <2>10, <2>11
  <1>3. CASE ~Buffer(s, max_size)
    <2>1. MemorySize < s
      BY <1>3, CutSize, SizesAssumption
    <2>2. \A k \in Nat : ~Buffer(s + u * k, u)
      <3>1. \A k \in Nat : u * k \in Nat
        OBVIOUS
      <3>2. QED
        BY <2>1, <3>1, SizesAssumption DEF Buffer
    <2>3. H = {}
      <3>1. \A k \in Nat : ~Fits(k)
        BY <2>2, Zenon DEF UnitFits
      <3> HIDE DEF At, Found, Fits
      <3>2. QED
        BY <1>1, <3>1
    <2>4. QED
      BY <1>1, <1>3, <2>3 DEF Seek, Refuse, Answer
  <1>4. QED
    BY <1>2, <1>3

\* In a memory smaller than 2^32 memchr and wmemchr find the first occurrence among the units
\* that both the count and the memory hold.
THEOREM AlwaysFinds ==
  ASSUME MemorySize < Word
  PROVE  Spec => []SearchesFind
  <1>1. Init => SearchesFind
    BY DEF Init, NoCall, SearchesFind
  <1>2. SearchesFind /\ [Next]_vars => SearchesFind'
    <2>1. ASSUME NEW s \in Offsets, NEW ch \in Chars, NEW n \in Counts, my_memchr(s, ch, n)
          PROVE  SearchesFind'
      <3>1. s \in Nat /\ n \in Nat /\ 1 \in Nat \ {0} /\ n = 1 * n
        BY ArgumentsAssumption, WidthsAssumption
      <3>2. PICK max_size \in Nat : CutTo(1, s, n, max_size) /\ Seek("memchr", 1, s, ch, n, max_size)
        BY <2>1, <3>1, LeftIsNumber DEF my_memchr, CutTo
      <3>3. /\ call'.fn = "memchr" /\ call'.args = <<s, ch, n>> /\ memory' = memory
            /\ call'.ret = IF Hits(memory, 1, s, ch, n) = {} THEN X_NULL
                           ELSE s + 1 * Min(Hits(memory, 1, s, ch, n))
        <4>1. PICK one \in Nat \ {0} : one = 1
          OBVIOUS
        <4>2. CutTo(one, s, n, max_size) /\ Seek("memchr", one, s, ch, n, max_size)
          BY <3>2, <4>1
        <4>3. /\ call'.fn = "memchr" /\ call'.args = <<s, ch, n>> /\ memory' = memory
              /\ call'.ret = IF Hits(memory, one, s, ch, n) = {} THEN X_NULL
                             ELSE s + one * Min(Hits(memory, one, s, ch, n))
          BY <3>1, <3>2, <4>2, SeekFinds
        <4>4. QED
          BY <4>1, <4>3
      <3>4. QED
        BY <3>3 DEF SearchesFind, Hits
    <2>2. ASSUME NEW s \in Offsets, NEW ch \in Chars, NEW n \in Counts, my_wmemchr(s, ch, n)
          PROVE  SearchesFind'
      <3>1. /\ s \in Nat /\ n \in Nat /\ WCHAR_SIZE \in Nat \ {0} /\ WCHAR_SIZE * n \in Nat
            /\ Size(WCHAR_SIZE, n) \in Nat
        BY SizesAssumption, ArgumentsAssumption, WidthsAssumption DEF Size
      <3>2. PICK size \in Nat, max_size \in Nat : /\ size = Size(WCHAR_SIZE, n)
                                                /\ max_size = Smaller(Left(s), size)
                                                /\ Seek("wmemchr", WCHAR_SIZE, s, ch, n, max_size)
        BY <2>2, <3>1, LeftIsNumber DEF my_wmemchr
      <3>3. CASE SizeFits(WCHAR_SIZE, n)
        <4>1. CutTo(WCHAR_SIZE, s, n, max_size)
          <5>1. size = WCHAR_SIZE * n
            <6>1. PICK m \in Nat : m = WCHAR_SIZE * n /\ m < Word
              BY <3>1, <3>3 DEF SizeFits
            <6>2. m % Word = m
              BY <6>1, WidthsAssumption
            <6>3. QED
              BY <3>2, <6>1, <6>2 DEF Size
          <5>2. QED
            BY <3>2, <5>1 DEF CutTo
        <4>2. /\ call'.fn = "wmemchr" /\ call'.args = <<s, ch, n>> /\ memory' = memory
              /\ call'.ret = IF Hits(memory, WCHAR_SIZE, s, ch, n) = {} THEN X_NULL
                             ELSE s + WCHAR_SIZE * Min(Hits(memory, WCHAR_SIZE, s, ch, n))
          BY <3>1, <3>2, <4>1, SeekFinds
        <4>3. QED
          BY <4>2 DEF SearchesFind, Hits
      <3>4. CASE ~SizeFits(WCHAR_SIZE, n)
        <4>1. Answered("wmemchr", <<s, ch, n>>)
          BY <3>1, <3>2, SeekAnswers
        <4>2. QED
          BY <3>4, <4>1 DEF SearchesFind, Answered
      <3>5. QED
        BY <3>3, <3>4
    <2>3. ASSUME NEW s \in Offsets, NEW e \in Offsets, NEW sign \in {1, -1}, NEW mag \in Magnitudes,
                 my_strtol(s, e, sign, mag) \/ my_strtoul(s, e, sign, mag)
          PROVE  SearchesFind'
      <3>1. s \in Nat /\ e \in Nat
        BY ArgumentsAssumption, WidthsAssumption
      <3>2. call'.fn \in Narrows
        BY <2>3, <3>1, ParseAnswers DEF my_strtol, my_strtoul, Answered, Narrows
      <3>3. QED
        BY <3>2 DEF Narrows, SearchesFind
    <2>4. NextCall => SearchesFind'
      <3>1. call'.fn \notin Searches \cup Narrows => SearchesFind'
        BY DEF Searches, SearchesFind
      <3>2. QED
        BY <2>1, <2>2, <2>3, <3>1, CallAnswers
    <2>5. Return => SearchesFind'
      BY DEF Return, NoCall, SearchesFind
    <2>6. SearchesFind /\ UNCHANGED vars => SearchesFind'
      BY DEF vars, SearchesFind
    <2>7. QED
      BY <2>4, <2>5, <2>6 DEF Next
  <1>3. QED
    BY <1>1, <1>2, PTL DEF Spec

-----------------------------------------------------------------------------
(* Narrowing.                                                               *)

\* The remainders of small numbers.
LEMMA SmallRemainder ==
  ASSUME NEW m \in Nat, NEW range \in Nat, m < range
  PROVE  /\ m % range = m
         /\ m # 0 => (-m) % range = range - m
  <1>1. m % range = m
    OBVIOUS
  <1>2. ASSUME m # 0 PROVE (-m) % range = range - m
    <2>1. PICK q \in Int, r \in Int : q = (-m) \div range /\ r = (-m) % range /\ 0 <= r /\ r < range
      OBVIOUS
    <2>2. -m = range * q + r
      BY <2>1
    <2>3. ~(q >= 0)
      BY <1>2, <2>1, <2>2
    <2>4. ~(q <= -2)
      <3>1. ASSUME q <= -2 PROVE FALSE
        <4>1. range * q <= range * (-2)
          BY <3>1
        <4>2. QED
          BY <2>1, <2>2, <4>1
      <3>2. QED
        BY <3>1
    <2>5. q = -1
      BY <2>1, <2>3, <2>4
    <2>6. QED
      BY <2>1, <2>2, <2>5
  <1>3. QED
    BY <1>1, <1>2

\* Saturating to 64 bits and then to 32 is saturating to 32 bits.
LEMMA LongNarrows ==
  ASSUME NEW sign \in {1, -1}, NEW mag \in Nat
  PROVE  Clamp(HostSigned(sign, mag, Long), -(Word \div 2), Word \div 2 - 1) = HostSigned(sign, mag, Word)
  <1>1. PICK v \in Int : v = sign * mag
    OBVIOUS
  <1>2. PICK w \in Nat, l \in Nat : w = Word \div 2 /\ l = Long \div 2 /\ w <= l /\ 0 < l
    BY WidthsAssumption
  <1>3. /\ HostSigned(sign, mag, Long) = Clamp(v, -l, l - 1)
        /\ HostSigned(sign, mag, Word) = Clamp(v, -w, w - 1)
    BY <1>1, <1>2 DEF HostSigned
  <1>4. Clamp(Clamp(v, -l, l - 1), -w, w - 1) = Clamp(v, -w, w - 1)
    BY <1>2 DEF Clamp
  <1>5. QED
    BY <1>2, <1>3, <1>4

\* What strtoul makes of the number of the host.
Narrowed(v) == LET mid_result == Signed(v, Long)
               IN  IF mid_result > Word - 1 \/ mid_result < -(Word - 1) THEN Word - 1 ELSE mid_result % Word

\* strtoul gives the 32 bits of its own numbers, but for those that pass for small negative ones.
LEMMA UnsignedNarrows ==
  ASSUME NEW sign \in {1, -1}, NEW mag \in Nat, mag \notin Long - Word + 1..Long - 1
  PROVE  Narrowed(HostUnsigned(sign, mag, Long)) = HostUnsigned(sign, mag, Word)
  <1> USE WidthsAssumption
  <1>1. CASE mag >= Long
    <2>1. HostUnsigned(sign, mag, Long) = Long - 1 /\ HostUnsigned(sign, mag, Word) = Word - 1
      BY <1>1 DEF HostUnsigned
    <2>2. Signed(Long - 1, Long) = -1
      BY DEF Signed
    <2>3. 1 < Word => (-1) % Word = Word - 1
      <3>1. 1 \in Nat /\ 1 # 0 /\ Word \in Nat
        OBVIOUS
      <3>2. QED
        BY <3>1, SmallRemainder
    <2>4. QED
      BY <2>1, <2>2, <2>3 DEF Narrowed
  <1>2. CASE mag < Long /\ sign = 1
    <2>1. mag <= Long - Word
      BY <1>2
    <2>2. HostUnsigned(sign, mag, Long) = mag
      BY <1>2, SmallRemainder DEF HostUnsigned
    <2>3. HostUnsigned(sign, mag, Word) = IF mag >= Word THEN Word - 1 ELSE mag
      <3>1. sign * mag = mag
        BY <1>2
      <3>2. mag < Word => mag % Word = mag
        BY SmallRemainder
      <3>3. QED
        BY <3>1, <3>2 DEF HostUnsigned
    <2>4. CASE 2 * mag >= Long
      BY <2>1, <2>2, <2>3, <2>4 DEF Narrowed, Signed
    <2>5. CASE 2 * mag < Long
      <3>1. Signed(mag, Long) = mag
        BY <2>5 DEF Signed
      <3>2. mag < Word => mag % Word = mag
        BY SmallRemainder
      <3>3. QED
        BY <2>2, <2>3, <3>1, <3>2 DEF Narrowed
    <2>6. QED
      BY <2>4, <2>5
  <1>3. CASE mag < Long /\ sign = -1 /\ mag # 0
    <2>1. mag <= Long - Word
      BY <1>3
    <2>2. HostUnsigned(sign, mag, Long) = Long - mag
      <3>1. sign * mag = -mag /\ (-mag) % Long = Long - mag
        <4>1. sign * mag = -mag
          BY <1>3
        <4>2. (-mag) % Long = Long - mag
          BY <1>3, SmallRemainder
        <4>3. QED
          BY <4>1, <4>2
      <3>2. QED
        BY <1>3, <3>1 DEF HostUnsigned
    <2>3. HostUnsigned(sign, mag, Word) = IF mag >= Word THEN Word - 1 ELSE (-mag) % Word
      <3>1. sign * mag = -mag
        BY <1>3
      <3>2. QED
        BY <3>1 DEF HostUnsigned
    <2>4. CASE 2 * mag > Long
      <3>1. Signed(Long - mag, Long) = Long - mag
        BY <1>3, <2>4 DEF Signed
      <3>2. QED
        BY <2>1, <2>2, <2>3, <2>4, <3>1 DEF Narrowed
    <2>5. CASE 2 * mag <= Long
      <3>1. Signed(Long - mag, Long) = -mag
        BY <1>3, <2>5 DEF Signed
      <3>2. QED
        BY <2>2, <2>3, <3>1 DEF Narrowed
    <2>6. QED
      BY <2>4, <2>5
  <1>4. CASE mag < Long /\ mag = 0
    <2>1. sign * mag = 0 /\ 0 % Long = 0 /\ 0 % Word = 0
      BY <1>4, SmallRemainder
    <2>2. HostUnsigned(sign, mag, Long) = 0 /\ HostUnsigned(sign, mag, Word) = 0 /\ Signed(0, Long) = 0
      BY <1>4, <2>1 DEF HostUnsigned, Signed
    <2>3. QED
      BY <2>1, <2>2 DEF Narrowed
  <1>5. QED
    BY <1>1, <1>2, <1>3, <1>4

\* Zero is zero in any width.
LEMMA ZeroNarrows == HostSigned(1, 0, Word) = 0 /\ HostUnsigned(1, 0, Word) = 0
  <1>1. PICK w \in Nat : w = Word \div 2 /\ 0 < w
    BY WidthsAssumption
  <1>2. 1 * 0 = 0 /\ 0 % Word = 0 /\ ~(0 >= Word)
    BY WidthsAssumption
  <1>3. QED
    BY <1>1, <1>2 DEF HostSigned, HostUnsigned, Clamp

\* A program gets from strtol and strtoul what a 32-bit library would give it; strtoul does not
\* for numbers within 2^32 of 2^64.
THEOREM AlwaysNarrows == Spec => []NumbersNarrow
  <1>1. Init => NumbersNarrow
    BY DEF Init, NoCall, NumbersNarrow
  <1>2. NumbersNarrow /\ [Next]_vars => NumbersNarrow'
    <2>1. ASSUME NEW s \in Offsets, NEW e \in Offsets, NEW sign \in {1, -1}, NEW mag \in Magnitudes,
                 my_strtol(s, e, sign, mag)
          PROVE  NumbersNarrow'
      <3>1. s \in Nat /\ e \in Nat /\ mag \in Nat
        BY SizesAssumption, ArgumentsAssumption, WidthsAssumption
      <3>2. PICK ret : /\ ret = Clamp(HostSigned(sign, mag, Long), -(Word \div 2), Word \div 2 - 1)
                       /\ Parse("strtol", s, e, sign, mag, ret)
        BY <2>1 DEF my_strtol
      <3>3. /\ call'.fn = "strtol" /\ call'.args = <<s, e, sign, mag>>
            /\ Pointer(s) => call'.ret = ret \/ (sign = 1 /\ mag = 0 /\ call'.ret = 0)
        BY <3>1, <3>2, ParseAnswers DEF Answered
      <3>4. ret = HostSigned(sign, mag, Word)
        BY <3>1, <3>2, LongNarrows
      <3>5. sign = 1 /\ mag = 0 => HostSigned(sign, mag, Word) = 0
        BY ZeroNarrows
      <3>6. QED
        BY <3>3, <3>4, <3>5 DEF NumbersNarrow
    <2>2. ASSUME NEW s \in Offsets, NEW e \in Offsets, NEW sign \in {1, -1}, NEW mag \in Magnitudes,
                 my_strtoul(s, e, sign, mag)
          PROVE  NumbersNarrow'
      <3>1. s \in Nat /\ e \in Nat /\ mag \in Nat
        BY SizesAssumption, ArgumentsAssumption, WidthsAssumption
      <3>2. PICK ret : /\ ret = Narrowed(HostUnsigned(sign, mag, Long))
                       /\ Parse("strtoul", s, e, sign, mag, ret)
        BY <2>2 DEF my_strtoul, Narrowed
      <3>3. /\ call'.fn = "strtoul" /\ call'.args = <<s, e, sign, mag>>
            /\ Pointer(s) => call'.ret = ret \/ (sign = 1 /\ mag = 0 /\ call'.ret = 0)
        BY <3>1, <3>2, ParseAnswers DEF Answered
      <3>4. mag \notin Long - Word + 1..Long - 1 => ret = HostUnsigned(sign, mag, Word)
        BY <3>1, <3>2, UnsignedNarrows
      <3>5. sign = 1 /\ mag = 0 => HostUnsigned(sign, mag, Word) = 0
        BY ZeroNarrows
      <3>6. QED
        BY <3>3, <3>4, <3>5 DEF NumbersNarrow
    <2>3. ASSUME NEW s \in Offsets, NEW ch \in Chars, NEW n \in Counts,
                 my_memchr(s, ch, n) \/ my_wmemchr(s, ch, n)
          PROVE  NumbersNarrow'
      <3>1. /\ s \in Nat /\ n \in Nat /\ WCHAR_SIZE \in Nat \ {0} /\ 1 \in Nat \ {0}
            /\ Size(WCHAR_SIZE, n) \in Nat
        BY SizesAssumption, ArgumentsAssumption, WidthsAssumption DEF Size
      <3>2. Smaller(Left(s), n) \in Nat /\ Smaller(Left(s), Size(WCHAR_SIZE, n)) \in Nat
        BY <3>1, LeftIsNumber
      <3>3. call'.fn \in Searches
        BY <2>3, <3>1, <3>2, SeekAnswers DEF my_memchr, my_wmemchr, Answered, Searches
      <3>4. QED
        BY <3>3 DEF Searches, NumbersNarrow
    <2>4. NextCall => NumbersNarrow'
      <3>1. call'.fn \notin Searches \cup Narrows => NumbersNarrow'
        BY DEF Narrows, NumbersNarrow
      <3>2. QED
        BY <2>1, <2>2, <2>3, <3>1, CallAnswers
    <2>5. Return => NumbersNarrow'
      BY DEF Return, NoCall, NumbersNarrow
    <2>6. NumbersNarrow /\ UNCHANGED vars => NumbersNarrow'
      BY DEF vars, NumbersNarrow
    <2>7. QED
      BY <2>4, <2>5, <2>6 DEF Next
  <1>3. QED
    BY <1>1, <1>2, PTL DEF Spec

-----------------------------------------------------------------------------
(* Texts arrive.                                                            *)

\* Where byte i of unit k is among units of u bytes.
LEMMA Placed ==
  ASSUME NEW u \in Nat \ {0}, NEW n \in Nat, NEW k \in 1..n, NEW i \in 0..u - 1, NEW y,
         y = u * (k - 1) + i
  PROVE  y \in Nat /\ y < u * n /\ y \div u = k - 1 /\ y % u = i
  <1>1. PICK j \in Nat : j = k - 1 /\ j + 1 <= n
    OBVIOUS
  <1>2. y = u * j + i /\ y \in Nat
    BY <1>1
  <1>3. u * (j + 1) <= u * n /\ u * (j + 1) = u * j + u
    BY <1>1, Scaled
  <1>4. y < u * n
    BY <1>1, <1>2, <1>3
  <1>5. PICK q \in Nat, r \in Nat : q = y \div u /\ r = y % u /\ r < u /\ y = u * q + r
    BY <1>2
  <1>6. q = j
    <2>1. ASSUME q < j PROVE FALSE
      <3>1. u * (q + 1) <= u * j /\ u * (q + 1) = u * q + u /\ u * j \in Nat
        BY <2>1, Scaled
      <3>2. QED
        BY <1>2, <1>5, <3>1
    <2>2. ASSUME j < q PROVE FALSE
      <3>1. u * (j + 1) <= u * q /\ u * q \in Nat /\ u * j \in Nat
        BY <2>2, Scaled
      <3>2. QED
        BY <1>2, <1>3, <1>5, <3>1
    <2>3. QED
      BY <2>1, <2>2
  <1>7. QED
    <2>1. u * j \in Nat
      BY <1>1
    <2>2. QED
      BY <1>1, <1>2, <1>4, <1>5, <1>6, <2>1

\* Sequences of units of u bytes.
Shaped(v, u) == v = [i \in 0..u - 1 |-> v[i]]
AreUnits(us, u) == us = [k \in 1..Len(us) |-> us[k]] /\ Len(us) \in Nat
                     /\ \A k \in 1..Len(us) : Shaped(us[k], u)

\* What is read of a memory are units.
LEMMA UnitsAreUnits ==
  ASSUME NEW m, NEW u \in Nat, NEW x, NEW n \in Nat
  PROVE  AreUnits(Units(m, u, x, n), u) /\ Len(Units(m, u, x, n)) = n
  <1>1. \A z : Shaped(Unit(m, u, z), u)
    BY DEF Shaped, Unit
  <1>2. Len(Units(m, u, x, n)) = n
    BY DEF Units
  <1>3. QED
    BY <1>1, <1>2 DEF AreUnits, Units

\* Units one after another are units.
LEMMA UnitsConcat ==
  ASSUME NEW u, NEW a, NEW b, AreUnits(a, u), AreUnits(b, u)
  PROVE  AreUnits(a \o b, u) /\ Len(a \o b) = Len(a) + Len(b)
  <1>1. PICK V : a \in Seq(V) /\ b \in Seq(V)
    <2> DEFINE V == {a[k] : k \in 1..Len(a)} \cup {b[k] : k \in 1..Len(b)}
    <2>1. a \in Seq(V) /\ b \in Seq(V)
      BY DEF AreUnits
    <2>2. QED
      BY <2>1
  <1>2. Len(a \o b) = Len(a) + Len(b) /\ a \o b \in Seq(V)
    BY <1>1
  <1>3. \A k \in 1..Len(a \o b) : Shaped((a \o b)[k], u)
    <2>1. SUFFICES ASSUME NEW k \in 1..Len(a \o b) PROVE Shaped((a \o b)[k], u)
      OBVIOUS
    <2>2. CASE k <= Len(a)
      <3>1. (a \o b)[k] = a[k] /\ k \in 1..Len(a)
        BY <1>1, <1>2, <2>2
      <3>2. QED
        BY <3>1 DEF AreUnits
    <2>3. CASE k > Len(a)
      <3>1. (a \o b)[k] = b[k - Len(a)] /\ k - Len(a) \in 1..Len(b)
        BY <1>1, <1>2, <2>3
      <3>2. QED
        BY <3>1 DEF AreUnits
    <2>4. QED
      BY <1>1, <2>2, <2>3
  <1>4. PICK c : c = a \o b
    OBVIOUS
  <1>5. c = [k \in 1..Len(c) |-> c[k]] /\ Len(c) \in Nat
    <2>1. c \in Seq(V)
      BY <1>2, <1>4
    <2>2. c \in [1..Len(c) -> V] /\ Len(c) \in Nat
      BY <2>1
    <2>3. QED
      BY <2>2
  <1>6. QED
    BY <1>2, <1>3, <1>4, <1>5 DEF AreUnits

\* The end of a text is a unit.
LEMMA ZeroIsUnit ==
  ASSUME NEW u
  PROVE  AreUnits(<<Zero(u)>>, u) /\ Len(<<Zero(u)>>) = 1
  <1>1. Shaped(Zero(u), u)
    BY DEF Shaped, Zero, Cut
  <1>2. QED
    BY <1>1 DEF AreUnits

\* Units that were written are there, and nothing else has changed.
LEMMA WrittenIsThere ==
  ASSUME NEW m, NEW u \in Nat \ {0}, NEW d \in Nat, NEW us, AreUnits(us, u), Buffer(d, u * Len(us))
  PROVE  /\ Units(Written(m, u, d, us), u, d, Len(us)) = us
         /\ \A x \in Cells \ Span(d, u * Len(us)) : Written(m, u, d, us)[x] = m[x]
  <1> DEFINE n == Len(us)
             w == Written(m, u, d, us)
  <1>1. n \in Nat /\ u * n \in Nat
    BY DEF AreUnits
  <1>2. ASSUME NEW k \in 1..n PROVE Unit(w, u, d + u * (k - 1)) = us[k]
    <2>1. ASSUME NEW i \in 0..u - 1 PROVE Byte(w, (d + u * (k - 1)) + i) = us[k][i]
      <3>1. PICK y : y = u * (k - 1) + i
        OBVIOUS
      <3>2. y \in Nat /\ y < u * n /\ y \div u = k - 1 /\ y % u = i
        BY <1>1, <3>1, Placed
      <3>3. (d + u * (k - 1)) + i = d + y /\ (d + y) - d = y
        BY <1>1, <3>1, <3>2
      <3>4. d + y \in Span(d, u * n) /\ d + y \in Cells
        BY <1>1, <3>2, SizesAssumption DEF Span, Cells, Buffer
      <3>5. w[d + y] = us[((d + y) - d) \div u + 1][((d + y) - d) % u]
        BY <3>4 DEF Written
      <3>6. w[d + y] = us[k][i]
        BY <3>2, <3>3, <3>5
      <3>7. QED
        BY <3>3, <3>4, <3>6 DEF Byte
    <2>2. Unit(w, u, d + u * (k - 1)) = [i \in 0..u - 1 |-> us[k][i]]
      <3> HIDE DEF w
      <3>1. QED
        BY <2>1 DEF Unit
    <2>3. Shaped(us[k], u)
      BY DEF AreUnits
    <2>4. QED
      BY <2>2, <2>3, Zenon DEF Shaped
  <1>3. Units(w, u, d, n) = us
    <2> HIDE DEF w
    <2>1. Units(w, u, d, n) = [k \in 1..n |-> us[k]]
      BY <1>2 DEF Units
    <2>2. QED
      BY <2>1 DEF AreUnits
  <1>4. ASSUME NEW x \in Cells \ Span(d, u * n) PROVE w[x] = m[x]
    BY <1>4 DEF Written
  <1>5. QED
    BY <1>3, <1>4

\* What was stored has arrived; nothing happens without room for it.
LEMMA StoreArrives ==
  ASSUME NEW fn, NEW args, NEW u \in Nat \ {0}, NEW d \in Nat, NEW new, AreUnits(new, u), NEW read,
         read \cap Span(d, u * Len(new)) = {}, Store(fn, args, u, d, Len(new), new, read)
  PROVE  /\ call'.fn = fn /\ call'.args = args
         /\ IF Buffer(d, u * Len(new))
            THEN /\ Units(memory', u, d, Len(new)) = new
                 /\ \A x \in Cells \ Span(d, u * Len(new)) : memory'[x] = memory[x]
            ELSE UNCHANGED memory
  <1>1. CASE Buffer(d, u * Len(new))
    <2>1. /\ Answer(fn, args, d, read \cup Span(d, u * Len(new)))
          /\ memory' = Written(memory, u, d, new)
      BY <1>1 DEF Store
    <2>2. /\ Units(Written(memory, u, d, new), u, d, Len(new)) = new
          /\ \A x \in Cells \ Span(d, u * Len(new)) : Written(memory, u, d, new)[x] = memory[x]
      BY <1>1, WrittenIsThere
    <2>3. call'.fn = fn /\ call'.args = args
      BY <2>1 DEF Answer
    <2>4. QED
      BY <1>1, <2>1, <2>2, <2>3
  <1>2. CASE ~Buffer(d, u * Len(new))
    BY <1>2 DEF Store, Refuse, Answer
  <1>3. QED
    BY <1>1, <1>2

\* A destination with room for a text is in the memory.
LEMMA RoomIsThere ==
  ASSUME NEW u \in Nat \ {0}, NEW d \in Nat, NEW n \in Nat, Buffer(d, u * (n + 1))
  PROVE  Pointer(d)
  <1>1. PICK size \in Nat : size = u * (n + 1) /\ size >= 1
    <2>1. u * 1 <= u * (n + 1)
      BY Scaled
    <2>2. QED
      BY <2>1
  <1>2. QED
    BY <1>1, SizesAssumption DEF Buffer, Pointer

\* The text s lies apart from the place where new is to arrive.
LiesApart(u, d, s, new) == Span(d, u * (Len(new) + 1)) \cap Span(s, u * (Length(memory, u, s) + 1)) = {}

\* strcpy and wcscpy.
LEMMA CopyTextArrives ==
  ASSUME NEW fn, NEW u \in Nat \ {0}, NEW d \in Nat, NEW s \in Nat, CopyText(fn, u, d, s, 1),
         IsText(u, s), LiesApart(u, d, s, Text(memory, u, s))
  PROVE  Arrives(u, d, s, Text(memory, u, s))
  <1>1. CASE Pointer(s)
    <2>1. PICK new : new = Units(memory, u, s, Length(memory, u, s) + 1)
      OBVIOUS
    <2>2. Store(fn, <<d, s>>, u, d, Len(new), new, Span(s, u * Len(new)))
      BY <1>1, <2>1 DEF CopyText
    <2>3. PICK n \in Nat : /\ n = Length(memory, u, s) /\ n \in Ends(memory, u, s)
      <3>1. Ends(memory, u, s) \subseteq Nat
        BY SizesAssumption DEF Ends
      <3>2. QED
        BY <3>1, LeastNumber DEF Length, IsText
    <2>4. AreUnits(new, u) /\ Len(new) = n + 1
      BY <2>1, <2>3, UnitsAreUnits
    <2>5. PICK text : text = Text(memory, u, s)
      OBVIOUS
    <2>6. text = Units(memory, u, s, n) /\ AreUnits(text, u) /\ Len(text) = n
      BY <2>3, <2>5, UnitsAreUnits DEF Text
    <2>7. /\ call'.fn = fn /\ call'.args = <<d, s>>
           /\ IF Buffer(d, u * Len(new))
              THEN /\ Units(memory', u, d, Len(new)) = new
                   /\ \A x \in Cells \ Span(d, u * Len(new)) : memory'[x] = memory[x]
              ELSE UNCHANGED memory
      <3>1. Span(s, u * Len(new)) \cap Span(d, u * Len(new)) = {}
        BY <2>3, <2>4, <2>5, <2>6 DEF LiesApart
      <3>2. QED
        BY <2>2, <2>4, <3>1, StoreArrives
    <2>8. new = text \o <<Zero(u)>>
      <3>1. Unit(memory, u, s + u * n) = Zero(u)
        BY <2>3 DEF Ends
      <3>2. \A k \in 1..n + 1 : new[k] = Unit(memory, u, s + u * (k - 1))
        BY <2>1, <2>3 DEF Units
      <3>3. \A k \in 1..n : text[k] = new[k]
        BY <2>6, <3>2 DEF Units
      <3>4. new[n + 1] = Zero(u)
        <4>1. n + 1 \in 1..n + 1 /\ (n + 1) - 1 = n
          BY <2>3
        <4>2. QED
          BY <3>1, <3>2, <4>1
      <3>5. PICK w : w = text \o <<Zero(u)>>
        OBVIOUS
      <3>6. AreUnits(w, u) /\ Len(w) = n + 1
        BY <2>6, <3>5, UnitsConcat, ZeroIsUnit
      <3>7. PICK V : text \in Seq(V) /\ <<Zero(u)>> \in Seq(V)
        <4> DEFINE V == {text[k] : k \in 1..Len(text)} \cup {Zero(u)}
        <4>1. text \in Seq(V) /\ <<Zero(u)>> \in Seq(V)
          BY <2>6 DEF AreUnits
        <4>2. QED
          BY <4>1
      <3>8. \A k \in 1..n : w[k] = text[k]
        BY <2>6, <3>5, <3>7
      <3>9. w[n + 1] = Zero(u)
        BY <2>6, <3>5, <3>7
      <3>10. \A k \in 1..n + 1 : w[k] = new[k]
        BY <2>3, <3>3, <3>4, <3>8, <3>9
      <3>11. QED
        BY <2>4, <3>5, <3>6, <3>10 DEF AreUnits
    <2>9. Buffer(d, u * (n + 1)) => Pointer(d)
      BY <2>3, RoomIsThere
    <2>10. Arrives(u, d, s, text)
      BY <1>1, <2>4, <2>7, <2>6, <2>8, <2>9 DEF Arrives
    <2>11. QED
      BY <2>5, <2>10
  <1>2. CASE ~Pointer(s)
    BY <1>2 DEF CopyText, Refuse, Answer, Arrives
  <1>3. QED
    BY <1>1, <1>2

\* strncat and wcsncat.
LEMMA AppendTextArrives ==
  ASSUME NEW fn, NEW u \in Nat \ {0}, NEW d \in Nat, NEW s \in Nat, NEW n \in Nat,
         AppendText(fn, u, d, s, n, 1), IsText(u, s), IsText(u, d),
         NEW whole, whole = Text(memory, u, d) \o Units(memory, u, s, Smaller(Length(memory, u, s), n)),
         LiesApart(u, d, s, whole)
  PROVE  Arrives(u, d, s, whole)
  <1>1. PICK taken, text, more, new : /\ taken = Smaller(Length(memory, u, s), n)
                                      /\ text = Text(memory, u, d)
                                      /\ more = Units(memory, u, s, taken)
                                      /\ new = text \o more \o <<Zero(u)>>
    OBVIOUS
  <1>2. CASE Pointer(s) /\ Pointer(d)
    <2>1. Store(fn, <<d, s, n>>, u, d, Length(memory, u, d) + 1 + taken, new,
                Span(s, u * (Length(memory, u, s) + 1)))
      BY <1>1, <1>2 DEF AppendText
    <2>2. PICK m \in Nat : m = Length(memory, u, s)
      BY TextInside DEF IsText
    <2>3. PICK k \in Nat : k = Length(memory, u, d)
      BY TextInside DEF IsText
    <2>4. taken \in Nat
      BY <1>1, <2>2 DEF Smaller
    <2>5. AreUnits(text, u) /\ Len(text) = k /\ AreUnits(more, u) /\ Len(more) = taken
      BY <1>1, <2>3, <2>4, UnitsAreUnits DEF Text
    <2>6. PICK both : both = text \o more /\ AreUnits(both, u) /\ Len(both) = k + taken
      BY <2>5, UnitsConcat
    <2>7. AreUnits(new, u) /\ Len(new) = (k + taken) + 1 /\ new = both \o <<Zero(u)>>
      <3>1. new = both \o <<Zero(u)>>
        BY <1>1, <2>6
      <3>2. QED
        BY <2>6, <3>1, UnitsConcat, ZeroIsUnit
    <2>8. k + 1 + taken = Len(new) /\ Len(both) + 1 = Len(new)
      BY <2>3, <2>4, <2>6, <2>7
    <2>9. /\ call'.fn = fn /\ call'.args = <<d, s, n>>
          /\ IF Buffer(d, u * Len(new))
             THEN /\ Units(memory', u, d, Len(new)) = new
                  /\ \A x \in Cells \ Span(d, u * Len(new)) : memory'[x] = memory[x]
             ELSE UNCHANGED memory
      <3>1. PICK room, args, read :
               /\ room = Length(memory, u, d) + 1 + taken /\ args = <<d, s, n>>
               /\ read = Span(s, u * (Length(memory, u, s) + 1))
        OBVIOUS
      <3>2. Store(fn, args, u, d, Len(new), new, read)
        <4>1. Store(fn, args, u, d, room, new, read) /\ room = Len(new)
          BY <2>1, <2>3, <2>8, <3>1
        <4>2. QED
          BY <4>1
      <3>3. /\ call'.fn = fn /\ call'.args = args
            /\ IF Buffer(d, u * Len(new))
               THEN /\ Units(memory', u, d, Len(new)) = new
                    /\ \A x \in Cells \ Span(d, u * Len(new)) : memory'[x] = memory[x]
               ELSE UNCHANGED memory
        <4>1. AreUnits(new, u)
          BY <2>7
        <4>2. read \cap Span(d, u * Len(new)) = {}
          BY <1>1, <2>6, <2>8, <3>1 DEF LiesApart
        <4>3. QED
          BY <3>2, <4>1, <4>2, StoreArrives
      <3>4. QED
        BY <3>1, <3>3
    <2>10. Arrives(u, d, s, both)
      BY <1>2, <2>7, <2>8, <2>9 DEF Arrives
    <2>11. QED
      BY <1>1, <2>6, <2>9, <2>10
  <1>3. CASE ~(Pointer(s) /\ Pointer(d))
    BY <1>3 DEF AppendText, Refuse, Answer, Arrives
  <1>4. QED
    BY <1>2, <1>3

\* strcpy, strncat and their wide forms leave the whole text, ended, at a destination that has
\* room for it, and change nothing else; without the room they change nothing: if the texts end
\* and the source lies apart.
THEOREM StringsAlwaysArrive == Spec => StringsArrive
  <1>1. ASSUME NEW d \in Offsets, NEW s \in Offsets, my_strcpy(d, s) \/ my_wcscpy(d, s)
        PROVE  StringArrives
    <2>1. d \in Nat /\ s \in Nat /\ WCHAR_SIZE \in Nat \ {0} /\ 1 \in Nat \ {0}
      BY SizesAssumption, ArgumentsAssumption, WidthsAssumption
    <2>2. ASSUME NEW fn \in {"strcpy", "wcscpy"}, NEW u \in Nat \ {0}, u = UnitOf(fn), CopyText(fn, u, d, s, 1)
          PROVE  StringArrives
      <3>1. PICK text : text = Text(memory, u, s)
        OBVIOUS
      <3>2. call'.fn = fn /\ call'.args = <<d, s>>
        BY <2>1, <2>2, CopyTextAnswers DEF Answered
      <3>3. Owed(fn, <<d, s>>) => IsText(u, s)
        BY <2>2 DEF Owed, UnitOf
      <3>4. IsText(u, s) /\ LiesApart(u, d, s, text) => Arrives(u, d, s, text)
        BY <2>1, <2>2, <3>1, CopyTextArrives
      <3>5. QED
        BY <2>2, <3>1, <3>2, <3>3, <3>4 DEF StringArrives, UnitOf, LiesApart
    <2>3. my_strcpy(d, s) => StringArrives
      BY <2>1, <2>2 DEF my_strcpy, UnitOf, Wide
    <2>4. my_wcscpy(d, s) => StringArrives
      BY <2>1, <2>2 DEF my_wcscpy, UnitOf, Wide
    <2>5. QED
      BY <1>1, <2>3, <2>4
  <1>2. ASSUME NEW d \in Offsets, NEW s \in Offsets, NEW n \in Counts,
               my_strncat(d, s, n) \/ my_wcsncat(d, s, n)
        PROVE  StringArrives
    <2>1. d \in Nat /\ s \in Nat /\ n \in Nat /\ WCHAR_SIZE \in Nat \ {0} /\ 1 \in Nat \ {0}
      BY SizesAssumption, ArgumentsAssumption, WidthsAssumption
    <2>2. ASSUME NEW fn \in {"strncat", "wcsncat"}, NEW u \in Nat \ {0}, u = UnitOf(fn),
                 AppendText(fn, u, d, s, n, 1)
          PROVE  StringArrives
      <3>1. PICK whole : whole = Text(memory, u, d) \o Units(memory, u, s, Smaller(Length(memory, u, s), n))
        OBVIOUS
      <3>2. Answered(fn, <<d, s, n>>)
        BY <2>1, <2>2, AppendTextAnswers
      <3>3. /\ call'.fn = fn /\ call'.args = <<d, s, n>>
            /\ Owed(fn, <<d, s, n>>) => IsText(u, s) /\ IsText(u, d)
        BY <2>2, <3>2 DEF Answered, Owed, UnitOf
      <3>4. IsText(u, s) /\ IsText(u, d) /\ LiesApart(u, d, s, whole) => Arrives(u, d, s, whole)
        BY <2>1, <2>2, <3>1, AppendTextArrives
      <3>5. /\ call'.args[1] = d /\ call'.args[2] = s /\ call'.args[3] = n
            /\ call'.fn \notin {"strcpy", "wcscpy"}
        BY <2>2, <3>3
      <3>6. u = IF call'.fn \in Wide THEN WCHAR_SIZE ELSE 1
        BY <2>2, <3>3 DEF UnitOf
      <3>7. QED
        BY <3>1, <3>3, <3>4, <3>5, <3>6, Zenon DEF StringArrives, LiesApart
    <2>3. my_strncat(d, s, n) => StringArrives
      BY <2>1, <2>2 DEF my_strncat, UnitOf, Wide
    <2>4. my_wcsncat(d, s, n) => StringArrives
      BY <2>1, <2>2 DEF my_wcsncat, UnitOf, Wide
    <2>5. QED
      BY <1>2, <2>3, <2>4
  <1>3. [Next]_vars => [StringArrives]_vars
    <2>1. NextCall => StringArrives
      <3>1. call'.fn \notin Copies => StringArrives
        BY DEF Copies, StringArrives
      <3>2. QED
        BY <1>1, <1>2, <3>1, CallAnswers
    <2>2. Return => StringArrives
      BY DEF Return, NoCall, StringArrives
    <2>3. QED
      BY <2>1, <2>2 DEF Next
  <1>4. QED
    BY <1>3, PTL DEF Spec, StringsArrive
=============================================================================
