--------------------------- MODULE LauncherProofs ---------------------------
(***************************************************************************)
(* Proofs about Launcher and ProfileStore, for any windows, settings,      *)
(* masks, terminals that save, and lines that are saved.                    *)
(*                                                                         *)
(* Parsing a line is a fold, and no induction theorem can be used of one   *)
(* here.  Its function is shown to exist by the least length for which it  *)
(* would not (FillsExists); from then on ParsedInTurn gives the options    *)
(* after every argument, and what holds of all of them is again shown by   *)
(* the first that it would not hold of.  LaunchLineKept is what the rest   *)
(* needs: a launch line that follows any stored arguments has its way.     *)
(*                                                                         *)
(* The store's invariant says who is at the temporary file (AloneAtIt) and *)
(* that what waits to be renamed is whole (WrittenWhole).  The launcher's  *)
(* says that the handles it holds are those of a living pipeline (Held),   *)
(* and that a living pipeline was started from what was shown (Asked).     *)
(***************************************************************************)
EXTENDS Launcher, SequenceTheorems, FiniteSetTheorems, TLAPS

\* The order of the natural numbers has no infinite descent.
NatOrder == {pair \in Nat \X Nat : pair[1] < pair[2]}

LEMMA NatOrderWellFounded == IsWellFoundedOn(NatOrder, Nat)
<1>1. OpToRel(<, Nat) = NatOrder
  BY DEF OpToRel, NatOrder
<1> QED
  BY <1>1, NatLessThanWellFounded, Zenon

LEMMA LeastExists ==
    ASSUME NEW S \in SUBSET Nat, S # {}
    PROVE  \E least \in S : \A j \in S : least <= j
<1>1. PICK least \in S : \A j \in S : ~(<<j, least>> \in NatOrder)
  BY NatOrderWellFounded, WFMin
<1>2. ASSUME NEW j \in S
      PROVE  least <= j
  <2>1. j \in Nat /\ least \in Nat
    OBVIOUS
  <2>2. j < least => <<j, least>> \in NatOrder
    BY <2>1 DEF NatOrder
  <2> QED
    BY <1>1, <2>1, <2>2
<1> QED
  BY <1>2

------------------------------------------------------------------------------
\* g answers, for every set of positions up to k, what the arguments at these
\* positions make of the options: the function that FoldLeft defines.
Fills(g, a, k) ==
    g = [s \in SUBSET (1..k) |->
            IF s = {} THEN NoOptions ELSE AfterArgument(g[s \ {Max(s)}], a[Max(s)])]

Parsed(a) == FoldLeft(AfterArgument, NoOptions, a)

LEMMA FoldIs ==
    ASSUME NEW a, NEW n, DOMAIN a = 1..n
    PROVE  Parsed(a) = (CHOOSE g : Fills(g, a, n))[1..n]
BY Zenon DEF FoldLeft, MapThenFoldSet, Parsed, Fills

LEMMA FillsExists ==
    ASSUME NEW a, NEW n \in Nat
    PROVE  \E g : Fills(g, a, n)
<1> DEFINE Bad == {k \in Nat : ~(\E g : Fills(g, a, k))}
<1> SUFFICES ASSUME Bad # {} PROVE FALSE
  OBVIOUS
<1>1. PICK k \in Bad : \A j \in Bad : k <= j
  <2>1. Bad \in SUBSET Nat
    OBVIOUS
  <2> HIDE DEF Bad
  <2> QED
    BY <2>1, LeastExists
<1>2. k \in Nat /\ ~(\E g : Fills(g, a, k))
  BY <1>1
<1>3. k # 0
  <2> SUFFICES ASSUME k = 0 PROVE FALSE
    OBVIOUS
  <2> DEFINE g == [s \in SUBSET (1..k) |-> NoOptions]
  <2>1. \A s \in SUBSET (1..k) : s = {}
    OBVIOUS
  <2>2. g = [s \in SUBSET (1..k) |->
                IF s = {} THEN NoOptions ELSE AfterArgument(g[s \ {Max(s)}], a[Max(s)])]
    BY <2>1, Zenon
  <2> QED
    BY <1>2, <2>2 DEF Fills
<1>4. PICK g : Fills(g, a, k - 1)
  <2>1. k - 1 \in Nat /\ k - 1 < k
    BY <1>2, <1>3
  <2>2. k - 1 \notin Bad
    <3> HIDE DEF Bad
    <3> QED
      BY <1>1, <1>2, <2>1
  <2> QED
    BY <2>1, <2>2
<1> DEFINE h == [s \in SUBSET (1..k) |->
                    IF s \subseteq 1..(k - 1) THEN g[s]
                    ELSE AfterArgument(g[s \ {k}], a[k])]
<1>5. ASSUME NEW s \in SUBSET (1..k)
      PROVE  h[s] = IF s = {} THEN NoOptions ELSE AfterArgument(h[s \ {Max(s)}], a[Max(s)])
  <2>1. CASE s \subseteq 1..(k - 1)
    <3>1. s \in SUBSET (1..(k - 1)) /\ s \ {Max(s)} \in SUBSET (1..(k - 1))
      BY <2>1
    <3>2. g[s] = IF s = {} THEN NoOptions ELSE AfterArgument(g[s \ {Max(s)}], a[Max(s)])
      BY <1>4, <3>1, Zenon DEF Fills
    <3>3. s \ {Max(s)} \in SUBSET (1..k)
      OBVIOUS
    <3>4. h[s] = g[s] /\ h[s \ {Max(s)}] = g[s \ {Max(s)}]
      BY <2>1, <3>1, <3>3, Zenon
    <3> HIDE DEF h
    <3> QED
      BY <3>2, <3>4, Zenon
  <2>2. CASE ~(s \subseteq 1..(k - 1))
    <3>1. k \in s /\ s # {}
      BY <1>2, <2>2
    <3>2. \A y \in s : k >= y
      BY <1>2
    <3>3. \A x \in s : (\A y \in s : x >= y) => x = k
      BY <1>2, <3>1, <3>2
    <3>4. Max(s) = k
      BY <3>1, <3>2, <3>3, Zenon DEF Max
    <3>5. s \ {k} \in SUBSET (1..(k - 1)) /\ s \ {k} \in SUBSET (1..k)
      BY <1>2
    <3>6. h[s] = AfterArgument(g[s \ {k}], a[k]) /\ h[s \ {k}] = g[s \ {k}]
      BY <2>2, <3>5, Zenon
    <3> HIDE DEF h
    <3> QED
      BY <3>1, <3>4, <3>6, Zenon
  <2> QED
    BY <2>1, <2>2
<1>6. h = [s \in SUBSET (1..k) |->
              IF s = {} THEN NoOptions ELSE AfterArgument(h[s \ {Max(s)}], a[Max(s)])]
  BY <1>5, Zenon
<1> QED
  BY <1>2, <1>6 DEF Fills

\* p holds what the first arguments of a line make of the options, one by one.
Turns(p, a, n) ==
    /\ p[0] = NoOptions
    /\ \A k \in 1..n : p[k] = AfterArgument(p[k - 1], a[k])

\* The line is parsed from its first argument to its last.
LEMMA ParsedInTurn ==
    ASSUME NEW a, NEW n \in Nat, DOMAIN a = 1..n
    PROVE  \E p : Turns(p, a, n) /\ p[n] = Parsed(a)
<1> DEFINE g == CHOOSE f : Fills(f, a, n)
           p == [k \in 0..n |-> g[1..k]]
<1>1. Fills(g, a, n)
  BY FillsExists
<1>2. Parsed(a) = g[1..n]
  BY FoldIs
<1> HIDE DEF g
<1>3. p[0] = NoOptions
  <2>1. 1..0 = {} /\ {} \in SUBSET (1..n) /\ 0 \in 0..n
    OBVIOUS
  <2>2. g[{}] = NoOptions
    BY <1>1, <2>1, Zenon DEF Fills
  <2> QED
    BY <2>1, <2>2
<1>4. ASSUME NEW k \in 1..n
      PROVE  p[k] = AfterArgument(p[k - 1], a[k])
  <2>1. /\ 1..k \in SUBSET (1..n) /\ 1..k # {} /\ k \in 1..k
        /\ k \in 0..n /\ k - 1 \in 0..n /\ (1..k) \ {k} = 1..(k - 1)
    <3>1. k \in Nat /\ 1 <= k /\ k <= n
      OBVIOUS
    <3>2. 1..k \in SUBSET (1..n)
      BY <3>1
    <3>3. k \in 1..k /\ k \in 0..n /\ k - 1 \in 0..n
      BY <3>1
    <3>4. (1..k) \ {k} = 1..(k - 1)
      BY <3>1
    <3> QED
      BY <3>2, <3>3, <3>4
  <2>2. \A y \in 1..k : k >= y
    OBVIOUS
  <2>3. \A x \in 1..k : (\A y \in 1..k : x >= y) => x = k
    OBVIOUS
  <2>4. Max(1..k) = k
    BY <2>1, <2>2, <2>3, Zenon DEF Max
  <2>5. g[1..k] = AfterArgument(g[(1..k) \ {Max(1..k)}], a[Max(1..k)])
    BY <1>1, <2>1, Zenon DEF Fills
  <2>6. p[k] = g[1..k] /\ p[k - 1] = g[1..(k - 1)]
    BY <2>1, Zenon
  <2> HIDE DEF p
  <2> QED
    BY <2>1, <2>4, <2>5, <2>6, Zenon
<1>5. p[n] = Parsed(a)
  BY <1>2
<1> HIDE DEF p
<1> QED
  BY <1>3, <1>4, <1>5 DEF Turns

\* Two lines that agree up to a position are parsed alike up to it.
LEMMA ParsedAlike ==
    ASSUME NEW a, NEW b, NEW n \in Nat, NEW p, NEW q,
           Turns(p, a, n), Turns(q, b, n), \A k \in 1..n : a[k] = b[k]
    PROVE  p[n] = q[n]
<1> DEFINE Bad == {k \in Nat : k <= n /\ p[k] # q[k]}
<1> SUFFICES ASSUME Bad # {} PROVE FALSE
  OBVIOUS
<1>1. PICK k \in Bad : \A j \in Bad : k <= j
  <2>1. Bad \in SUBSET Nat
    OBVIOUS
  <2> HIDE DEF Bad
  <2> QED
    BY <2>1, LeastExists
<1>2. k \in Nat /\ k <= n /\ p[k] # q[k]
  BY <1>1
<1>3. k # 0
  BY <1>2 DEF Turns
<1>4. k \in 1..n /\ k - 1 \in Nat /\ k - 1 <= n /\ k - 1 < k
  BY <1>2, <1>3
<1>5. k - 1 \notin Bad
  <2> HIDE DEF Bad
  <2> QED
    BY <1>1, <1>2, <1>4
<1>6. p[k - 1] = q[k - 1]
  BY <1>4, <1>5
<1>7. p[k] = AfterArgument(p[k - 1], a[k]) /\ q[k] = AfterArgument(q[k - 1], b[k]) /\ a[k] = b[k]
  BY <1>4, Zenon DEF Turns
<1>8. p[k] = q[k]
  BY <1>6, <1>7, Zenon
<1> QED
  BY <1>2, <1>8

LEMMA ParsedNothing == Parsed(<<>>) = NoOptions
<1>1. DOMAIN <<>> = 1..0 /\ 0 \in Nat
  OBVIOUS
<1>2. PICK p : Turns(p, <<>>, 0) /\ p[0] = Parsed(<<>>)
  BY <1>1, ParsedInTurn
<1> QED
  BY <1>2, Zenon DEF Turns

\* One more argument takes one more turn.
LEMMA ParsedOneMore ==
    ASSUME NEW S, NEW a \in Seq(S), NEW x \in S
    PROVE  Parsed(Append(a, x)) = AfterArgument(Parsed(a), x)
<1> DEFINE n == Len(a)
           b == Append(a, x)
<1>1. n \in Nat /\ DOMAIN a = 1..n /\ n + 1 \in Nat /\ DOMAIN b = 1..(n + 1)
  OBVIOUS
<1>2. b[n + 1] = x /\ \A k \in 1..n : a[k] = b[k]
  OBVIOUS
<1> HIDE DEF n, b
<1>3. PICK p : Turns(p, a, n) /\ p[n] = Parsed(a)
  BY <1>1, ParsedInTurn
<1>4. PICK q : Turns(q, b, n + 1) /\ q[n + 1] = Parsed(b)
  BY <1>1, ParsedInTurn
<1>5. p[n] = q[n]
  <2>1. \A k \in 1..n : k \in 1..(n + 1)
    BY <1>1
  <2>2. Turns(q, b, n)
    BY <1>4, <2>1, Zenon DEF Turns
  <2> QED
    BY <1>1, <1>2, <1>3, <2>2, ParsedAlike
<1>6. q[n + 1] = AfterArgument(q[n], b[n + 1])
  <2>1. n + 1 \in 1..(n + 1) /\ (n + 1) - 1 = n
    BY <1>1
  <2>2. q[n + 1] = AfterArgument(q[(n + 1) - 1], b[n + 1])
    BY <1>4, <2>1, Zenon DEF Turns
  <2> QED
    BY <2>1, <2>2, Zenon
<1>7. Parsed(b) = AfterArgument(Parsed(a), x)
  BY <1>2, <1>3, <1>4, <1>5, <1>6, Zenon
<1> QED
  BY <1>7 DEF b

------------------------------------------------------------------------------
\* The values that arguments may have, the arguments and what they are parsed into.
Values ==
    CliValues \cup Settings \cup Masks \cup Windows \cup {TestWindow, None, DefaultSetting}
        \cup {TRUE, FALSE} \cup {"auto"}

Arguments == Flags \X Values

OptionRecords ==
    [setting : Values, masks : SUBSET Values, auto : Values, profile : BOOLEAN,
     window : Values, title : Values, failed : BOOLEAN]

LEMMA OptionFields ==
    ASSUME NEW o \in OptionRecords
    PROVE  /\ o.setting \in Values /\ o.masks \in SUBSET Values /\ o.auto \in Values
           /\ o.profile \in BOOLEAN /\ o.window \in Values /\ o.title \in Values
           /\ o.failed \in BOOLEAN
BY DEF OptionRecords

LEMMA WithSetting ==
    ASSUME NEW o \in OptionRecords, NEW v \in Values
    PROVE  LET x == [o EXCEPT !.setting = v]
           IN  /\ x \in OptionRecords /\ x.setting = v /\ x.masks = o.masks /\ x.auto = o.auto
               /\ x.profile = o.profile /\ x.window = o.window /\ x.title = o.title
               /\ x.failed = o.failed
BY DEF OptionRecords

LEMMA WithMasks ==
    ASSUME NEW o \in OptionRecords, NEW v \in SUBSET Values
    PROVE  LET x == [o EXCEPT !.masks = v]
           IN  /\ x \in OptionRecords /\ x.setting = o.setting /\ x.masks = v /\ x.auto = o.auto
               /\ x.profile = o.profile /\ x.window = o.window /\ x.title = o.title
               /\ x.failed = o.failed
BY DEF OptionRecords

LEMMA WithAuto ==
    ASSUME NEW o \in OptionRecords, NEW v \in Values
    PROVE  LET x == [o EXCEPT !.auto = v]
           IN  /\ x \in OptionRecords /\ x.setting = o.setting /\ x.masks = o.masks /\ x.auto = v
               /\ x.profile = o.profile /\ x.window = o.window /\ x.title = o.title
               /\ x.failed = o.failed
BY DEF OptionRecords

LEMMA WithProfile ==
    ASSUME NEW o \in OptionRecords, NEW v \in BOOLEAN
    PROVE  LET x == [o EXCEPT !.profile = v]
           IN  /\ x \in OptionRecords /\ x.setting = o.setting /\ x.masks = o.masks
               /\ x.auto = o.auto /\ x.profile = v /\ x.window = o.window
               /\ x.title = o.title /\ x.failed = o.failed
BY DEF OptionRecords

LEMMA WithWindow ==
    ASSUME NEW o \in OptionRecords, NEW v \in Values
    PROVE  LET x == [o EXCEPT !.window = v]
           IN  /\ x \in OptionRecords /\ x.setting = o.setting /\ x.masks = o.masks
               /\ x.auto = o.auto /\ x.profile = o.profile /\ x.window = v
               /\ x.title = o.title /\ x.failed = o.failed
BY DEF OptionRecords

LEMMA WithTitle ==
    ASSUME NEW o \in OptionRecords, NEW v \in Values
    PROVE  LET x == [o EXCEPT !.title = v]
           IN  /\ x \in OptionRecords /\ x.setting = o.setting /\ x.masks = o.masks
               /\ x.auto = o.auto /\ x.profile = o.profile /\ x.window = o.window
               /\ x.title = v /\ x.failed = o.failed
BY DEF OptionRecords

LEMMA WithFailed ==
    ASSUME NEW o \in OptionRecords, NEW v \in BOOLEAN
    PROVE  LET x == [o EXCEPT !.failed = v]
           IN  /\ x \in OptionRecords /\ x.setting = o.setting /\ x.masks = o.masks
               /\ x.auto = o.auto /\ x.profile = o.profile /\ x.window = o.window
               /\ x.title = o.title /\ x.failed = v
BY DEF OptionRecords

\* What each flag does.
LEMMA AfterFlag ==
    ASSUME NEW o, NEW v
    PROVE  /\ AfterArgument(o, <<"setting", v>>) = [o EXCEPT !.setting = v]
           /\ AfterArgument(o, <<"ui-mask", v>>) =
                  IF v = Unreadable THEN [o EXCEPT !.failed = TRUE]
                  ELSE [o EXCEPT !.masks = @ \cup {v}]
           /\ AfterArgument(o, <<"ui-mask-auto", v>>) = [o EXCEPT !.auto = v]
           /\ AfterArgument(o, <<"profile", v>>) = [o EXCEPT !.profile = TRUE]
           /\ AfterArgument(o, <<"hwnd", v>>) = [o EXCEPT !.window = v]
           /\ AfterArgument(o, <<"title", v>>) = [o EXCEPT !.title = v]
BY DEF AfterArgument

LEMMA AfterKeeps ==
    ASSUME NEW o \in OptionRecords, NEW x \in Arguments
    PROVE  AfterArgument(o, x) \in OptionRecords
<1>1. PICK f \in Flags, v \in Values : x = <<f, v>>
  BY DEF Arguments
<1>2. CASE f = "setting"
  <2>1. AfterArgument(o, x) = [o EXCEPT !.setting = v]
    BY <1>1, <1>2, AfterFlag, Zenon
  <2> QED
    BY <2>1, WithSetting, Zenon
<1>3. CASE f = "ui-mask"
  <2>1. CASE v = Unreadable
    <3>1. TRUE \in BOOLEAN
      OBVIOUS
    <3>2. AfterArgument(o, x) = [o EXCEPT !.failed = TRUE]
      BY <1>1, <1>3, <2>1, AfterFlag, Zenon
    <3> QED
      BY <3>1, <3>2, WithFailed, Zenon
  <2>2. CASE v # Unreadable
    <3>1. AfterArgument(o, x) = [o EXCEPT !.masks = o.masks \cup {v}]
      <4>1. AfterArgument(o, x) = [o EXCEPT !.masks = @ \cup {v}]
        BY <1>1, <1>3, <2>2, AfterFlag, Zenon
      <4> QED
        BY <4>1
    <3> DEFINE w == o.masks \cup {v}
    <3>2. w \in SUBSET Values
      BY OptionFields
    <3>3. AfterArgument(o, x) = [o EXCEPT !.masks = w]
      BY <3>1, Zenon
    <3> HIDE DEF w
    <3>4. LET y == [o EXCEPT !.masks = w] IN y \in OptionRecords
      BY <3>2, WithMasks, Zenon
    <3> QED
      BY <3>3, <3>4, Zenon
  <2> QED
    BY <2>1, <2>2
<1>4. CASE f = "ui-mask-auto"
  <2>1. AfterArgument(o, x) = [o EXCEPT !.auto = v]
    BY <1>1, <1>4, AfterFlag, Zenon
  <2> QED
    BY <2>1, WithAuto, Zenon
<1>5. CASE f = "profile"
  <2>1. TRUE \in BOOLEAN
    OBVIOUS
  <2>2. AfterArgument(o, x) = [o EXCEPT !.profile = TRUE]
    BY <1>1, <1>5, AfterFlag, Zenon
  <2> QED
    BY <2>1, <2>2, WithProfile, Zenon
<1>6. CASE f = "hwnd"
  <2>1. AfterArgument(o, x) = [o EXCEPT !.window = v]
    BY <1>1, <1>6, AfterFlag, Zenon
  <2> QED
    BY <2>1, WithWindow, Zenon
<1>7. CASE f = "title"
  <2>1. AfterArgument(o, x) = [o EXCEPT !.title = v]
    BY <1>1, <1>7, AfterFlag, Zenon
  <2> QED
    BY <2>1, WithTitle, Zenon
<1> QED
  BY <1>2, <1>3, <1>4, <1>5, <1>6, <1>7 DEF Flags

LEMMA NoOptionsTyped == NoOptions \in OptionRecords
<1>1. DefaultSetting \in Values /\ None \in Values /\ FALSE \in Values /\ {} \in SUBSET Values
  BY DEF Values
<1>2. \A w, m, t, f : w \in Values /\ m \in SUBSET Values /\ t \in Values /\ f \in BOOLEAN =>
        \A a \in Values :
          [setting |-> w, masks |-> m, auto |-> a, profile |-> f, window |-> t, title |-> t,
           failed |-> f] \in OptionRecords
  BY DEF OptionRecords
<1>3. FALSE \in BOOLEAN
  OBVIOUS
<1> QED
  BY <1>1, <1>2, <1>3, Zenon DEF NoOptions

LEMMA ParsedTyped ==
    ASSUME NEW a \in Seq(Arguments)
    PROVE  Parsed(a) \in OptionRecords
<1> DEFINE n == Len(a)
<1>1. n \in Nat /\ DOMAIN a = 1..n /\ \A k \in 1..n : a[k] \in Arguments
  OBVIOUS
<1> HIDE DEF n
<1>2. PICK p : Turns(p, a, n) /\ p[n] = Parsed(a)
  BY <1>1, ParsedInTurn
<1> DEFINE Bad == {k \in Nat : k <= n /\ p[k] \notin OptionRecords}
<1>3. SUFFICES ASSUME Bad # {} PROVE FALSE
  BY <1>1, <1>2
<1>4. PICK k \in Bad : \A j \in Bad : k <= j
  <2>1. Bad \in SUBSET Nat
    OBVIOUS
  <2> HIDE DEF Bad
  <2> QED
    BY <1>3, <2>1, LeastExists
<1>5. k \in Nat /\ k <= n /\ p[k] \notin OptionRecords
  BY <1>4
<1>6. k # 0
  BY <1>2, <1>5, NoOptionsTyped DEF Turns
<1>7. k \in 1..n /\ k - 1 \in Nat /\ k - 1 <= n /\ k - 1 < k
  BY <1>1, <1>5, <1>6
<1>8. k - 1 \notin Bad
  <2> HIDE DEF Bad
  <2> QED
    BY <1>4, <1>5, <1>7
<1>9. p[k - 1] \in OptionRecords /\ a[k] \in Arguments
  BY <1>1, <1>7, <1>8
<1>10. p[k] = AfterArgument(p[k - 1], a[k])
  BY <1>2, <1>7, Zenon DEF Turns
<1> QED
  BY <1>5, <1>9, <1>10, AfterKeeps, Zenon

\* What the launcher shows is among the values.
LEMMA ShownFields ==
    ASSUME NEW shown \in ShownRecords
    PROVE  /\ shown.setting \in Values /\ shown.mask \in Values
           /\ shown.auto \in BOOLEAN /\ shown.profile \in BOOLEAN
BY DEF ShownRecords, Values

\* A launch line after any stored arguments: what the launcher showed holds.
Kept(o, earlier, shown, target) ==
    /\ o.window = target /\ o.setting = shown.setting
    /\ o.masks = earlier.masks \cup (IF shown.mask = None THEN {} ELSE {shown.mask})
    /\ o.auto = IF shown.auto THEN TRUE ELSE earlier.auto
    /\ o.profile = IF shown.profile THEN TRUE ELSE earlier.profile
    /\ o.failed = earlier.failed

\* Lines are put together in any grouping.
LEMMA Associates ==
    \A a, b, c \in Seq(Arguments) : (a \o b) \o c = a \o (b \o c)
<1> DEFINE S == Seq(Arguments)
<1>1. \A a, b, c \in S : (a \o b) \o c = a \o (b \o c)
  BY ConcatAssociative
<1> QED
  BY <1>1

LEMMA LaunchLineKept ==
    ASSUME NEW shown \in ShownRecords, NEW target \in Values, shown.mask # Unreadable,
           NEW stored \in Seq(Arguments)
    PROVE  /\ LaunchArguments(shown, target) \in Seq(Arguments)
           /\ stored \o LaunchArguments(shown, target) \in Seq(Arguments)
           /\ Kept(Parsed(stored \o LaunchArguments(shown, target)), Parsed(stored), shown, target)
<1> DEFINE profile == IF shown.profile THEN << <<"profile", "auto">> >> ELSE <<>>
           mask == IF shown.mask = None THEN <<>> ELSE << <<"ui-mask", shown.mask>> >>
           auto == IF shown.auto THEN << <<"ui-mask-auto", TRUE>> >> ELSE <<>>
           first == Append(Append(stored, <<"hwnd", target>>), <<"setting", shown.setting>>)
           second == first \o profile
           third == second \o mask
           line == third \o auto
<1>1. /\ <<"hwnd", target>> \in Arguments /\ <<"setting", shown.setting>> \in Arguments
      /\ <<"profile", "auto">> \in Arguments /\ <<"ui-mask", shown.mask>> \in Arguments
      /\ <<"ui-mask-auto", TRUE>> \in Arguments
  <2>1. "auto" \in Values /\ TRUE \in Values
    BY Zenon DEF Values
  <2>2. shown.setting \in Values /\ shown.mask \in Values
    BY ShownFields
  <2>3. /\ "hwnd" \in Flags /\ "setting" \in Flags /\ "profile" \in Flags
        /\ "ui-mask" \in Flags /\ "ui-mask-auto" \in Flags
    BY DEF Flags
  <2>4. \A f \in Flags, v \in Values : <<f, v>> \in Arguments
    BY DEF Arguments
  <2> QED
    BY <2>1, <2>2, <2>3, <2>4, Zenon
<1>2. /\ profile \in Seq(Arguments) /\ mask \in Seq(Arguments) /\ auto \in Seq(Arguments)
      /\ \A a \in Seq(Arguments) : a \o <<>> = a
      /\ \A a \in Seq(Arguments), x \in Arguments :
             Append(a, x) \in Seq(Arguments) /\ a \o <<x>> = Append(a, x)
  <2>1. <<>> \in Seq(Arguments) /\ \A x \in Arguments : <<x>> \in Seq(Arguments)
    OBVIOUS
  <2>2. profile \in Seq(Arguments) /\ mask \in Seq(Arguments) /\ auto \in Seq(Arguments)
    BY <1>1, <2>1, Zenon
  <2>3. \A a \in Seq(Arguments), x \in Arguments :
             Append(a, x) \in Seq(Arguments) /\ a \o <<x>> = Append(a, x)
    BY AppendProperties, AppendIsConcat
  <2>4. \A a \in Seq(Arguments) : a \o <<>> = a
    BY ConcatEmptySeq
  <2> QED
    BY <2>2, <2>3, <2>4
<1>3. /\ LaunchArguments(shown, target) \in Seq(Arguments)
      /\ stored \o LaunchArguments(shown, target) = line
  <2> DEFINE head == << <<"hwnd", target>>, <<"setting", shown.setting>> >>
  <2>1. LaunchArguments(shown, target) = ((head \o profile) \o mask) \o auto
    BY Zenon DEF LaunchArguments, MaskArguments
  <2>2. head \in Seq(Arguments) /\ stored \o head = first
    <3> DEFINE h == <<"hwnd", target>>
               s == <<"setting", shown.setting>>
    <3>1. h \in Arguments /\ s \in Arguments
      BY <1>1
    <3> HIDE DEF h, s
    <3>2. /\ <<h>> \in Seq(Arguments) /\ <<s>> \in Seq(Arguments)
          /\ <<h, s>> \in Seq(Arguments) /\ <<h, s>> = <<h>> \o <<s>>
      <4>1. \A x \in Arguments : <<x>> \in Seq(Arguments)
        OBVIOUS
      <4>2. \A x, y \in Arguments : <<x, y>> \in Seq(Arguments)
        OBVIOUS
      <4>3. \A x, y \in Arguments : Append(<<x>>, y) = <<x, y>>
        <5> HIDE DEF h, s, profile, mask, auto
        <5>1. ASSUME NEW x \in Arguments, NEW y \in Arguments
              PROVE  Append(<<x>>, y) = <<x, y>>
          <6>1. Append(<<x>>, y) \in Seq(Arguments) /\ <<x, y>> \in Seq(Arguments)
            BY <1>2, <4>1, <4>2, Zenon
          <6>2. Len(Append(<<x>>, y)) = 2 /\ Len(<<x, y>>) = 2
            OBVIOUS
          <6>3. \A i \in 1..2 : Append(<<x>>, y)[i] = <<x, y>>[i]
            OBVIOUS
          <6> QED
            BY <6>1, <6>2, <6>3, SeqEqual
        <5> QED
          BY <5>1
      <4>4. <<h>> \o <<s>> = Append(<<h>>, s)
        BY <1>2, <3>1, <4>1, Zenon
      <4> QED
        BY <3>1, <4>1, <4>2, <4>3, <4>4, Zenon
    <3>3. stored \o (<<h>> \o <<s>>) = (stored \o <<h>>) \o <<s>>
      BY <3>2, ConcatAssociative
    <3>4. stored \o <<h>> = Append(stored, h) /\ Append(stored, h) \in Seq(Arguments)
      BY <1>2, <3>1, Zenon
    <3>5. Append(stored, h) \o <<s>> = Append(Append(stored, h), s)
      BY <1>2, <3>1, <3>4, Zenon
    <3>6. <<h, s>> \in Seq(Arguments) /\ stored \o <<h, s>> = Append(Append(stored, h), s)
      BY <3>2, <3>3, <3>4, <3>5, Zenon
    <3>7. head = <<h, s>> /\ first = Append(Append(stored, h), s)
      BY Zenon DEF h, s
    <3> HIDE DEF head, first
    <3> QED
      BY <3>6, <3>7, Zenon
  <2> HIDE DEF head, profile, mask, auto, first
  <2>3. \A a, b \in Seq(Arguments) : a \o b \in Seq(Arguments)
    BY ConcatProperties, Zenon
  <2>4. \A a, b, c \in Seq(Arguments) : (a \o b) \o c = a \o (b \o c)
    BY Associates, Zenon
  <2>8. head \o profile \in Seq(Arguments) /\ (head \o profile) \o mask \in Seq(Arguments)
    BY <1>2, <2>2, <2>3, Zenon
  <2>5. stored \o (((head \o profile) \o mask) \o auto)
            = (stored \o ((head \o profile) \o mask)) \o auto
    BY <1>2, <2>4, <2>8, Zenon
  <2>6. stored \o ((head \o profile) \o mask) = (stored \o (head \o profile)) \o mask
    BY <1>2, <2>4, <2>8, Zenon
  <2>7. stored \o (head \o profile) = (stored \o head) \o profile
    BY <1>2, <2>2, <2>4, Zenon
  <2>9. ((head \o profile) \o mask) \o auto \in Seq(Arguments)
    BY <1>2, <2>3, <2>8, Zenon
  <2> QED
    BY <2>1, <2>2, <2>5, <2>6, <2>7, <2>9, Zenon
<1> DEFINE o == Parsed(stored)
           o1 == [[o EXCEPT !.window = target] EXCEPT !.setting = shown.setting]
<1>4. o \in OptionRecords
  BY ParsedTyped
<1>5. first \in Seq(Arguments) /\ Parsed(first) = o1
  <2> DEFINE a == Append(stored, <<"hwnd", target>>)
  <2>1. a \in Seq(Arguments) /\ Append(a, <<"setting", shown.setting>>) \in Seq(Arguments)
    BY <1>1, <1>2, Zenon
  <2>2. Parsed(a) = AfterArgument(o, <<"hwnd", target>>)
    BY <1>1, ParsedOneMore, Zenon
  <2>3. Parsed(Append(a, <<"setting", shown.setting>>))
            = AfterArgument(Parsed(a), <<"setting", shown.setting>>)
    BY <1>1, <2>1, ParsedOneMore, Zenon
  <2>4. Parsed(a) = [o EXCEPT !.window = target]
    BY <2>2, AfterFlag, Zenon
  <2>5. Parsed(first) = [Parsed(a) EXCEPT !.setting = shown.setting]
    BY <2>3, AfterFlag, Zenon
  <2> QED
    BY <2>1, <2>4, <2>5, Zenon
<1>6. /\ o1 \in OptionRecords /\ o1.window = target /\ o1.setting = shown.setting
      /\ o1.masks = o.masks /\ o1.auto = o.auto /\ o1.profile = o.profile
      /\ o1.failed = o.failed
  <2> DEFINE ow == [o EXCEPT !.window = target]
  <2>1. /\ ow \in OptionRecords /\ ow.window = target /\ ow.masks = o.masks
        /\ ow.auto = o.auto /\ ow.profile = o.profile /\ ow.failed = o.failed
    BY <1>4, WithWindow, Zenon
  <2>2. shown.setting \in Values
    BY ShownFields
  <2> HIDE DEF ow, o
  <2>3. LET x == [ow EXCEPT !.setting = shown.setting]
        IN  /\ x \in OptionRecords /\ x.setting = shown.setting /\ x.masks = ow.masks
            /\ x.auto = ow.auto /\ x.profile = ow.profile /\ x.window = ow.window
            /\ x.title = ow.title /\ x.failed = ow.failed
    BY <2>1, <2>2, WithSetting, Zenon
  <2>4. o1 = [ow EXCEPT !.setting = shown.setting]
    BY DEF ow
  <2> HIDE DEF o1
  <2> QED
    BY <2>1, <2>3, <2>4, Zenon
<1> HIDE DEF o, o1, first
<1>7. /\ second \in Seq(Arguments)
      /\ LET q == Parsed(second)
         IN  /\ q \in OptionRecords /\ q.window = target /\ q.setting = shown.setting
             /\ q.masks = o.masks /\ q.auto = o.auto
             /\ q.profile = IF shown.profile THEN TRUE ELSE o.profile
             /\ q.failed = o.failed
  <2>1. CASE shown.profile
    <3>1. second = Append(first, <<"profile", "auto">>) /\ second \in Seq(Arguments)
      BY <1>1, <1>2, <1>5, <2>1, Zenon
    <3>2. Parsed(second) = [o1 EXCEPT !.profile = TRUE]
      <4>1. Parsed(second) = AfterArgument(o1, <<"profile", "auto">>)
        BY <1>1, <1>5, <3>1, ParsedOneMore, Zenon
      <4> QED
        BY <4>1, AfterFlag, Zenon
    <3>3. TRUE \in BOOLEAN
      OBVIOUS
    <3> HIDE DEF second
    <3>4. LET x == [o1 EXCEPT !.profile = TRUE]
          IN  /\ x \in OptionRecords /\ x.setting = o1.setting /\ x.masks = o1.masks
              /\ x.auto = o1.auto /\ x.profile = TRUE /\ x.window = o1.window
              /\ x.title = o1.title /\ x.failed = o1.failed
      BY <1>6, <3>3, WithProfile, Zenon
    <3> QED
      BY <1>6, <2>1, <3>1, <3>2, <3>4, Zenon
  <2>2. CASE ~shown.profile
    <3>1. second = first
      BY <1>2, <1>5, <2>2, Zenon
    <3> HIDE DEF second
    <3> QED
      BY <1>5, <1>6, <2>2, <3>1, Zenon
  <2> QED
    BY <2>1, <2>2
<1> HIDE DEF second
<1>8. /\ third \in Seq(Arguments)
      /\ LET q == Parsed(third)
         IN  /\ q \in OptionRecords /\ q.window = target /\ q.setting = shown.setting
             /\ q.masks = o.masks \cup (IF shown.mask = None THEN {} ELSE {shown.mask})
             /\ q.auto = o.auto
             /\ q.profile = IF shown.profile THEN TRUE ELSE o.profile
             /\ q.failed = o.failed
  <2> DEFINE r == Parsed(second)
  <2>1. CASE shown.mask # None
    <3>1. third = Append(second, <<"ui-mask", shown.mask>>) /\ third \in Seq(Arguments)
      BY <1>1, <1>2, <1>7, <2>1, Zenon
    <3>2. Parsed(third) = AfterArgument(r, <<"ui-mask", shown.mask>>)
      BY <1>1, <1>7, <3>1, ParsedOneMore, Zenon
    <3>3. AfterArgument(r, <<"ui-mask", shown.mask>>) = [r EXCEPT !.masks = @ \cup {shown.mask}]
      BY AfterFlag, Zenon
    <3> HIDE DEF r
    <3>4. [r EXCEPT !.masks = @ \cup {shown.mask}] = [r EXCEPT !.masks = r.masks \cup {shown.mask}]
      OBVIOUS
    <3>5. r \in OptionRecords /\ r.masks \cup {shown.mask} \in SUBSET Values
      BY <1>7, OptionFields, ShownFields DEF r
    <3>6. LET x == [r EXCEPT !.masks = r.masks \cup {shown.mask}]
          IN  /\ x \in OptionRecords /\ x.setting = r.setting
              /\ x.masks = r.masks \cup {shown.mask} /\ x.auto = r.auto
              /\ x.profile = r.profile /\ x.window = r.window /\ x.title = r.title
              /\ x.failed = r.failed
      BY <3>5, WithMasks, Zenon
    <3> HIDE DEF third
    <3> QED
      BY <1>7, <2>1, <3>1, <3>2, <3>3, <3>4, <3>6, Zenon DEF r
  <2>2. CASE shown.mask = None
    <3>1. third = second
      BY <1>2, <1>7, <2>2, Zenon
    <3>2. o.masks \cup {} = o.masks
      OBVIOUS
    <3> HIDE DEF third
    <3> QED
      BY <1>7, <2>2, <3>1, <3>2, Zenon
  <2> QED
    BY <2>1, <2>2
<1> HIDE DEF third
<1>9. /\ line \in Seq(Arguments)
      /\ Kept(Parsed(line), o, shown, target)
  <2> DEFINE r == Parsed(third)
  <2>1. CASE shown.auto
    <3>1. line = Append(third, <<"ui-mask-auto", TRUE>>) /\ line \in Seq(Arguments)
      BY <1>1, <1>2, <1>8, <2>1, Zenon
    <3>2. Parsed(line) = [r EXCEPT !.auto = TRUE]
      <4> DEFINE x == <<"ui-mask-auto", TRUE>>
      <4>1. x \in Arguments /\ third \in Seq(Arguments) /\ line = Append(third, x)
        BY <1>1, <1>8, <3>1, Zenon
      <4> HIDE DEF x, line
      <4>2. Parsed(Append(third, x)) = AfterArgument(Parsed(third), x)
        BY <4>1, ParsedOneMore, Zenon
      <4>3. Parsed(line) = AfterArgument(r, x)
        BY <4>1, <4>2, Zenon
      <4>4. Parsed(line) = AfterArgument(r, <<"ui-mask-auto", TRUE>>)
        BY <4>3, Zenon DEF x
      <4> QED
        BY <4>4, AfterFlag, Zenon
    <3>3. TRUE \in Values
      BY Zenon DEF Values
    <3> HIDE DEF line, r
    <3>4. LET x == [r EXCEPT !.auto = TRUE]
          IN  /\ x \in OptionRecords /\ x.setting = r.setting /\ x.masks = r.masks
              /\ x.auto = TRUE /\ x.profile = r.profile /\ x.window = r.window
              /\ x.title = r.title /\ x.failed = r.failed
      BY <1>8, <3>3, WithAuto, Zenon DEF r
    <3> QED
      BY <1>8, <2>1, <3>1, <3>2, <3>4, Zenon DEF r, Kept
  <2>2. CASE ~shown.auto
    <3>1. line = third
      BY <1>2, <1>8, <2>2, Zenon
    <3> HIDE DEF line
    <3> QED
      BY <1>8, <2>2, <3>1, Zenon DEF Kept
  <2> QED
    BY <2>1, <2>2
<1> QED
  BY <1>3, <1>9 DEF o

------------------------------------------------------------------------------
\* The profile store.
Files == [Executables -> Lines \cup {None}]

Steps == {"idle", "loaded", "open", "written"}

SaverRecords == [step : Steps, entries : Files, shared : BOOLEAN]

StoreType ==
    /\ file \in Files \cup {Torn}
    /\ temporary \in Files \cup {Torn, None}
    /\ save \in [Savers -> SaverRecords]
    /\ overlapped \in BOOLEAN
    /\ unflushed \in BOOLEAN

AtIt(s) == save[s].step \in {"open", "written"}

SharedSeen == \A s \in Savers : save[s].shared => overlapped

AloneAtIt == \A s, t \in Savers : AtIt(s) /\ AtIt(t) => s = t \/ overlapped

WrittenWhole ==
    \A s \in Savers : save[s].step = "written" => temporary # Torn \/ overlapped \/ unflushed

StoreInv ==
    StoreType /\ SharedSeen /\ AloneAtIt /\ WrittenWhole /\ InterruptedSaveKeepsFile

LEMMA NeverTorn == Torn \notin Files
BY LauncherAssumption DEF LauncherAssumption, Files

LEMMA SaverFields ==
    ASSUME NEW r \in SaverRecords
    PROVE  r.step \in Steps /\ r.entries \in Files /\ r.shared \in BOOLEAN
BY DEF SaverRecords

LEMMA SaverMade ==
    ASSUME NEW a \in Steps, NEW f \in Files, NEW b \in BOOLEAN
    PROVE  LET x == [step |-> a, entries |-> f, shared |-> b]
           IN  x \in SaverRecords /\ x.step = a /\ x.entries = f /\ x.shared = b
BY DEF SaverRecords

LEMMA WithStep ==
    ASSUME NEW r \in SaverRecords, NEW a \in Steps
    PROVE  LET x == [r EXCEPT !.step = a]
           IN  x \in SaverRecords /\ x.step = a /\ x.entries = r.entries /\ x.shared = r.shared
BY DEF SaverRecords

LEMMA WithShared ==
    ASSUME NEW r \in SaverRecords, NEW b \in BOOLEAN
    PROVE  LET x == [r EXCEPT !.shared = b]
           IN  x \in SaverRecords /\ x.step = r.step /\ x.entries = r.entries /\ x.shared = b
BY DEF SaverRecords

LEMMA NoEntriesTyped == NoEntries \in Files
BY DEF NoEntries, Files

LEMMA NotSavingTyped ==
    NotSaving \in SaverRecords /\ NotSaving.step = "idle" /\ NotSaving.shared = FALSE
<1>1. "idle" \in Steps /\ FALSE \in BOOLEAN
  BY DEF Steps
<1> QED
  BY <1>1, NoEntriesTyped, SaverMade, Zenon DEF NotSaving

LEMMA StoreInitially == StoreInit => StoreInv
<1> SUFFICES ASSUME StoreInit PROVE StoreInv
  OBVIOUS
<1>1. \A s \in Savers : save[s] = NotSaving
  BY DEF StoreInit
<1>2. StoreType
  BY NoEntriesTyped, NotSavingTyped DEF StoreInit, StoreType
<1>3. SharedSeen /\ AloneAtIt /\ WrittenWhole
  <2>1. \A s \in Savers : save[s].step = "idle" /\ save[s].shared = FALSE
    BY <1>1, NotSavingTyped
  <2> QED
    BY <2>1 DEF SharedSeen, AloneAtIt, AtIt, WrittenWhole
<1>4. InterruptedSaveKeepsFile
  BY NoEntriesTyped, NeverTorn DEF StoreInit, InterruptedSaveKeepsFile
<1> QED
  BY <1>2, <1>3, <1>4, Zenon DEF StoreInv

\* One saver takes a step that does not touch the others: what has to be shown.
LEMMA SaverAlone ==
    ASSUME StoreInv, NEW s \in Savers, NEW r \in SaverRecords,
           save' = [save EXCEPT ![s] = r],
           r.shared => save[s].shared,
           r.step \in {"open", "written"} => AtIt(s),
           UNCHANGED overlapped, unflushed' \in BOOLEAN, unflushed => unflushed',
           temporary' \in Files \cup {Torn, None},
           file' \in Files \cup {Torn},
           InterruptedSaveKeepsFile',
           \A o \in Savers : save'[o].step = "written" =>
               temporary' # Torn \/ overlapped \/ unflushed'
    PROVE  StoreInv'
<1>1. save \in [Savers -> SaverRecords] /\ overlapped \in BOOLEAN
  BY DEF StoreInv, StoreType
<1>2. StoreType'
  BY <1>1 DEF StoreType
<1>3. save'[s] = r /\ \A o \in Savers : o # s => save'[o] = save[o]
  BY <1>1
<1>4. SharedSeen'
  <2>1. \A o \in Savers : save'[o].shared => save[o].shared
    BY <1>3
  <2> QED
    BY <2>1 DEF StoreInv, SharedSeen
<1>5. AloneAtIt'
  <2>1. \A o \in Savers : AtIt(o)' => AtIt(o)
    BY <1>3 DEF AtIt
  <2> QED
    BY <2>1 DEF StoreInv, AloneAtIt
<1>6. WrittenWhole'
  BY DEF WrittenWhole
<1> QED
  BY <1>2, <1>4, <1>5, <1>6, Zenon DEF StoreInv

LEMMA LoadStep ==
    ASSUME StoreInv, NEW s \in Savers, NEW executable \in Executables, NEW line \in Lines,
           LoadForSave(s, executable, line)
    PROVE  StoreInv'
<1>1. PICK entries \in IF file = Torn THEN {NoEntries} ELSE {file} :
         save' = [save EXCEPT ![s] =
                     [step |-> "loaded",
                      entries |-> [entries EXCEPT ![executable] = line],
                      shared |-> FALSE]]
  BY Zenon DEF LoadForSave
<1>2. entries \in Files
  BY NoEntriesTyped DEF StoreInv, StoreType
<1> DEFINE stored == [entries EXCEPT ![executable] = line]
           r == [step |-> "loaded", entries |-> stored, shared |-> FALSE]
<1>3. stored \in Files
  BY <1>2 DEF Files
<1>4. r \in SaverRecords /\ r.step = "loaded" /\ r.shared = FALSE
  <2>1. "loaded" \in Steps /\ FALSE \in BOOLEAN
    BY DEF Steps
  <2> HIDE DEF stored
  <2> QED
    BY <1>3, <2>1, SaverMade, Zenon
<1>5. save' = [save EXCEPT ![s] = r]
  BY <1>1, Zenon
<1>6. UNCHANGED <<file, temporary, overlapped, unflushed>>
  BY DEF LoadForSave
<1> HIDE DEF r
<1>7. \A o \in Savers : save'[o].step = "written" =>
          temporary' # Torn \/ overlapped \/ unflushed'
  <2>1. \A o \in Savers : save'[o].step = "written" => save[o].step = "written"
    BY <1>4, <1>5 DEF StoreInv, StoreType
  <2> QED
    BY <1>6, <2>1 DEF StoreInv, WrittenWhole
<1>8. InterruptedSaveKeepsFile'
  BY <1>6 DEF StoreInv, InterruptedSaveKeepsFile
<1> QED
  BY <1>4, <1>5, <1>6, <1>7, <1>8, SaverAlone DEF StoreInv, StoreType

\* A saver gives up: another cannot be worse off.
LEMMA GivesUp ==
    ASSUME StoreInv, NEW s \in Savers, save' = [save EXCEPT ![s] = NotSaving],
           UNCHANGED <<overlapped, unflushed, file>>, temporary' \in {temporary, None, Torn},
           temporary' # temporary => AtIt(s)
    PROVE  StoreInv'
<1>1. save \in [Savers -> SaverRecords] /\ temporary \in Files \cup {Torn, None}
  BY DEF StoreInv, StoreType
<1>2. \A o \in Savers : save'[o].step = "written" =>
          temporary' # Torn \/ overlapped \/ unflushed'
  <2>1. ASSUME NEW o \in Savers, save'[o].step = "written"
        PROVE  temporary' # Torn \/ overlapped \/ unflushed'
    <3>1. o # s /\ save[o].step = "written"
      BY <1>1, <2>1, NotSavingTyped
    <3>2. CASE temporary' = temporary
      BY <3>1, <3>2 DEF StoreInv, WrittenWhole
    <3>3. CASE AtIt(s)
      BY <3>1, <3>3 DEF StoreInv, AloneAtIt, AtIt
    <3> QED
      BY <3>2, <3>3
  <2> QED
    BY <2>1
<1>3. InterruptedSaveKeepsFile'
  BY DEF StoreInv, InterruptedSaveKeepsFile
<1> QED
  BY <1>1, <1>2, <1>3, NotSavingTyped, SaverAlone DEF StoreInv, StoreType

LEMMA OpenStep ==
    ASSUME StoreInv, NEW s \in Savers, OpenTemporary(s)
    PROVE  StoreInv'
<1> DEFINE opened == [save[s] EXCEPT !.step = "open", !.shared = OthersWriting(s) # {}]
           others(o) == [save[o] EXCEPT !.shared = @ \/ o \in OthersWriting(s)]
<1>1. UNCHANGED <<file, unflushed>> /\ save[s].step = "loaded"
  BY DEF OpenTemporary
<1>2. CASE save' = [save EXCEPT ![s] = NotSaving] /\ UNCHANGED <<temporary, overlapped>>
  BY <1>1, <1>2, GivesUp
<1>3. CASE /\ temporary' = Torn
           /\ save' = [o \in Savers |-> IF o = s THEN opened ELSE others(o)]
           /\ overlapped' = (overlapped \/ OthersAtIt(s) # {})
  <2>1. \A o \in Savers : save[o] \in SaverRecords
    BY DEF StoreInv, StoreType
  <2>2. /\ opened \in SaverRecords /\ opened.step = "open"
        /\ opened.shared = (OthersWriting(s) # {})
    <3> DEFINE half == [save[s] EXCEPT !.step = "open"]
               b == OthersWriting(s) # {}
    <3>1. "open" \in Steps /\ b \in BOOLEAN
      BY DEF Steps
    <3>2. half \in SaverRecords /\ half.step = "open"
      BY <2>1, <3>1, WithStep, Zenon
    <3>3. opened = [half EXCEPT !.shared = b]
      BY <2>1 DEF SaverRecords
    <3> HIDE DEF half, b, opened
    <3>4. opened \in SaverRecords /\ opened.step = "open" /\ opened.shared = b
      BY <3>1, <3>2, <3>3, WithShared, Zenon
    <3> QED
      BY <3>4 DEF b
  <2>3. ASSUME NEW o \in Savers
        PROVE  /\ others(o) \in SaverRecords /\ others(o).step = save[o].step
               /\ others(o).shared = (save[o].shared \/ o \in OthersWriting(s))
    <3> DEFINE b == save[o].shared \/ o \in OthersWriting(s)
    <3>1. b \in BOOLEAN
      OBVIOUS
    <3>2. others(o) = [save[o] EXCEPT !.shared = b]
      OBVIOUS
    <3> HIDE DEF b, others
    <3>3. LET x == [save[o] EXCEPT !.shared = b]
          IN  /\ x \in SaverRecords /\ x.step = save[o].step
              /\ x.entries = save[o].entries /\ x.shared = b
      <4>1. save[o] \in SaverRecords
        BY <2>1, <2>3, Zenon
      <4> QED
        BY <3>1, <4>1, WithShared, Zenon
    <3>4. /\ others(o) \in SaverRecords /\ others(o).step = save[o].step
          /\ others(o).shared = b
      BY <3>2, <3>3, Zenon
    <3> QED
      BY <3>4 DEF b
  <2> HIDE DEF opened, others
  <2>4. save'[s] = opened /\ \A o \in Savers : o # s => save'[o] = others(o)
    BY <1>3
  <2>5. (OthersWriting(s) # {} => overlapped') /\ (overlapped => overlapped')
        /\ overlapped' \in BOOLEAN
    BY <1>3 DEF StoreInv, StoreType, OthersWriting, OthersAtIt
  <2>6. StoreType'
    <3>1. save' \in [Savers -> SaverRecords]
      BY <1>3, <2>2, <2>3
    <3> QED
      BY <1>1, <1>3, <2>5, <3>1 DEF StoreInv, StoreType
  <2>7. SharedSeen'
    <3>1. ASSUME NEW o \in Savers, save'[o].shared
          PROVE  overlapped'
      <4>1. CASE o = s
        BY <2>2, <2>4, <2>5, <3>1, <4>1, Zenon
      <4>2. CASE o # s
        <5>1. others(o).shared
          BY <2>4, <3>1, <4>2, Zenon
        <5>2. save[o].shared \/ o \in OthersWriting(s)
          BY <2>3, <5>1, Zenon
        <5> QED
          BY <2>5, <5>2, Zenon DEF StoreInv, SharedSeen
      <4> QED
        BY <4>1, <4>2
    <3> QED
      BY <3>1, Zenon DEF SharedSeen
  <2>8. AloneAtIt'
    <3>1. \A o \in Savers : o # s => save'[o].step = save[o].step
      BY <2>3, <2>4
    <3>2. ASSUME NEW o \in Savers, o # s, AtIt(o)'
          PROVE  overlapped'
      <4>1. o \in OthersAtIt(s)
        BY <3>1, <3>2 DEF AtIt, OthersAtIt
      <4> QED
        BY <1>3, <4>1
    <3>3. \A t, u \in Savers : AtIt(t)' /\ AtIt(u)' => t = u \/ overlapped'
      BY <3>2
    <3> QED
      BY <3>3 DEF AloneAtIt
  <2>9. WrittenWhole'
    <3>1. ASSUME NEW o \in Savers, save'[o].step = "written"
          PROVE  overlapped'
      <4>1. o # s
        BY <2>2, <2>4, <3>1
      <4>2. o \in OthersAtIt(s)
        BY <2>3, <2>4, <3>1, <4>1 DEF OthersAtIt
      <4> QED
        BY <1>3, <4>2
    <3> QED
      BY <3>1 DEF WrittenWhole
  <2>10. InterruptedSaveKeepsFile'
    BY <1>1, <2>5 DEF StoreInv, InterruptedSaveKeepsFile
  <2> QED
    BY <2>6, <2>7, <2>8, <2>9, <2>10, Zenon DEF StoreInv
<1> QED
  BY <1>2, <1>3, Zenon DEF OpenTemporary

LEMMA WriteStep ==
    ASSUME StoreInv, NEW s \in Savers, WriteTemporary(s)
    PROVE  StoreInv'
<1>1. /\ UNCHANGED <<file, overlapped>> /\ save[s].step = "open"
      /\ save[s] \in SaverRecords /\ save \in [Savers -> SaverRecords]
      /\ overlapped \in BOOLEAN /\ unflushed \in BOOLEAN
      /\ file \in Files \cup {Torn}
  BY DEF WriteTemporary, StoreInv, StoreType
<1>2. CASE save' = [save EXCEPT ![s] = NotSaving] /\ temporary' = Torn /\ UNCHANGED unflushed
  BY <1>1, <1>2, GivesUp DEF AtIt
<1>3. CASE /\ save' = [save EXCEPT ![s].step = "written"]
           /\ \/ temporary' = save[s].entries /\ UNCHANGED unflushed
              \/ save[s].shared /\ temporary' = Torn /\ UNCHANGED unflushed
              \/ temporary' = Torn /\ unflushed' = TRUE
  <2> DEFINE r == [save[s] EXCEPT !.step = "written"]
  <2>1. /\ r \in SaverRecords /\ r.step = "written" /\ r.shared = save[s].shared
    <3>1. "written" \in Steps
      BY DEF Steps
    <3> QED
      BY <1>1, <3>1, WithStep, Zenon
  <2>2. save' = [save EXCEPT ![s] = r]
    BY <1>1, <1>3
  <2> HIDE DEF r
  <2>3. save[s].entries \in Files
    BY <1>1, SaverFields, Zenon
  <2>4. /\ temporary' \in Files \cup {Torn, None}
        /\ unflushed' \in BOOLEAN /\ (unflushed => unflushed')
    BY <1>1, <1>3, <2>3
  <2>5. temporary' # Torn \/ overlapped \/ unflushed'
    <3>1. CASE temporary' = save[s].entries
      BY <2>3, <3>1, NeverTorn
    <3>2. CASE save[s].shared
      BY <3>2, Zenon DEF StoreInv, SharedSeen
    <3>3. CASE unflushed' = TRUE
      BY <3>3
    <3> QED
      BY <1>3, <3>1, <3>2, <3>3, Zenon
  <2>6. InterruptedSaveKeepsFile'
    BY <1>1, <2>4 DEF StoreInv, InterruptedSaveKeepsFile
  <2>7. r.shared => save[s].shared
    BY <2>1, Zenon
  <2>8. AtIt(s)
    BY <1>1 DEF AtIt
  <2>9. \A o \in Savers : save'[o].step = "written" => temporary' # Torn \/ overlapped \/ unflushed'
    BY <2>5, Zenon
  <2> QED
    BY <1>1, <2>1, <2>2, <2>4, <2>6, <2>7, <2>8, <2>9, SaverAlone
<1> QED
  BY <1>2, <1>3, Zenon DEF WriteTemporary

LEMMA ReplaceStep ==
    ASSUME StoreInv, NEW s \in Savers, ReplaceFile(s)
    PROVE  StoreInv'
<1>1. /\ UNCHANGED <<overlapped, unflushed>> /\ save[s].step = "written"
      /\ save' = [save EXCEPT ![s] = NotSaving] /\ AtIt(s)
  BY DEF ReplaceFile, AtIt
<1>2. CASE UNCHANGED file /\ temporary' \in {temporary, None}
  BY <1>1, <1>2, GivesUp
<1>3. CASE temporary # None /\ file' = temporary /\ temporary' = None
  <2>1. InterruptedSaveKeepsFile'
    BY <1>1, <1>3 DEF StoreInv, WrittenWhole, InterruptedSaveKeepsFile
  <2>2. \A o \in Savers : save'[o].step = "written" => temporary' # Torn \/ overlapped \/ unflushed'
    <3>1. ASSUME NEW o \in Savers, save'[o].step = "written"
          PROVE  overlapped
      <4>1. o # s /\ save[o].step = "written"
        BY <1>1, <3>1, NotSavingTyped DEF StoreInv, StoreType
      <4> QED
        BY <1>1, <4>1 DEF StoreInv, AloneAtIt, AtIt
    <3> QED
      BY <3>1
  <2> QED
    BY <1>1, <1>3, <2>1, <2>2, NotSavingTyped, SaverAlone DEF StoreInv, StoreType
<1> QED
  BY <1>2, <1>3 DEF ReplaceFile

LEMMA SaveStep ==
    ASSUME StoreInv, NEW s \in Savers, SaveProfiles(s)
    PROVE  StoreInv'
BY OpenStep, WriteStep, ReplaceStep, Zenon DEF SaveProfiles

LEMMA KilledStep ==
    ASSUME StoreInv, NEW s \in Savers, Killed(s)
    PROVE  StoreInv'
BY GivesUp DEF Killed

LEMMA StoreKept ==
    ASSUME StoreInv, UNCHANGED store
    PROVE  StoreInv'
<1>1. UNCHANGED <<file, temporary, save, overlapped, unflushed>>
  BY DEF store
<1> QED
  BY <1>1, Zenon DEF StoreInv, StoreType, SharedSeen, AloneAtIt, AtIt, WrittenWhole,
                     InterruptedSaveKeepsFile

------------------------------------------------------------------------------
\* The window and its controls.
Targets == Windows \cup {TestWindow, None}

UiRecords ==
    [window : {"open", "destroyed"}, closing : BOOLEAN, target : Targets,
     listed : SUBSET Targets, shown : ShownRecords, child_process : BOOLEAN,
     stop_event : BOOLEAN, test_process : BOOLEAN, start : BOOLEAN, stop : BOOLEAN,
     controls : BOOLEAN]

\* What the handlers leave behind, whatever they were about.
UiSettled(u) ==
    /\ u \in UiRecords
    /\ u.start => ~u.child_process /\ ~u.test_process /\ u.target # None
    /\ ~(u.child_process /\ u.test_process)
    /\ u.window = "destroyed" => ~u.child_process

\* A handler that neither starts nor lets go of a pipeline.
Stays(v, u) ==
    /\ UiSettled(v)
    /\ v.child_process = u.child_process
    /\ v.window = u.window
    /\ v.child_process /\ u.stop => v.stop

LEMMA WithStart ==
    ASSUME NEW u \in UiRecords, NEW b \in BOOLEAN
    PROVE  LET x == [u EXCEPT !.start = b]
           IN  /\ x \in UiRecords /\ x.window = u.window /\ x.target = u.target
               /\ x.child_process = u.child_process /\ x.test_process = u.test_process
               /\ x.start = b /\ x.stop = u.stop /\ x.shown = u.shown
BY DEF UiRecords

LEMMA WithControls ==
    ASSUME NEW u \in UiRecords, NEW b \in BOOLEAN
    PROVE  LET x == [u EXCEPT !.controls = b]
           IN  /\ x \in UiRecords /\ x.window = u.window /\ x.target = u.target
               /\ x.child_process = u.child_process /\ x.test_process = u.test_process
               /\ x.start = u.start /\ x.stop = u.stop /\ x.shown = u.shown
BY DEF UiRecords

LEMMA WithListed ==
    ASSUME NEW u \in UiRecords, NEW l \in SUBSET Targets
    PROVE  LET x == [u EXCEPT !.listed = l]
           IN  /\ x \in UiRecords /\ x.window = u.window /\ x.target = u.target
               /\ x.child_process = u.child_process /\ x.test_process = u.test_process
               /\ x.start = u.start /\ x.stop = u.stop /\ x.shown = u.shown
BY DEF UiRecords

LEMMA WithTarget ==
    ASSUME NEW u \in UiRecords, NEW t \in Targets
    PROVE  LET x == [u EXCEPT !.target = t]
           IN  /\ x \in UiRecords /\ x.window = u.window /\ x.target = t
               /\ x.child_process = u.child_process /\ x.test_process = u.test_process
               /\ x.start = u.start /\ x.stop = u.stop /\ x.shown = u.shown
BY DEF UiRecords

LEMMA WithShown ==
    ASSUME NEW u \in UiRecords, NEW s \in ShownRecords
    PROVE  LET x == [u EXCEPT !.shown = s]
           IN  /\ x \in UiRecords /\ x.window = u.window /\ x.target = u.target
               /\ x.child_process = u.child_process /\ x.test_process = u.test_process
               /\ x.start = u.start /\ x.stop = u.stop /\ x.shown = s
BY DEF UiRecords

LEMMA WithTest ==
    ASSUME NEW u \in UiRecords, NEW b \in BOOLEAN
    PROVE  LET x == [u EXCEPT !.test_process = b]
           IN  /\ x \in UiRecords /\ x.window = u.window /\ x.target = u.target
               /\ x.child_process = u.child_process /\ x.test_process = b
               /\ x.start = u.start /\ x.stop = u.stop /\ x.shown = u.shown
BY DEF UiRecords

LEMMA WithChild ==
    ASSUME NEW u \in UiRecords, NEW b \in BOOLEAN
    PROVE  LET x == [u EXCEPT !.child_process = b, !.stop_event = b]
           IN  /\ x \in UiRecords /\ x.window = u.window /\ x.target = u.target
               /\ x.child_process = b /\ x.test_process = u.test_process
               /\ x.start = u.start /\ x.stop = u.stop /\ x.shown = u.shown
BY DEF UiRecords

LEMMA WithClosing ==
    ASSUME NEW u \in UiRecords, NEW b \in BOOLEAN
    PROVE  LET x == [u EXCEPT !.closing = b]
           IN  /\ x \in UiRecords /\ x.window = u.window /\ x.target = u.target
               /\ x.child_process = u.child_process /\ x.test_process = u.test_process
               /\ x.start = u.start /\ x.stop = u.stop /\ x.shown = u.shown
BY DEF UiRecords

LEMMA WithStop ==
    ASSUME NEW u \in UiRecords, NEW b \in BOOLEAN
    PROVE  LET x == [u EXCEPT !.stop = b]
           IN  /\ x \in UiRecords /\ x.window = u.window /\ x.target = u.target
               /\ x.child_process = u.child_process /\ x.test_process = u.test_process
               /\ x.start = u.start /\ x.stop = b /\ x.shown = u.shown
BY DEF UiRecords

LEMMA WithDestroyed ==
    ASSUME NEW u \in UiRecords
    PROVE  LET x == [u EXCEPT !.window = "destroyed"]
           IN  /\ x \in UiRecords /\ x.window = "destroyed" /\ x.target = u.target
               /\ x.child_process = u.child_process /\ x.test_process = u.test_process
               /\ x.start = u.start /\ x.stop = u.stop /\ x.shown = u.shown
BY DEF UiRecords

LEMMA UiFields ==
    ASSUME NEW u \in UiRecords
    PROVE  /\ u.window \in {"open", "destroyed"} /\ u.closing \in BOOLEAN /\ u.target \in Targets
           /\ u.listed \in SUBSET Targets /\ u.shown \in ShownRecords
           /\ u.child_process \in BOOLEAN /\ u.stop_event \in BOOLEAN
           /\ u.test_process \in BOOLEAN /\ u.start \in BOOLEAN /\ u.stop \in BOOLEAN
BY DEF UiRecords

\* The controls are put right: a window without a pipeline and a test at once
\* is settled.
LEMMA UpdateEffect ==
    ASSUME NEW u \in UiRecords, ~(u.child_process /\ u.test_process),
           u.window = "destroyed" => ~u.child_process
    PROVE  LET x == UpdateControlAvailability(u)
           IN  /\ UiSettled(x) /\ x.child_process = u.child_process
               /\ x.window = u.window /\ x.stop = u.child_process /\ x.shown = u.shown
               /\ x.test_process = u.test_process
<1> DEFINE a == ~u.child_process /\ ~u.test_process /\ u.target # None
           b == u.child_process
           c == ~u.child_process
           x == [u EXCEPT !.start = a, !.stop = b, !.controls = c]
<1>1. a \in BOOLEAN /\ b \in BOOLEAN /\ c \in BOOLEAN
  BY UiFields
<1>2. UpdateControlAvailability(u) = x
  BY Zenon DEF UpdateControlAvailability
<1> HIDE DEF a, b, c
<1>3. /\ x \in UiRecords /\ x.window = u.window /\ x.target = u.target
      /\ x.child_process = u.child_process /\ x.test_process = u.test_process
      /\ x.start = a /\ x.stop = b /\ x.shown = u.shown
  <2> DEFINE p == [u EXCEPT !.start = a]
             q == [p EXCEPT !.stop = b]
  <2>1. /\ p \in UiRecords /\ p.window = u.window /\ p.target = u.target
        /\ p.child_process = u.child_process /\ p.test_process = u.test_process
        /\ p.start = a /\ p.shown = u.shown
    BY <1>1, WithStart, Zenon
  <2>2. x = [q EXCEPT !.controls = c]
    BY DEF UiRecords
  <2> HIDE DEF p
  <2>3. /\ q \in UiRecords /\ q.window = u.window /\ q.target = u.target
        /\ q.child_process = u.child_process /\ q.test_process = u.test_process
        /\ q.start = a /\ q.stop = b /\ q.shown = u.shown
    <3>1. LET y == [p EXCEPT !.stop = b]
          IN  /\ y \in UiRecords /\ y.window = p.window /\ y.target = p.target
              /\ y.child_process = p.child_process /\ y.test_process = p.test_process
              /\ y.start = p.start /\ y.stop = b /\ y.shown = p.shown
      BY <1>1, <2>1, WithStop, Zenon
    <3> QED
      BY <2>1, <3>1, Zenon
  <2> HIDE DEF q, x
  <2>4. LET y == [q EXCEPT !.controls = c]
        IN  /\ y \in UiRecords /\ y.window = q.window /\ y.target = q.target
            /\ y.child_process = q.child_process /\ y.test_process = q.test_process
            /\ y.start = q.start /\ y.stop = q.stop /\ y.shown = q.shown
    BY <1>1, <2>3, WithControls, Zenon
  <2> QED
    BY <2>2, <2>3, <2>4, Zenon
<1> HIDE DEF x
<1>4. x.start => ~x.child_process /\ ~x.test_process /\ x.target # None
  BY <1>3, Zenon DEF a
<1>5. UiSettled(x)
  BY <1>3, <1>4, Zenon DEF UiSettled
<1> QED
  BY <1>2, <1>3, <1>5, Zenon DEF b

\* A selection in the list.
LEMMA TargetEffect ==
    ASSUME NEW u, UiSettled(u), NEW t \in Targets
    PROVE  LET x == UpdateControlAvailability([u EXCEPT !.target = t])
           IN  /\ Stays(x, u) /\ x.test_process = u.test_process
               /\ x.stop = u.child_process
<1> DEFINE y == [u EXCEPT !.target = t]
<1>1. /\ y \in UiRecords /\ y.window = u.window
      /\ y.child_process = u.child_process /\ y.test_process = u.test_process
  BY WithTarget, Zenon DEF UiSettled
<1> HIDE DEF y
<1>2. ~(y.child_process /\ y.test_process) /\ (y.window = "destroyed" => ~y.child_process)
  BY <1>1, Zenon DEF UiSettled
<1>3. LET x == UpdateControlAvailability(y)
      IN  /\ UiSettled(x) /\ x.child_process = y.child_process
          /\ x.window = y.window /\ x.stop = y.child_process /\ x.shown = y.shown
          /\ x.test_process = y.test_process
  BY <1>1, <1>2, UpdateEffect, Zenon
<1>4. LET x == UpdateControlAvailability(y)
      IN  /\ Stays(x, u) /\ x.test_process = u.test_process
          /\ x.stop = u.child_process
  BY <1>1, <1>3, Zenon DEF Stays
<1> QED
  BY <1>4, Zenon DEF y

\* The list is filled again.
LEMMA PopulateEffect ==
    ASSUME NEW u \in UiRecords, ~(u.child_process /\ u.test_process),
           u.window = "destroyed" => ~u.child_process,
           windows \subseteq Targets, NEW v \in PopulateTargets(u)
    PROVE  /\ Stays(v, u) /\ v.test_process = u.test_process
           /\ v.stop = u.child_process
<1>1. PICK t \in Targets :
        v = UpdateControlAvailability([u EXCEPT !.listed = windows, !.target = t])
  BY UiFields DEF PopulateTargets, Targets
<1> DEFINE y == [u EXCEPT !.listed = windows, !.target = t]
<1>2. /\ y \in UiRecords /\ y.window = u.window
      /\ y.child_process = u.child_process /\ y.test_process = u.test_process
  <2>1. windows \in SUBSET Targets
    OBVIOUS
  <2> DEFINE p == [u EXCEPT !.listed = windows]
  <2>2. /\ p \in UiRecords /\ p.window = u.window
        /\ p.child_process = u.child_process /\ p.test_process = u.test_process
    BY <2>1, WithListed, Zenon
  <2>3. y = [p EXCEPT !.target = t]
    BY DEF UiRecords
  <2> HIDE DEF p, y
  <2>4. LET x == [p EXCEPT !.target = t]
        IN  /\ x \in UiRecords /\ x.window = p.window /\ x.target = t
            /\ x.child_process = p.child_process /\ x.test_process = p.test_process
            /\ x.start = p.start /\ x.stop = p.stop /\ x.shown = p.shown
    BY <2>2, WithTarget, Zenon
  <2> QED
    BY <2>2, <2>3, <2>4, Zenon
<1>3. v = UpdateControlAvailability(y)
  BY <1>1, Zenon
<1> HIDE DEF y
<1>4. ~(y.child_process /\ y.test_process) /\ (y.window = "destroyed" => ~y.child_process)
  BY <1>2, Zenon
<1>5. LET x == UpdateControlAvailability(y)
      IN  /\ UiSettled(x) /\ x.child_process = y.child_process
          /\ x.window = y.window /\ x.stop = y.child_process /\ x.shown = y.shown
          /\ x.test_process = y.test_process
  BY <1>2, <1>4, UpdateEffect, Zenon
<1> QED
  BY <1>2, <1>3, <1>5, Zenon DEF Stays

\* The handle of a test animation is closed.
LEMMA FinishEffect ==
    ASSUME NEW u \in UiRecords, u.window = "destroyed" => ~u.child_process
    PROVE  LET x == FinishPendingTestLaunch(u)
           IN  /\ Stays(x, u) /\ x.test_process = FALSE /\ x.stop = u.child_process
<1> DEFINE y == [u EXCEPT !.test_process = FALSE]
<1>1. /\ y \in UiRecords /\ y.window = u.window
      /\ y.child_process = u.child_process /\ y.test_process = FALSE
  <2>1. FALSE \in BOOLEAN
    OBVIOUS
  <2> QED
    BY <2>1, WithTest, Zenon
<1>2. FinishPendingTestLaunch(u) = UpdateControlAvailability(y)
  BY Zenon DEF FinishPendingTestLaunch
<1> HIDE DEF y
<1>3. ~(y.child_process /\ y.test_process) /\ (y.window = "destroyed" => ~y.child_process)
  BY <1>1, Zenon
<1>4. LET x == UpdateControlAvailability(y)
      IN  /\ UiSettled(x) /\ x.child_process = y.child_process
          /\ x.window = y.window /\ x.stop = y.child_process /\ x.shown = y.shown
          /\ x.test_process = y.test_process
  BY <1>1, <1>3, UpdateEffect, Zenon
<1> QED
  BY <1>1, <1>2, <1>4, Zenon DEF Stays

\* The handles of the pipeline are closed.
LEMMA CloseEffect ==
    ASSUME NEW u \in UiRecords
    PROVE  LET x == CloseChildHandles(u)
           IN  x \in UiRecords /\ x.child_process = FALSE /\ x.window = u.window
               /\ x.test_process = u.test_process
<1>1. FALSE \in BOOLEAN
  OBVIOUS
<1> QED
  BY <1>1, WithChild, Zenon DEF CloseChildHandles

LEMMA DestroyedEffect ==
    ASSUME NEW u \in UiRecords
    PROVE  UiSettled(Destroyed(u)) /\ Destroyed(u).child_process = FALSE
<1> DEFINE y == CloseChildHandles(u)
           z == FinishPendingTestLaunch(y)
<1>1. y \in UiRecords /\ y.child_process = FALSE
  BY CloseEffect, Zenon
<1>2. Destroyed(u) = [z EXCEPT !.window = "destroyed"]
  BY Zenon DEF Destroyed
<1> HIDE DEF y
<1>3. Stays(z, y)
  BY <1>1, FinishEffect, Zenon
<1> HIDE DEF z
<1>4. UiSettled(z) /\ z.child_process = FALSE
  BY <1>1, <1>3, Zenon DEF Stays
<1>5. LET x == [z EXCEPT !.window = "destroyed"]
      IN  /\ x \in UiRecords /\ x.window = "destroyed" /\ x.target = z.target
          /\ x.child_process = z.child_process /\ x.test_process = z.test_process
          /\ x.start = z.start /\ x.stop = z.stop /\ x.shown = z.shown
  BY <1>4, WithDestroyed, Zenon DEF UiSettled
<1> DEFINE x == [z EXCEPT !.window = "destroyed"]
<1>6. UiSettled(x) /\ x.child_process = FALSE
  <2> HIDE DEF x
  <2>1. /\ x \in UiRecords /\ x.window = "destroyed" /\ x.target = z.target
        /\ x.child_process = z.child_process /\ x.test_process = z.test_process
        /\ x.start = z.start
    BY <1>5, Zenon DEF x
  <2> QED
    BY <1>4, <2>1, Zenon DEF UiSettled
<1> QED
  BY <1>2, <1>6, Zenon

------------------------------------------------------------------------------
\* The pipeline process.
States == {"none", "starting", "running", "ended"}

ChildRecords ==
    [state : States, target : Targets, arguments : Seq(Arguments),
     shown : ShownRecords \cup {None}, options : OptionRecords]

Alive == child.state \in {"starting", "running"}

\* A living pipeline was started from what the window showed.
Asked ==
    Alive => /\ child.shown \in ShownRecords
             /\ child.shown.mask # Unreadable
             /\ child.arguments = LaunchArguments(child.shown, child.target)

\* The launcher holds the handles of a living pipeline, and Stop is there for
\* it until it was told to stop.
Held ==
    /\ Alive => ui.child_process
    /\ ui.child_process /\ ~signalled => ui.stop

IInv ==
    /\ StoreInv
    /\ windows \subseteq Targets
    /\ UiSettled(ui)
    /\ child \in ChildRecords
    /\ signalled \in BOOLEAN
    /\ Held
    /\ Asked
    /\ RunsAsShown

\* What is stored are arguments.
LEMMA LinesAreArguments == Lines \subseteq Seq(Arguments)
<1>1. CliArguments \subseteq Seq(Arguments)
  <2>1. Flags \X CliValues \subseteq Arguments
    BY DEF Arguments, Values
  <2>2. \A a \in Seq(Flags \X CliValues) : a \in Seq(Arguments)
    <3> DEFINE S == Flags \X CliValues
    <3>1. S \subseteq Arguments
      BY <2>1
    <3> HIDE DEF S
    <3>2. \A a \in Seq(S) : a \in Seq(Arguments)
      BY <3>1
    <3> QED
      BY <3>2 DEF S
  <2>3. CliArguments \subseteq Seq(Flags \X CliValues)
    BY LauncherAssumption, Zenon DEF LauncherAssumption
  <2> QED
    BY <2>2, <2>3, Zenon
<1>2. ASSUME NEW shown \in ShownRecords
      PROVE  ProfileArgumentsFor(shown) \in Seq(Arguments)
  <2> DEFINE a == <<"setting", shown.setting>>
             m == <<"ui-mask", shown.mask>>
             b == <<"ui-mask-auto", shown.auto>>
             mask == IF shown.mask = None THEN <<>> ELSE << m >>
  <2>1. /\ shown.setting \in Values /\ shown.mask \in Values /\ shown.auto \in Values
    <3>1. TRUE \in Values /\ FALSE \in Values
      BY Zenon DEF Values
    <3>2. shown.auto = TRUE \/ shown.auto = FALSE
      BY ShownFields
    <3> QED
      BY <3>1, <3>2, ShownFields, Zenon
  <2>2. "setting" \in Flags /\ "ui-mask" \in Flags /\ "ui-mask-auto" \in Flags
    BY DEF Flags
  <2>3. a \in Arguments /\ m \in Arguments /\ b \in Arguments
    <3>1. \A f \in Flags, v \in Values : <<f, v>> \in Arguments
      BY DEF Arguments
    <3> QED
      BY <2>1, <2>2, <3>1, Zenon
  <2> HIDE DEF a, m, b
  <2>4. <<a>> \in Seq(Arguments) /\ <<b>> \in Seq(Arguments) /\ mask \in Seq(Arguments)
    BY <2>3
  <2>5. ProfileArgumentsFor(shown) = (<<a>> \o mask) \o <<b>>
    BY Zenon DEF ProfileArgumentsFor, MaskArguments, a, m, b
  <2> HIDE DEF mask
  <2> QED
    BY <2>4, <2>5, ConcatProperties
<1> QED
  BY <1>1, <1>2 DEF Lines

LEMMA StoredTyped ==
    ASSUME StoreInv, NEW executable
    PROVE  StoredFor(executable) \in Seq(Arguments) \cup {None}
BY LinesAreArguments DEF StoreInv, StoreType, Files, StoredFor

\* Naming a target twice only makes the line fail.
LEMMA ParsedWhole ==
    ASSUME NEW a \in Seq(Arguments)
    PROVE  LET x == ParseOptions(a)
           IN  /\ x \in OptionRecords /\ x.setting = Parsed(a).setting
               /\ x.masks = Parsed(a).masks /\ x.auto = Parsed(a).auto
               /\ x.profile = Parsed(a).profile /\ x.window = Parsed(a).window
<1> DEFINE o == Parsed(a)
           b == o.failed \/ (o.window # None /\ o.title # None)
<1>1. ParseOptions(a) = [o EXCEPT !.failed = b]
  BY DEF ParseOptions, Parsed
<1>2. o \in OptionRecords
  BY ParsedTyped
<1>3. b \in BOOLEAN
  OBVIOUS
<1> HIDE DEF b, o
<1>4. LET x == [o EXCEPT !.failed = b]
      IN  /\ x \in OptionRecords /\ x.setting = o.setting /\ x.masks = o.masks
          /\ x.auto = o.auto /\ x.profile = o.profile /\ x.window = o.window
          /\ x.title = o.title /\ x.failed = b
  BY <1>2, <1>3, WithFailed, Zenon
<1> QED
  BY <1>1, <1>4, Zenon DEF o

\* What the pipeline runs with is what was asked for and what a profile may add
\* to it: whatever lines are stored, of any length, the flags of the launch line
\* that come after them win (main.cpp, ParseOptions of the merged line).
THEOREM PreparedAsAsked ==
    ASSUME NEW shown \in ShownRecords, NEW target \in Values, shown.mask # Unreadable,
           NEW stored \in Seq(Arguments) \cup {None}
    PROVE  LET x == PreparedOptions(LaunchArguments(shown, target), stored)
               masks == IF shown.mask = None THEN {} ELSE {shown.mask}
           IN  /\ x \in OptionRecords /\ x.window = target /\ x.setting = shown.setting
               /\ masks \subseteq x.masks
               /\ shown.auto => x.auto
               /\ ~shown.profile => x.masks = masks /\ x.auto = shown.auto
<1> DEFINE line == LaunchArguments(shown, target)
           masks == IF shown.mask = None THEN {} ELSE {shown.mask}
           explicit == ParseOptions(line)
           whole == ParseOptions(stored \o line)
<1>1. /\ line \in Seq(Arguments)
      /\ Kept(Parsed(line), NoOptions, shown, target)
  <2>1. <<>> \in Seq(Arguments)
    OBVIOUS
  <2>2. /\ line \in Seq(Arguments)
        /\ Kept(Parsed(<<>> \o line), Parsed(<<>>), shown, target)
    BY <2>1, LaunchLineKept, Zenon
  <2> HIDE DEF line
  <2>3. <<>> \o line = line
    BY <2>2, ConcatEmptySeq
  <2> QED
    BY <2>2, <2>3, ParsedNothing, Zenon
<1>2. /\ NoOptions.masks = {} /\ NoOptions.auto = FALSE /\ NoOptions.profile = FALSE
  BY DEF NoOptions
<1>3. ASSUME NEW x, NEW o,
             x.window = o.window, x.setting = o.setting, x.masks = o.masks, x.auto = o.auto,
             NEW earlier \in OptionRecords, Kept(o, earlier, shown, target)
      PROVE  /\ x.window = target /\ x.setting = shown.setting
             /\ masks \subseteq x.masks
             /\ shown.auto => x.auto
  BY <1>3 DEF Kept
<1>4. PreparedOptions(line, stored) =
        IF explicit.failed \/ ~explicit.profile \/ stored = None THEN explicit ELSE whole
  BY Zenon DEF PreparedOptions, Merged
<1>5. /\ explicit \in OptionRecords
      /\ explicit.window = target /\ explicit.setting = shown.setting
      /\ explicit.masks = masks /\ explicit.auto = shown.auto
      /\ explicit.profile = shown.profile
  <2>1. /\ explicit \in OptionRecords /\ explicit.setting = Parsed(line).setting
        /\ explicit.masks = Parsed(line).masks /\ explicit.auto = Parsed(line).auto
        /\ explicit.profile = Parsed(line).profile /\ explicit.window = Parsed(line).window
    BY <1>1, ParsedWhole, Zenon
  <2> HIDE DEF explicit, line
  <2>2. (IF shown.auto THEN TRUE ELSE FALSE) = shown.auto
        /\ (IF shown.profile THEN TRUE ELSE FALSE) = shown.profile
    BY ShownFields
  <2>3. {} \cup masks = masks
    OBVIOUS
  <2> QED
    BY <1>1, <1>2, <2>1, <2>2, <2>3, Zenon DEF Kept
<1>6. ASSUME stored # None
      PROVE  /\ whole \in OptionRecords
             /\ whole.window = target /\ whole.setting = shown.setting
             /\ masks \subseteq whole.masks
             /\ shown.auto => whole.auto
  <2>1. stored \in Seq(Arguments)
    BY <1>6
  <2>2. /\ stored \o line \in Seq(Arguments)
        /\ Kept(Parsed(stored \o line), Parsed(stored), shown, target)
    BY <2>1, LaunchLineKept, Zenon
  <2>3. /\ whole \in OptionRecords /\ whole.setting = Parsed(stored \o line).setting
        /\ whole.masks = Parsed(stored \o line).masks /\ whole.auto = Parsed(stored \o line).auto
        /\ whole.window = Parsed(stored \o line).window
    BY <2>2, ParsedWhole, Zenon
  <2>4. Parsed(stored) \in OptionRecords
    BY <2>1, ParsedTyped, Zenon
  <2> HIDE DEF whole, line, masks
  <2> QED
    BY <1>3, <2>2, <2>3, <2>4, Zenon
<1> HIDE DEF explicit, whole, line
<1>7. masks \subseteq masks
  OBVIOUS
<1>8. explicit.profile => (~shown.profile => FALSE)
  BY <1>5, Zenon
<1> HIDE DEF masks
<1>9. /\ PreparedOptions(line, stored) \in OptionRecords
      /\ PreparedOptions(line, stored).window = target
      /\ PreparedOptions(line, stored).setting = shown.setting
      /\ masks \subseteq PreparedOptions(line, stored).masks
      /\ shown.auto => PreparedOptions(line, stored).auto
      /\ ~shown.profile => /\ PreparedOptions(line, stored).masks = masks
                           /\ PreparedOptions(line, stored).auto = shown.auto
  <2>1. CASE PreparedOptions(line, stored) = explicit
    BY <1>5, <1>7, <2>1, Zenon
  <2>2. CASE /\ PreparedOptions(line, stored) = whole /\ explicit.profile
             /\ stored # None
    BY <1>5, <1>6, <2>2, Zenon
  <2> QED
    BY <1>4, <2>1, <2>2, Zenon
<1> QED
  BY <1>9, Zenon DEF line, masks

------------------------------------------------------------------------------
\* The steps.
LEMMA TargetsAreValues == Targets \subseteq Values
<1>1. \A t \in Targets : t \in Values
  BY Zenon DEF Targets, Values
<1> QED
  BY <1>1

LEMMA NoChildTyped == NoChild \in ChildRecords /\ NoChild.state = "none"
<1>1. "none" \in States /\ <<>> \in Seq(Arguments) /\ None \in Targets
  BY DEF States, Targets
<1> QED
  BY <1>1, NoOptionsTyped DEF NoChild, ChildRecords

LEMMA ChildEnded ==
    LET x == [NoChild EXCEPT !.state = "ended"]
    IN  x \in ChildRecords /\ x.state = "ended"
<1>1. "ended" \in States
  BY DEF States
<1> QED
  BY <1>1, NoChildTyped DEF ChildRecords

\* Only the window changes, and it stays.
LEMMA WindowStays ==
    ASSUME IInv, Stays(ui', ui), UNCHANGED <<windows, child, signalled>>, StoreInv'
    PROVE  IInv'
<1>1. Held'
  BY Zenon DEF IInv, Held, Alive, Stays
<1>2. Asked' /\ RunsAsShown'
  BY Zenon DEF IInv, Asked, Alive, RunsAsShown
<1> QED
  BY <1>1, <1>2, Zenon DEF IInv, Stays

\* Neither the window nor the pipeline changes.
LEMMA OthersMove ==
    ASSUME IInv, UNCHANGED <<ui, child, signalled>>, windows' \subseteq Targets, StoreInv'
    PROVE  IInv'
<1>1. Held' /\ Asked' /\ RunsAsShown'
  BY Zenon DEF IInv, Held, Asked, Alive, RunsAsShown
<1> QED
  BY <1>1, Zenon DEF IInv

LEMMA SelectTargetStep ==
    ASSUME IInv, NEW t \in Windows, SelectTarget(t)
    PROVE  IInv'
<1>1. ui' = UpdateControlAvailability([ui EXCEPT !.target = t])
  BY Zenon DEF SelectTarget
<1>2. t \in Targets
  BY DEF Targets
<1>3. Stays(ui', ui)
  BY <1>1, <1>2, TargetEffect, Zenon DEF IInv
<1> QED
  BY <1>3, WindowStays, StoreKept, Zenon DEF SelectTarget, IInv

LEMMA ChangeSettingsStep ==
    ASSUME IInv, ChangeSettings
    PROVE  IInv'
<1>1. ui \in UiRecords /\ ui.shown \in ShownRecords
  BY UiFields, Zenon DEF IInv, UiSettled
<1>2. PICK shown \in ShownRecords : ui' = [ui EXCEPT !.shown = shown]
  <2>1. ASSUME NEW value \in Settings, ui' = [ui EXCEPT !.shown.setting = value]
        PROVE  \E shown \in ShownRecords : ui' = [ui EXCEPT !.shown = shown]
    <3>1. [ui.shown EXCEPT !.setting = value] \in ShownRecords
      BY <1>1 DEF ShownRecords
    <3>2. ui' = [ui EXCEPT !.shown = [ui.shown EXCEPT !.setting = value]]
      BY <1>1, <2>1
    <3> QED
      BY <3>1, <3>2, Zenon
  <2>2. ASSUME NEW text \in Masks, ui' = [ui EXCEPT !.shown.mask = text]
        PROVE  \E shown \in ShownRecords : ui' = [ui EXCEPT !.shown = shown]
    <3>1. [ui.shown EXCEPT !.mask = text] \in ShownRecords
      BY <1>1 DEF ShownRecords
    <3>2. ui' = [ui EXCEPT !.shown = [ui.shown EXCEPT !.mask = text]]
      BY <1>1, <2>2
    <3> QED
      BY <3>1, <3>2, Zenon
  <2>3. ASSUME ui' = [ui EXCEPT !.shown.auto = ~@]
        PROVE  \E shown \in ShownRecords : ui' = [ui EXCEPT !.shown = shown]
    <3>1. [ui.shown EXCEPT !.auto = ~@] \in ShownRecords
      BY <1>1 DEF ShownRecords
    <3>2. ui' = [ui EXCEPT !.shown = [ui.shown EXCEPT !.auto = ~@]]
      BY <1>1, <2>3
    <3> QED
      BY <3>1, <3>2, Zenon
  <2>4. ASSUME ui' = [ui EXCEPT !.shown.profile = ~@]
        PROVE  \E shown \in ShownRecords : ui' = [ui EXCEPT !.shown = shown]
    <3>1. [ui.shown EXCEPT !.profile = ~@] \in ShownRecords
      BY <1>1 DEF ShownRecords
    <3>2. ui' = [ui EXCEPT !.shown = [ui.shown EXCEPT !.profile = ~@]]
      BY <1>1, <2>4
    <3> QED
      BY <3>1, <3>2, Zenon
  <2> QED
    BY <2>1, <2>2, <2>3, <2>4, Zenon DEF ChangeSettings
<1>3. LET x == [ui EXCEPT !.shown = shown]
      IN  /\ x \in UiRecords /\ x.window = ui.window /\ x.target = ui.target
          /\ x.child_process = ui.child_process /\ x.test_process = ui.test_process
          /\ x.start = ui.start /\ x.stop = ui.stop /\ x.shown = shown
  BY <1>1, WithShown, Zenon
<1>4. /\ ui' \in UiRecords /\ ui'.window = ui.window /\ ui'.target = ui.target
      /\ ui'.child_process = ui.child_process /\ ui'.test_process = ui.test_process
      /\ ui'.start = ui.start /\ ui'.stop = ui.stop
  BY <1>2, <1>3, Zenon
<1>5. Stays(ui', ui)
  BY <1>4, Zenon DEF Stays, UiSettled, IInv
<1> QED
  BY <1>5, WindowStays, StoreKept, Zenon DEF ChangeSettings, IInv

LEMMA RefillStep ==
    ASSUME IInv, ui' \in PopulateTargets(ui), UNCHANGED <<store, windows, child, signalled>>
    PROVE  IInv'
<1>1. Stays(ui', ui)
  BY PopulateEffect, Zenon DEF IInv, UiSettled
<1> QED
  BY <1>1, WindowStays, StoreKept, Zenon DEF IInv

LEMMA SaveTargetStep ==
    ASSUME IInv, SaveTargetProfile
    PROVE  IInv'
<1>1. ui.shown \in ShownRecords
  BY UiFields, Zenon DEF IInv, UiSettled
<1>2. ProfileArgumentsFor(ui.shown) \in Lines
  BY <1>1 DEF Lines
<1>3. "launcher" \in Savers
  BY LauncherAssumption DEF LauncherAssumption
<1>4. StoreInv'
  BY <1>2, <1>3, LoadStep, Zenon DEF SaveTargetProfile, IInv
<1> QED
  BY <1>4, OthersMove, Zenon DEF SaveTargetProfile, IInv

LEMMA LaunchStep ==
    ASSUME IInv, Idle, ui.start, LaunchPipeline
    PROVE  IInv'
<1> DEFINE a == LaunchArguments(ui.shown, ui.target)
           y == [ui EXCEPT !.child_process = TRUE, !.stop_event = TRUE]
<1>1. /\ ui \in UiRecords /\ ui.shown \in ShownRecords /\ ui.target \in Targets
      /\ ui.window = "open" /\ ui.shown.mask # Unreadable /\ ~ui.test_process
  <2>1. ui.window = "open"
    BY Zenon DEF Idle
  <2>2. ui.shown.mask # Unreadable
    BY Zenon DEF LaunchPipeline
  <2> QED
    BY <2>1, <2>2, UiFields, Zenon DEF IInv, UiSettled
<1>2. a \in Seq(Arguments)
  <2>1. <<>> \in Seq(Arguments) /\ ui.target \in Values
    BY <1>1, TargetsAreValues
  <2> QED
    BY <1>1, <2>1, LaunchLineKept, Zenon
<1>3. /\ child' \in ChildRecords /\ child'.state = "starting" /\ child'.target = ui.target
      /\ child'.arguments = a /\ child'.shown = ui.shown
  <2>1. child' = [NoChild EXCEPT !.state = "starting", !.target = ui.target,
                                 !.arguments = a, !.shown = ui.shown]
    BY Zenon DEF LaunchPipeline
  <2>2. "starting" \in States
    BY DEF States
  <2> HIDE DEF a
  <2> QED
    BY <1>1, <1>2, <2>1, <2>2, NoChildTyped DEF ChildRecords
<1>4. /\ y \in UiRecords /\ y.window = ui.window /\ y.child_process = TRUE
      /\ y.test_process = ui.test_process
  <2>1. TRUE \in BOOLEAN
    OBVIOUS
  <2> QED
    BY <1>1, <2>1, WithChild, Zenon
<1>5. ui' = UpdateControlAvailability(y)
  BY Zenon DEF LaunchPipeline
<1> HIDE DEF y
<1>6. "open" # "destroyed"
  OBVIOUS
<1>7. UiSettled(ui') /\ ui'.child_process = TRUE /\ ui'.stop = TRUE
  <2>1. ~(y.child_process /\ y.test_process) /\ (y.window = "destroyed" => ~y.child_process)
    BY <1>1, <1>4, <1>6, Zenon
  <2>2. LET x == UpdateControlAvailability(y)
        IN  /\ UiSettled(x) /\ x.child_process = y.child_process
            /\ x.window = y.window /\ x.stop = y.child_process /\ x.shown = y.shown
            /\ x.test_process = y.test_process
    BY <1>4, <2>1, UpdateEffect, Zenon
  <2> QED
    BY <1>4, <1>5, <2>2, Zenon
<1>8. /\ UNCHANGED <<store, windows>> /\ signalled' = FALSE
  BY Zenon DEF LaunchPipeline
<1>9. Held'
  BY <1>7, Zenon DEF Held
<1>10. Asked'
  BY <1>1, <1>3, Zenon DEF Asked
<1>11. RunsAsShown'
  BY <1>3 DEF RunsAsShown
<1>12. signalled' \in BOOLEAN
  BY <1>8
<1> QED
  BY <1>3, <1>7, <1>8, <1>9, <1>10, <1>11, <1>12, StoreKept, Zenon DEF IInv

LEMMA BeginStep ==
    ASSUME IInv, BeginGeneration
    PROVE  IInv'
<1>1. CASE TargetLost
  BY <1>1, RefillStep, Zenon DEF TargetLost
<1>2. CASE LaunchPipeline
  BY <1>2, LaunchStep, Zenon DEF BeginGeneration
<1> QED
  BY <1>1, <1>2, Zenon DEF BeginGeneration

LEMMA TestStep ==
    ASSUME IInv, LaunchTestAnimation
    PROVE  IInv'
<1> DEFINE y == [ui EXCEPT !.test_process = TRUE]
<1>1. /\ y \in UiRecords /\ y.window = ui.window /\ y.child_process = ui.child_process
  <2>1. TRUE \in BOOLEAN
    OBVIOUS
  <2> QED
    BY <2>1, WithTest, Zenon DEF IInv, UiSettled
<1>2. ui' = UpdateControlAvailability(y) /\ ~ui.child_process
  BY Zenon DEF LaunchTestAnimation
<1> HIDE DEF y
<1>3. ~(y.child_process /\ y.test_process) /\ (y.window = "destroyed" => ~y.child_process)
  BY <1>1, <1>2, Zenon
<1>4. LET x == UpdateControlAvailability(y)
      IN  /\ UiSettled(x) /\ x.child_process = y.child_process
          /\ x.window = y.window /\ x.stop = y.child_process /\ x.shown = y.shown
          /\ x.test_process = y.test_process
  BY <1>1, <1>3, UpdateEffect, Zenon
<1>5. Stays(ui', ui)
  BY <1>1, <1>2, <1>4, Zenon DEF Stays
<1> QED
  BY <1>5, WindowStays, StoreKept, Zenon DEF LaunchTestAnimation, IInv

\* A stop that is requested, of a window with the closing flag set or not.
LEMMA RequestStep ==
    ASSUME IInv, NEW u, UiSettled(u), u.child_process = ui.child_process,
           u.stop = ui.stop, RequestStop(u),
           UNCHANGED <<store, windows, child>>
    PROVE  IInv'
<1>1. CASE UNCHANGED signalled /\ ui' = u
  <2>1. Held'
    BY <1>1, Zenon DEF IInv, Held, Alive
  <2>2. Asked' /\ RunsAsShown'
    BY <1>1, Zenon DEF IInv, Asked, Alive, RunsAsShown
  <2> QED
    BY <1>1, <2>1, <2>2, StoreKept, Zenon DEF IInv
<1>2. CASE signalled' = TRUE /\ ui' = [u EXCEPT !.stop = FALSE]
  <2>1. u \in UiRecords /\ FALSE \in BOOLEAN
    BY Zenon DEF UiSettled
  <2>2. LET x == [u EXCEPT !.stop = FALSE]
        IN  /\ x \in UiRecords /\ x.window = u.window /\ x.target = u.target
            /\ x.child_process = u.child_process /\ x.test_process = u.test_process
            /\ x.start = u.start /\ x.stop = FALSE /\ x.shown = u.shown
    BY <2>1, WithStop, Zenon
  <2>3. /\ ui' \in UiRecords /\ ui'.window = u.window /\ ui'.target = u.target
        /\ ui'.child_process = u.child_process /\ ui'.test_process = u.test_process
        /\ ui'.start = u.start
    BY <1>2, <2>2, Zenon
  <2>4. UiSettled(ui')
    BY <2>3, Zenon DEF UiSettled
  <2>5. Held'
    BY <1>2, <2>3, Zenon DEF IInv, Held, Alive
  <2>6. Asked' /\ RunsAsShown'
    BY Zenon DEF IInv, Asked, Alive, RunsAsShown
  <2>7. signalled' \in BOOLEAN
    BY <1>2
  <2> QED
    BY <2>4, <2>5, <2>6, <2>7, StoreKept, Zenon DEF IInv
<1> QED
  BY <1>1, <1>2, Zenon DEF RequestStop

LEMMA StopStep ==
    ASSUME IInv, Stop
    PROVE  IInv'
BY RequestStep, Zenon DEF IInv, Stop

\* A window that goes has no pipeline.
LEMMA DestroyStep ==
    ASSUME IInv, NEW u \in UiRecords, ui' = Destroyed(u), ~Alive,
           UNCHANGED <<store, windows, child, signalled>>
    PROVE  IInv'
<1>1. UiSettled(ui') /\ ui'.child_process = FALSE
  BY DestroyedEffect, Zenon
<1>2. Held'
  BY <1>1, Zenon DEF Held, Alive
<1>3. Asked' /\ RunsAsShown'
  BY Zenon DEF IInv, Asked, Alive, RunsAsShown
<1> QED
  BY <1>1, <1>2, <1>3, StoreKept, Zenon DEF IInv

LEMMA CloseStep ==
    ASSUME IInv, Close
    PROVE  IInv'
<1>1. ui \in UiRecords
  BY Zenon DEF IInv, UiSettled
<1>2. CASE ui.child_process
  <2> DEFINE u == [ui EXCEPT !.closing = TRUE]
  <2>1. TRUE \in BOOLEAN
    OBVIOUS
  <2>2. /\ u \in UiRecords /\ u.window = ui.window /\ u.target = ui.target
        /\ u.child_process = ui.child_process /\ u.test_process = ui.test_process
        /\ u.start = ui.start /\ u.stop = ui.stop
    BY <1>1, <2>1, WithClosing, Zenon
  <2>3. RequestStop(u) /\ UNCHANGED <<store, windows, child>>
    BY <1>2, Zenon DEF Close
  <2> HIDE DEF u
  <2>4. UiSettled(u)
    BY <2>2, Zenon DEF UiSettled, IInv
  <2> QED
    BY <2>2, <2>3, <2>4, RequestStep, Zenon
<1>3. CASE ~ui.child_process
  <2>1. ui' = Destroyed(ui) /\ UNCHANGED <<store, windows, child, signalled>>
    BY <1>3, Zenon DEF Close
  <2>2. ~Alive
    BY <1>3, Zenon DEF IInv, Held
  <2> QED
    BY <1>1, <2>1, <2>2, DestroyStep, Zenon
<1> QED
  BY <1>2, <1>3, Zenon

LEMMA PolledTestStays ==
    ASSUME IInv, NEW u \in PolledTest(ui)
    PROVE  Stays(u, ui)
<1>1. /\ UiSettled(ui) /\ ui \in UiRecords /\ windows \subseteq Targets
      /\ ~(ui.child_process /\ ui.test_process)
      /\ ui.window = "destroyed" => ~ui.child_process
  BY Zenon DEF IInv, UiSettled
<1>2. Stays(ui, ui)
  BY <1>1, Zenon DEF Stays
<1> DEFINE f == FinishPendingTestLaunch(ui)
<1>3. Stays(f, ui) /\ f.stop = ui.child_process
  BY <1>1, FinishEffect, Zenon
<1> HIDE DEF f
<1>4. ASSUME NEW v \in PopulateTargets(f)
      PROVE  Stays(v, ui)
  <2>1. /\ f \in UiRecords /\ ~(f.child_process /\ f.test_process)
        /\ (f.window = "destroyed" => ~f.child_process)
    BY <1>3, Zenon DEF Stays, UiSettled
  <2>2. Stays(v, f) /\ v.stop = f.child_process
    BY <1>1, <1>4, <2>1, PopulateEffect, Zenon
  <2> QED
    BY <1>3, <2>2, Zenon DEF Stays
<1>5. ASSUME NEW v \in PopulateTargets(ui)
      PROVE  Stays(SelectTargetInCombo(FinishPendingTestLaunch(v), TestWindow), ui)
  <2> DEFINE g == FinishPendingTestLaunch(v)
  <2>1. Stays(v, ui)
    BY <1>1, <1>5, PopulateEffect, Zenon
  <2>2. v \in UiRecords /\ (v.window = "destroyed" => ~v.child_process)
    BY <2>1, Zenon DEF Stays, UiSettled
  <2>3. Stays(g, v) /\ g.stop = v.child_process
    BY <2>2, FinishEffect, Zenon
  <2> HIDE DEF g
  <2>4. TestWindow \in Targets
    BY DEF Targets
  <2>5. Stays(UpdateControlAvailability([g EXCEPT !.target = TestWindow]), g)
    BY <2>3, <2>4, TargetEffect, Zenon DEF Stays
  <2>6. Stays(SelectTargetInCombo(g, TestWindow), g) \/ SelectTargetInCombo(g, TestWindow) = g
    BY <2>5, Zenon DEF SelectTargetInCombo
  <2>7. Stays(SelectTargetInCombo(g, TestWindow), v)
    <3>1. CASE SelectTargetInCombo(g, TestWindow) = g
      BY <2>3, <3>1, Zenon
    <3>2. CASE Stays(SelectTargetInCombo(g, TestWindow), g)
      BY <2>3, <3>2, Zenon DEF Stays
    <3> QED
      BY <2>6, <3>1, <3>2, Zenon
  <2>8. Stays(SelectTargetInCombo(g, TestWindow), ui)
    BY <2>1, <2>7, Zenon DEF Stays
  <2> QED
    BY <2>8, Zenon DEF g
<1>6. \/ u = ui \/ u = f \/ u \in PopulateTargets(f)
      \/ \E v \in PopulateTargets(ui) :
            u = SelectTargetInCombo(FinishPendingTestLaunch(v), TestWindow)
  <2>1. PolledTest(ui) \in
          { {ui}, {f}, {ui} \cup PopulateTargets(f),
            { SelectTargetInCombo(FinishPendingTestLaunch(v), TestWindow) :
                v \in PopulateTargets(ui) } }
    BY DEF PolledTest, f
  <2> QED
    BY <2>1
<1> QED
  BY <1>2, <1>3, <1>4, <1>5, <1>6, Zenon

LEMMA TimerStep ==
    ASSUME IInv, Timer
    PROVE  IInv'
<1>1. PICK u \in PolledTest(ui) : ui' \in PolledChild(u)
  BY Zenon DEF Timer
<1>2. UNCHANGED <<store, windows, child, signalled>>
  BY Zenon DEF Timer
<1>3. Stays(u, ui) /\ u \in UiRecords
  BY PolledTestStays, Zenon DEF Stays, UiSettled
<1> DEFINE c == CloseChildHandles(u)
<1>4. \/ ui' = u
      \/ child.state = "ended" /\ ui' = Destroyed(c)
      \/ child.state = "ended" /\ ui' \in PopulateTargets(c)
  BY <1>1 DEF PolledChild
<1>5. c \in UiRecords /\ c.child_process = FALSE
  BY <1>3, CloseEffect, Zenon
<1> HIDE DEF c
<1>6. CASE ui' = u
  BY <1>2, <1>3, <1>6, WindowStays, StoreKept, Zenon DEF IInv
<1>7. CASE child.state = "ended"
  <2>1. ~Alive
    BY <1>7 DEF Alive
  <2>2. CASE ui' = Destroyed(c)
    BY <1>2, <1>5, <2>1, <2>2, DestroyStep, Zenon
  <2>3. CASE ui' \in PopulateTargets(c)
    <3>1. Stays(ui', c)
      BY <1>5, <2>3, PopulateEffect, Zenon DEF IInv
    <3>2. UiSettled(ui') /\ ui'.child_process = FALSE
      BY <1>5, <3>1, Zenon DEF Stays
    <3>3. Held'
      BY <1>2, <2>1, <3>2, Zenon DEF Held, Alive
    <3>4. Asked' /\ RunsAsShown'
      BY <1>2, Zenon DEF IInv, Asked, Alive, RunsAsShown
    <3> QED
      BY <1>2, <3>2, <3>3, <3>4, StoreKept, Zenon DEF IInv
  <2> QED
    BY <1>4, <1>6, <2>2, <2>3, Zenon
<1> QED
  BY <1>4, <1>6, <1>7, Zenon

LEMMA SaversStep ==
    ASSUME IInv,
           \/ ContinueSave
           \/ \E s \in Terminals :
                 \/ \E executable \in Executables, arguments \in CliArguments :
                       SaveFromCommandLine(s, executable, arguments)
                 \/ ContinueCliSave(s)
    PROVE  IInv'
<1>1. "launcher" \in Savers /\ Terminals \subseteq Savers
  BY LauncherAssumption DEF LauncherAssumption, Terminals
<1>2. CASE ContinueSave
  BY <1>1, <1>2, SaveStep, OthersMove, Zenon DEF ContinueSave, IInv
<1>3. ASSUME NEW s \in Terminals, NEW executable \in Executables,
             NEW arguments \in CliArguments,
             SaveFromCommandLine(s, executable, arguments)
      PROVE  IInv'
  <2>1. arguments \in Lines
    BY DEF Lines
  <2> QED
    BY <1>1, <1>3, <2>1, LoadStep, OthersMove, Zenon DEF SaveFromCommandLine, IInv
<1>4. ASSUME NEW s \in Terminals, ContinueCliSave(s)
      PROVE  IInv'
  BY <1>1, <1>4, SaveStep, KilledStep, OthersMove, Zenon DEF ContinueCliSave, IInv
<1> QED
  BY <1>2, <1>3, <1>4, Zenon

\* A pipeline that has ended is none of the window's concern.
LEMMA EndedStep ==
    ASSUME IInv, child' = [NoChild EXCEPT !.state = "ended"],
           UNCHANGED <<store, ui, windows, signalled>>
    PROVE  IInv'
<1>1. child' \in ChildRecords /\ child'.state = "ended"
  BY ChildEnded, Zenon
<1>2. ~(Alive') /\ child'.state # "running"
  BY <1>1 DEF Alive
<1>3. Held'
  BY <1>2, Zenon DEF IInv, Held
<1>4. Asked' /\ RunsAsShown'
  BY <1>2, Zenon DEF Asked, RunsAsShown
<1> QED
  BY <1>1, <1>3, <1>4, StoreKept, Zenon DEF IInv

LEMMA StartsStep ==
    ASSUME IInv, ChildStarts
    PROVE  IInv'
<1> DEFINE stored == StoredFor(ExecutableOf[child.target])
           options == PreparedOptions(child.arguments, stored)
           masks == IF child.shown.mask = None THEN {} ELSE {child.shown.mask}
<1>1. UNCHANGED <<store, ui, windows, signalled>> /\ child.state = "starting"
  BY Zenon DEF ChildStarts
<1>2. \/ child' = [NoChild EXCEPT !.state = "ended"]
      \/ child' = [child EXCEPT !.state = "running", !.options = options]
  BY Zenon DEF ChildStarts
<1>3. CASE child' = [child EXCEPT !.state = "running", !.options = options]
  <2>1. child \in ChildRecords /\ child.target \in Values
    <3>1. child \in ChildRecords
      BY Zenon DEF IInv
    <3>2. child.target \in Targets
      BY <3>1 DEF ChildRecords
    <3> QED
      BY <3>1, <3>2, TargetsAreValues
  <2>2. Alive
    BY <1>1 DEF Alive
  <2>3. /\ child.shown \in ShownRecords /\ child.shown.mask # Unreadable
        /\ child.arguments = LaunchArguments(child.shown, child.target)
    BY <2>2, Zenon DEF IInv, Asked
  <2>4. stored \in Seq(Arguments) \cup {None}
    BY StoredTyped, Zenon DEF IInv
  <2> HIDE DEF stored
  <2>5. LET x == PreparedOptions(LaunchArguments(child.shown, child.target), stored)
            m == IF child.shown.mask = None THEN {} ELSE {child.shown.mask}
        IN  /\ x \in OptionRecords /\ x.window = child.target /\ x.setting = child.shown.setting
            /\ m \subseteq x.masks
            /\ child.shown.auto => x.auto
            /\ ~child.shown.profile => x.masks = m /\ x.auto = child.shown.auto
    BY <2>1, <2>3, <2>4, PreparedAsAsked, Zenon
  <2>6. /\ options \in OptionRecords /\ options.window = child.target
        /\ options.setting = child.shown.setting /\ masks \subseteq options.masks
        /\ child.shown.auto => options.auto
        /\ ~child.shown.profile => options.masks = masks /\ options.auto = child.shown.auto
    BY <2>3, <2>5, Zenon
  <2> HIDE DEF options
  <2>7. /\ child' \in ChildRecords /\ child'.state = "running" /\ child'.options = options
        /\ child'.target = child.target /\ child'.shown = child.shown
        /\ child'.arguments = child.arguments
    <3>1. "running" \in States
      BY DEF States
    <3> QED
      BY <1>3, <2>1, <2>6, <3>1 DEF ChildRecords
  <2>8. Held'
    BY <1>1, <2>2, Zenon DEF IInv, Held
  <2>9. Asked'
    BY <2>3, <2>7, Zenon DEF Asked
  <2>10. RunsAsShown'
    <3> DEFINE m == IF child'.shown.mask = None THEN {} ELSE {child'.shown.mask}
    <3>1. m = masks
      BY <2>7, Zenon
    <3> HIDE DEF m, masks
    <3>2. /\ child'.options.window = child'.target
          /\ child'.options.setting = child'.shown.setting
          /\ m \subseteq child'.options.masks
          /\ child'.shown.auto => child'.options.auto
          /\ ~child'.shown.profile => /\ child'.options.masks = m
                                      /\ child'.options.auto = child'.shown.auto
      BY <2>6, <2>7, <3>1, Zenon
    <3> QED
      BY <3>2, Zenon DEF RunsAsShown, m
  <2> QED
    BY <1>1, <2>7, <2>8, <2>9, <2>10, StoreKept, Zenon DEF IInv
<1> QED
  BY <1>1, <1>2, <1>3, EndedStep, Zenon

LEMMA ProcessesStep ==
    ASSUME IInv,
           \/ ChildStarts \/ ChildStops \/ ChildEnds \/ AnimationChanges
           \/ \E w \in Windows : WindowChanges(w)
    PROVE  IInv'
<1>1. CASE ChildStops \/ ChildEnds
  BY <1>1, EndedStep, Zenon DEF ChildStops, ChildEnds
<1>2. CASE AnimationChanges
  <2>1. windows' \subseteq Targets
    BY <1>2 DEF AnimationChanges, IInv, Targets
  <2> QED
    BY <1>2, <2>1, OthersMove, StoreKept, Zenon DEF AnimationChanges, IInv
<1>3. ASSUME NEW w \in Windows, WindowChanges(w)
      PROVE  IInv'
  <2>1. windows' \subseteq Targets
    BY <1>3 DEF WindowChanges, IInv, Targets
  <2> QED
    BY <1>3, <2>1, OthersMove, StoreKept, Zenon DEF WindowChanges, IInv
<1> QED
  BY <1>1, <1>2, <1>3, StartsStep, Zenon

LEMMA InvariantStep == IInv /\ [Next]_vars => IInv'
<1> SUFFICES ASSUME IInv, [Next]_vars PROVE IInv'
  OBVIOUS
<1>1. CASE UNCHANGED vars
  <2>1. UNCHANGED <<store, ui, windows, child, signalled>>
    BY <1>1, Zenon DEF vars
  <2> QED
    BY <2>1, OthersMove, StoreKept, Zenon DEF IInv
<1>2. CASE Next
  <2>1. ASSUME NEW t \in Windows, SelectTarget(t)
        PROVE  IInv'
    BY <2>1, SelectTargetStep, Zenon
  <2>2. CASE Refresh
    BY <2>2, RefillStep, Zenon DEF Refresh
  <2> QED
    BY <1>2, <2>1, <2>2, ChangeSettingsStep, SaveTargetStep, BeginStep, TestStep, StopStep,
       CloseStep, TimerStep, SaversStep, ProcessesStep, Zenon DEF Next
<1> QED
  BY <1>1, <1>2

LEMMA NewLauncherTyped ==
    /\ NewLauncher \in UiRecords
    /\ NewLauncher.child_process = FALSE /\ NewLauncher.test_process = FALSE
<1>1. /\ None \in Targets
      /\ [setting |-> DefaultSetting, mask |-> None, auto |-> FALSE, profile |-> FALSE]
             \in ShownRecords
  BY DEF Targets, ShownRecords
<1> QED
  BY <1>1 DEF NewLauncher, UiRecords

LEMMA InvariantInitially == Init => IInv
<1> SUFFICES ASSUME Init PROVE IInv
  OBVIOUS
<1>1. windows \subseteq Targets
  BY DEF Init, Targets
<1>2. Stays(ui, NewLauncher)
  BY <1>1, NewLauncherTyped, PopulateEffect, Zenon DEF Init
<1>3. UiSettled(ui) /\ ui.child_process = FALSE
  BY <1>2, NewLauncherTyped, Zenon DEF Stays
<1>4. child \in ChildRecords /\ ~Alive /\ child.state # "running"
  BY NoChildTyped DEF Init, Alive
<1>5. Held /\ Asked /\ RunsAsShown
  BY <1>3, <1>4, Zenon DEF Held, Asked, RunsAsShown
<1>6. signalled \in BOOLEAN /\ StoreInv
  BY StoreInitially DEF Init
<1> QED
  BY <1>1, <1>3, <1>4, <1>5, <1>6, Zenon DEF IInv

\* The files, the window and the pipeline process always agree as IInv says:
\* the launcher holds the handles of every living pipeline, which was started
\* from what was shown (gui_main.cpp).
THEOREM LauncherInvariantHolds == Spec => []IInv
BY InvariantInitially, InvariantStep, PTL DEF Spec

\* Start is never offered beside a pipeline or a test that is coming up, and Stop
\* is there while a pipeline runs that was not told to stop (gui_main.cpp,
\* UpdateControlAvailability).
THEOREM ControlsAlwaysAgree == Spec => []ControlsAgree
<1>1. IInv => ControlsAgree
  BY Zenon DEF IInv, UiSettled, Held, ControlsAgree
<1> QED
  BY <1>1, LauncherInvariantHolds, PTL

\* No stored profile takes anything back that the window showed when Start was
\* pressed, and without a profile nothing is added (main.cpp, 1890).
THEOREM PipelineRunsAsShown == Spec => []RunsAsShown
<1>1. IInv => RunsAsShown
  BY Zenon DEF IInv
<1> QED
  BY <1>1, LauncherInvariantHolds, PTL

\* The window is never destroyed beside a pipeline that lives (gui_main.cpp,
\* WM_CLOSE and PollChild).
THEOREM ClosedWindowLeavesNoChild == Spec => []CloseLeavesNoChild
<1>1. IInv => CloseLeavesNoChild
  <2> SUFFICES ASSUME IInv, ui.window = "destroyed" PROVE child.state \in {"none", "ended"}
    BY DEF CloseLeavesNoChild
  <2>1. ~Alive
    BY Zenon DEF IInv, UiSettled, Held
  <2>2. child.state \in States
    BY DEF IInv, ChildRecords
  <2> QED
    BY <2>1, <2>2 DEF Alive, States
<1> QED
  BY <1>1, LauncherInvariantHolds, PTL

\* With any number of terminals that save, each killed wherever it may be, and a
\* launcher that saves among them and is not killed, profiles.txt is torn only if
\* two were at the temporary file at once or a failed flush went unseen
\* (app_profile.cpp, SaveProfiles).
THEOREM InterruptionsKeepFile == Spec => []InterruptedSaveKeepsFile
<1>1. IInv => InterruptedSaveKeepsFile
  BY Zenon DEF IInv, StoreInv
<1> QED
  BY <1>1, LauncherInvariantHolds, PTL
=============================================================================
