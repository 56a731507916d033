---------------------------- MODULE Matching_proofs ----------------------------
(***************************************************************************)
(* The matching engine for all students and coaches: shared time is        *)
(* counted to the minute, and no card says what is not so.                 *)
(***************************************************************************)
EXTENDS Matching, Sums

-------------------------------------------------------------------------------
(* The extremes of a finite set *)

LEMMA LargestExists ==
  ASSUME NEW S, IsFiniteSet(S), S # {}, NEW k, \A x \in S : k[x] \in Int
  PROVE  \E x \in S : \A y \in S : k[y] <= k[x]
  <1> DEFINE F == {T \in SUBSET S : T # {} => \E x \in T : \A y \in T : k[y] <= k[x]}
  <1>1. {} \in F
    OBVIOUS
  <1>2. ASSUME NEW T \in SUBSET S, NEW z \in S \ T, T \in F PROVE T \cup {z} \in F
    <2>1. CASE T = {}
      BY <2>1
    <2>2. CASE T # {}
      <3>1. PICK x \in T : \A y \in T : k[y] <= k[x]
        BY <1>2, <2>2
      <3>2. CASE k[z] <= k[x]
        BY <3>1, <3>2
      <3>3. CASE ~(k[z] <= k[x])
        BY <3>1, <3>3
      <3> QED BY <3>2, <3>3
    <2> QED BY <2>1, <2>2
  <1>3. S \in F
    <2> HIDE DEF F
    <2> QED BY <1>1, <1>2, SetInduction
  <1> QED BY <1>3

LEMMA MaxOfTwo ==
  ASSUME NEW i \in Int, NEW j \in Int
  PROVE  Max({i, j}) = IF i >= j THEN i ELSE j
  BY DEF Max

LEMMA MinOfTwo ==
  ASSUME NEW i \in Int, NEW j \in Int
  PROVE  Min({i, j}) = IF i <= j THEN i ELSE j
  BY DEF Min

LEMMA MinOfMany ==
  ASSUME NEW S, IsFiniteSet(S), S # {}, S \subseteq Int
  PROVE  Min(S) \in S
  <1> DEFINE k == [x \in S |-> -x]
  <1>1. PICK x \in S : \A y \in S : k[y] <= k[x]
    <2>1. \A y \in S : k[y] \in Int
      OBVIOUS
    <2> HIDE DEF k
    <2> QED BY <2>1, LargestExists
  <1>2. \A y \in S : x <= y
    BY <1>1
  <1> QED BY <1>2 DEF Min

-------------------------------------------------------------------------------
(* Windows *)

Windows == [weekday : Int, startMinute : Int, endMinute : Int]

\* Minute m of day d lies in one of the windows.
Covers(windows, d, m) == \E w \in windows : w.weekday = d /\ w.startMinute <= m /\ m < w.endMinute

\* Two windows have no minute in common.
Clear(v, w) == v.weekday # w.weekday \/ v.endMinute <= w.startMinute \/ w.endMinute <= v.startMinute
Apart(windows) == \A v, w \in windows : v # w => Clear(v, w)

LEMMA WindowIs ==
  ASSUME NEW w \in Windows
  PROVE  /\ w.weekday \in Int /\ w.startMinute \in Int /\ w.endMinute \in Int
         /\ w = [weekday |-> w.weekday, startMinute |-> w.startMinute, endMinute |-> w.endMinute]
  BY DEF Windows

LEMMA LatestIsOne ==
  ASSUME NEW T, T \subseteq Windows, IsFiniteSet(T), T # {}
  PROVE  latest(T) \in T /\ \A v \in T : v.startMinute <= latest(T).startMinute
  <1> DEFINE k == [w \in T |-> w.startMinute]
  <1>1. \A w \in T : k[w] \in Int /\ k[w] = w.startMinute
    BY DEF Windows
  <1> HIDE DEF k
  <1>2. PICK w \in T : \A v \in T : k[v] <= k[w]
    BY <1>1, LargestExists
  <1>3. \A v \in T : v.startMinute <= w.startMinute
    BY <1>1, <1>2
  <1> QED BY <1>3 DEF latest

LEMMA EarliestIsOne ==
  ASSUME NEW T, T \subseteq Windows, IsFiniteSet(T), T # {}
  PROVE  earliest(T) \in T /\ \A v \in T : earliest(T).startMinute <= v.startMinute
  <1> DEFINE k == [w \in T |-> -w.startMinute]
  <1>1. \A w \in T : w.startMinute \in Int /\ k[w] \in Int /\ k[w] = -w.startMinute
    BY DEF Windows
  <1> HIDE DEF k
  <1>2. PICK w \in T : \A v \in T : k[v] <= k[w]
    BY <1>1, LargestExists
  <1>3. \A v \in T : w.startMinute <= v.startMinute
    BY <1>1, <1>2
  <1> QED BY <1>3 DEF earliest

-------------------------------------------------------------------------------
(* Merging a day's windows *)

\* What the windows P have been merged to: what is out lies before the current one and apart from the rest.
MergedTo(P, a) ==
  /\ a = [out |-> a.out, current |-> a.current]
  /\ a.out \cup {a.current} \subseteq Windows /\ IsFiniteSet(a.out)
  /\ \A w \in a.out \cup {a.current} :
       isValidWindow(w) /\ \E v \in P : v.weekday = w.weekday /\ v.startMinute = w.startMinute
  /\ \A w \in a.out : w.endMinute < a.current.startMinute
  /\ Apart(a.out)
  /\ \A d, m \in Int : Covers(a.out \cup {a.current}, d, m) <=> Covers(P, d, m)

\* The same for the two parts of what was merged.
MergedInto(P, out, c) ==
  /\ out \cup {c} \subseteq Windows /\ IsFiniteSet(out)
  /\ \A w \in out \cup {c} : isValidWindow(w) /\ \E v \in P : v.weekday = w.weekday /\ v.startMinute = w.startMinute
  /\ \A w \in out : w.endMinute < c.startMinute
  /\ Apart(out)
  /\ \A d, m \in Int : Covers(out \cup {c}, d, m) <=> Covers(P, d, m)

LEMMA MergedParts ==
  ASSUME NEW P, NEW out, NEW c
  PROVE  MergedTo(P, [out |-> out, current |-> c]) <=> MergedInto(P, out, c)
  <1> DEFINE a == [out |-> out, current |-> c]
  <1>1. a.out = out /\ a.current = c /\ a = [out |-> a.out, current |-> a.current]
    OBVIOUS
  <1> HIDE DEF a
  <1>2. MergedTo(P, a) <=> MergedInto(P, out, c)
    BY <1>1 DEF MergedTo, MergedInto
  <1> QED BY <1>2 DEF a

LEMMA MergeStep ==
  ASSUME NEW P, P \subseteq Windows, NEW x \in Windows, isValidWindow(x), NEW a, MergedTo(P, a),
         \A v \in P : v.weekday = x.weekday /\ v.startMinute <= x.startMinute
  PROVE  MergedTo(P \cup {x}, merge(x, a))
  <1>0. PICK out, c : a = [out |-> out, current |-> c]
    BY DEF MergedTo
  <1>a. MergedInto(P, out, c)
    BY <1>0, MergedParts
  <1>1. a = [out |-> out, current |-> c] /\ out \subseteq Windows /\ c \in Windows /\ IsFiniteSet(out)
    BY <1>0, <1>a DEF MergedInto
  <1>2. /\ \A w \in out \cup {c} : /\ isValidWindow(w)
                                  /\ \E v \in P : v.weekday = w.weekday /\ v.startMinute = w.startMinute
        /\ \A w \in out : w.endMinute < c.startMinute
        /\ Apart(out)
        /\ \A d, m \in Int : Covers(out \cup {c}, d, m) <=> Covers(P, d, m)
    BY <1>a DEF MergedInto
  <1>3. c.weekday = x.weekday /\ c.startMinute <= x.startMinute
    BY <1>2
  <1>4. /\ c.startMinute \in Int /\ c.endMinute \in Int /\ x.startMinute \in Int /\ x.endMinute \in Int
        /\ c.startMinute < c.endMinute /\ x.startMinute < x.endMinute
    <2>1. isValidWindow(c)
      BY <1>2
    <2> QED BY <1>1, <2>1, WindowIs DEF isValidWindow
  <1>5. \A w \in out : w.weekday = x.weekday /\ w.endMinute \in Int /\ w.startMinute \in Int
    BY <1>1, <1>2, WindowIs
  <1>6. CASE x.startMinute <= c.endMinute
    <2> DEFINE e == IF c.endMinute >= x.endMinute THEN c.endMinute ELSE x.endMinute
               y == [weekday |-> c.weekday, startMinute |-> c.startMinute, endMinute |-> e]
    <2>1. merge(x, a) = [out |-> out, current |-> y]
      <3>1. merge(x, a) = [a EXCEPT !.current.endMinute = Max({c.endMinute, x.endMinute})]
        BY <1>1, <1>6 DEF merge
      <3>2. Max({c.endMinute, x.endMinute}) = e
        BY <1>4, MaxOfTwo
      <3>3. [c EXCEPT !.endMinute = e] = y
        <4>1. c = [weekday |-> c.weekday, startMinute |-> c.startMinute, endMinute |-> c.endMinute]
          BY <1>1, WindowIs
        <4> HIDE DEF e
        <4> QED BY <4>1
      <3> QED BY <1>1, <3>1, <3>2, <3>3
    <2>2. e \in Int /\ e >= c.endMinute /\ e >= x.endMinute /\ (e = c.endMinute \/ e = x.endMinute)
      BY <1>4
    <2>3. y \in Windows /\ isValidWindow(y)
      <3>1. isValidWindow(c) /\ isValidWindow(x) /\ c.weekday \in Int
        BY <1>2, WindowIs
      <3> HIDE DEF e
      <3> QED BY <1>4, <2>2, <3>1 DEF isValidWindow, Windows, MINUTES_PER_DAY
    <2> HIDE DEF e
    <2>4. \A d, m \in Int : Covers(out \cup {y}, d, m) <=> Covers(P \cup {x}, d, m)
      <3> SUFFICES ASSUME NEW d \in Int, NEW m \in Int
                   PROVE  Covers(out \cup {y}, d, m) <=> Covers(P \cup {x}, d, m)
        OBVIOUS
      <3>1. Covers({y}, d, m) <=> Covers({c}, d, m) \/ Covers({x}, d, m)
        BY <1>3, <1>4, <1>6, <2>2 DEF Covers
      <3>2. /\ Covers(out \cup {y}, d, m) <=> Covers(out, d, m) \/ Covers({y}, d, m)
            /\ Covers(out \cup {c}, d, m) <=> Covers(out, d, m) \/ Covers({c}, d, m)
            /\ Covers(P \cup {x}, d, m) <=> Covers(P, d, m) \/ Covers({x}, d, m)
        BY DEF Covers
      <3>3. Covers(out \cup {c}, d, m) <=> Covers(P, d, m)
        BY <1>2
      <3> QED BY <3>1, <3>2, <3>3
    <2>5. \A w \in out \cup {y} : /\ isValidWindow(w)
                                 /\ \E v \in P \cup {x} : v.weekday = w.weekday /\ v.startMinute = w.startMinute
      BY <1>2, <2>3
    <2>6. \A w \in out : w.endMinute < y.startMinute
      BY <1>2
    <2> HIDE DEF y
    <2>7. MergedInto(P \cup {x}, out, y)
      BY <1>1, <1>2, <2>3, <2>4, <2>5, <2>6 DEF MergedInto
    <2> QED BY <2>1, <2>7, MergedParts
  <1>7. CASE ~(x.startMinute <= c.endMinute)
    <2>1. merge(x, a) = [out |-> out \cup {c}, current |-> x]
      BY <1>1, <1>7 DEF merge
    <2>2. \A w \in out \cup {c} : w.endMinute < x.startMinute
      BY <1>2, <1>3, <1>4, <1>5, <1>7
    <2>3. Apart(out \cup {c})
      BY <1>2, <1>4, <1>5 DEF Apart, Clear
    <2>4. \A d, m \in Int : Covers((out \cup {c}) \cup {x}, d, m) <=> Covers(P \cup {x}, d, m)
      <3> SUFFICES ASSUME NEW d \in Int, NEW m \in Int
                   PROVE  Covers((out \cup {c}) \cup {x}, d, m) <=> Covers(P \cup {x}, d, m)
        OBVIOUS
      <3>1. /\ Covers((out \cup {c}) \cup {x}, d, m) <=> Covers(out \cup {c}, d, m) \/ Covers({x}, d, m)
            /\ Covers(P \cup {x}, d, m) <=> Covers(P, d, m) \/ Covers({x}, d, m)
        BY DEF Covers
      <3>2. Covers(out \cup {c}, d, m) <=> Covers(P, d, m)
        BY <1>2
      <3> QED BY <3>1, <3>2
    <2>5. IsFiniteSet(out \cup {c}) /\ (out \cup {c}) \cup {x} \subseteq Windows
      BY <1>1, FS_AddElement
    <2>6. \A w \in (out \cup {c}) \cup {x} :
            /\ isValidWindow(w)
            /\ \E v \in P \cup {x} : v.weekday = w.weekday /\ v.startMinute = w.startMinute
      BY <1>2
    <2>7. MergedInto(P \cup {x}, out \cup {c}, x)
      BY <2>2, <2>3, <2>4, <2>5, <2>6 DEF MergedInto
    <2> QED BY <2>1, <2>7, MergedParts
  <1> QED BY <1>6, <1>7

\* The fold over the windows B that come after the first, for every part of B.
Merging(B, first, D, g) ==
  g = [T \in D |-> IF T = {} THEN [out |-> {}, current |-> first] ELSE merge(latest(T), g[T \ {latest(T)}])]

LEMMA MergingExists ==
  ASSUME NEW B, B \subseteq Windows, IsFiniteSet(B), NEW first
  PROVE  \E g : Merging(B, first, SUBSET B, g)
  <1> DEFINE Small(n) == {T \in SUBSET B : Cardinality(T) <= n}
             F == {n \in Nat : \E g : Merging(B, first, Small(n), g)}
  <1>1. \A T \in SUBSET B : IsFiniteSet(T) /\ Cardinality(T) \in Nat
    BY FS_Subset, FS_CardinalityType
  <1>2. 0 \in F
    <2>1. Small(0) = {{}}
      BY <1>1, FS_EmptySet
    <2>2. Merging(B, first, {{}}, [T \in {{}} |-> [out |-> {}, current |-> first]])
      BY DEF Merging
    <2> QED BY <2>1, <2>2
  <1>3. ASSUME NEW n \in Nat, n \in F PROVE n + 1 \in F
    <2>1. PICK g : Merging(B, first, Small(n), g)
      BY <1>3
    <2> DEFINE h == [T \in Small(n + 1) |-> IF T = {} THEN [out |-> {}, current |-> first]
                                           ELSE merge(latest(T), g[T \ {latest(T)}])]
    <2>2. Small(n) \subseteq Small(n + 1)
      BY <1>1
    <2>3. \A T \in Small(n) : h[T] = g[T]
      BY <2>1, <2>2 DEF Merging
    <2>4. \A T \in Small(n + 1) : T # {} => T \ {latest(T)} \in Small(n)
      <3> SUFFICES ASSUME NEW T \in Small(n + 1), T # {} PROVE T \ {latest(T)} \in Small(n)
        OBVIOUS
      <3>1. T \in SUBSET B /\ IsFiniteSet(T) /\ Cardinality(T) \in Nat /\ Cardinality(T) <= n + 1
        BY <1>1
      <3>2. latest(T) \in T
        BY <3>1, LatestIsOne
      <3>3. T \ {latest(T)} \in SUBSET B /\ Cardinality(T \ {latest(T)}) = Cardinality(T) - 1
        BY <3>1, <3>2, FS_RemoveElement
      <3> QED BY <3>1, <3>3
    <2>5. h = [T \in Small(n + 1) |-> IF T = {} THEN [out |-> {}, current |-> first]
                                     ELSE merge(latest(T), h[T \ {latest(T)}])]
      <3> HIDE DEF Small
      <3> QED BY <2>3, <2>4
    <2>6. Merging(B, first, Small(n + 1), h)
      BY <2>5 DEF Merging
    <2>7. \E k : Merging(B, first, Small(n + 1), k)
      BY <2>6
    <2> QED BY <2>7
  <1>4. Cardinality(B) \in F
    <2> HIDE DEF F
    <2> QED BY <1>1, <1>2, <1>3, NumberInduction
  <1>5. Small(Cardinality(B)) = SUBSET B
    BY <1>1, FS_Subset
  <1> QED BY <1>4, <1>5

\* The windows of one day.
Day(B) == B \subseteq Windows /\ IsFiniteSet(B) /\ \A v, w \in B : isValidWindow(v) /\ v.weekday = w.weekday

LEMMA MergedUpTo ==
  ASSUME NEW B, Day(B), NEW first \in B, \A v \in B : first.startMinute <= v.startMinute,
         NEW g, Merging(B \ {first}, first, SUBSET (B \ {first}), g), NEW S \in SUBSET (B \ {first})
  PROVE  MergedTo(S \cup {first}, g[S])
  <1> DEFINE R == B \ {first}
             Bad == {T \in SUBSET R : ~MergedTo(T \cup {first}, g[T])}
  <1> SUFFICES ASSUME Bad # {} PROVE FALSE
    OBVIOUS
  <1>1. IsFiniteSet(R) /\ R \subseteq Windows
    BY FS_Subset DEF Day
  <1>2. PICK T \in Bad : \A U \in SUBSET T : U # T => U \notin Bad
    <2>1. Bad \subseteq SUBSET R
      OBVIOUS
    <2> HIDE DEF Bad, R
    <2> QED BY <1>1, <2>1, LeastSubset
  <1>3. T # {}
    <2>1. SUFFICES ASSUME T = {} PROVE FALSE
      OBVIOUS
    <2>2. g[T] = [out |-> {}, current |-> first]
      BY <2>1 DEF Merging
    <2>3. MergedInto({first}, {}, first)
      BY FS_EmptySet DEF MergedInto, Day, Apart
    <2>4. MergedTo(T \cup {first}, g[T])
      <3>1. T \cup {first} = {first}
        BY <2>1
      <3>2. MergedTo({first}, [out |-> {}, current |-> first])
        BY <2>3, MergedParts
      <3> QED BY <2>2, <3>1, <3>2
    <2> QED BY <1>2, <2>4
  <1> DEFINE x == latest(T)
             U == T \ {x}
  <1>4. x \in T /\ \A v \in T : v.startMinute <= x.startMinute
    <2>1. T \subseteq Windows /\ IsFiniteSet(T)
      BY <1>1, <1>2, FS_Subset
    <2> QED BY <1>3, <2>1, LatestIsOne
  <1>5. g[T] = merge(x, g[U])
    BY <1>2, <1>3 DEF Merging
  <1> HIDE DEF x
  <1>6. MergedTo(U \cup {first}, g[U])
    BY <1>2, <1>4
  <1>7. /\ U \cup {first} \subseteq Windows /\ x \in Windows /\ isValidWindow(x)
        /\ \A v \in U \cup {first} : v.weekday = x.weekday /\ v.startMinute <= x.startMinute
    BY <1>2, <1>4 DEF Day
  <1>8. MergedTo((U \cup {first}) \cup {x}, merge(x, g[U]))
    BY <1>6, <1>7, MergeStep
  <1>9. (U \cup {first}) \cup {x} = T \cup {first}
    BY <1>4
  <1> QED BY <1>2, <1>5, <1>8, <1>9

\* What a normalised set of windows has of another: every minute, once.
Normal(N, W) ==
  /\ N \subseteq Windows /\ IsFiniteSet(N) /\ \A w \in N : isValidWindow(w)
  /\ Apart(N)
  /\ \A d, m \in Int : Covers(N, d, m) <=> Covers(W, d, m)

LEMMA DayIsMerged ==
  ASSUME NEW B, Day(B), B # {}
  PROVE  Normal(mergeDay(B), B) /\ \A w \in mergeDay(B), v \in B : w.weekday = v.weekday
  <1> DEFINE first == earliest(B)
             R == B \ {first}
             g == CHOOSE g : Merging(R, first, SUBSET R, g)
  <1>1. first \in B /\ \A v \in B : first.startMinute <= v.startMinute
    BY EarliestIsOne DEF Day
  <1>2. Merging(R, first, SUBSET R, g)
    <2>1. R \subseteq Windows /\ IsFiniteSet(R)
      BY FS_Subset DEF Day
    <2> QED BY <2>1, MergingExists
  <1>3. mergeDay(B) = g[R].out \cup {g[R].current}
    BY DEF mergeDay, MapThenFoldSet, Merging
  <1> HIDE DEF g, first
  <1>4. MergedTo(B, g[R])
    <2>1. R \cup {first} = B /\ R \in SUBSET R
      BY <1>1
    <2>2. MergedTo(R \cup {first}, g[R])
      BY <1>1, <1>2, <2>1, MergedUpTo
    <2> QED BY <2>1, <2>2
  <1>5. PICK out, c : mergeDay(B) = out \cup {c} /\ MergedInto(B, out, c)
    <2>1. PICK out, c : g[R] = [out |-> out, current |-> c]
      BY <1>4 DEF MergedTo
    <2> QED BY <1>3, <1>4, <2>1, MergedParts
  <1>6. \A w \in out \cup {c}, v \in B : w.weekday = v.weekday
    BY <1>5 DEF MergedInto, Day
  <1>7. Apart(out \cup {c})
    BY <1>5, WindowIs DEF MergedInto, Apart, Clear, isValidWindow
  <1>8. IsFiniteSet(out \cup {c})
    BY <1>5, FS_AddElement DEF MergedInto
  <1> QED BY <1>5, <1>6, <1>7, <1>8 DEF Normal, MergedInto

\* The image of a finite set under a function.
LEMMA ImageIsFinite ==
  ASSUME NEW S, IsFiniteSet(S), NEW f
  PROVE  IsFiniteSet({f[x] : x \in S})
  <1> DEFINE T == {f[x] : x \in S}
             h == [x \in S |-> f[x]]
  <1>1. h \in Surjection(S, T)
    BY DEF Surjection
  <1> HIDE DEF h, T
  <1>2. IsFiniteSet(T)
    BY <1>1, FS_Surjection
  <1> QED BY <1>2 DEF T

ValidOf(W) == {w \in W : isValidWindow(w)}

LEMMA WindowsAreNormalised ==
  ASSUME NEW W, areWindows(W)
  PROVE  Normal(normalizeWindows(W), ValidOf(W))
  <1> DEFINE V == ValidOf(W)
             B(d) == {w \in V : w.weekday = d}
             days == {w.weekday : w \in V}
             N == UNION {mergeDay(B(d)) : d \in days}
  <1>0. normalizeWindows(W) = N
    BY DEF normalizeWindows, ValidOf
  <1>1. V \subseteq Windows /\ IsFiniteSet(V) /\ \A w \in V : isValidWindow(w)
    BY FS_Subset DEF areWindows, ValidOf, Windows
  <1> HIDE DEF V
  <1>2. ASSUME NEW d \in days
        PROVE  Normal(mergeDay(B(d)), B(d)) /\ \A w \in mergeDay(B(d)) : w.weekday = d
    <2>1. IsFiniteSet(B(d)) /\ B(d) # {}
      BY <1>1, FS_Subset
    <2>2. Day(B(d))
      BY <1>1, <2>1 DEF Day
    <2>3. Normal(mergeDay(B(d)), B(d)) /\ \A w \in mergeDay(B(d)), v \in B(d) : w.weekday = v.weekday
      <3> HIDE DEF B
      <3> QED BY <2>1, <2>2, DayIsMerged
    <2> QED BY <2>1, <2>3
  <1>3. N \subseteq Windows /\ \A w \in N : isValidWindow(w)
    <2>1. SUFFICES ASSUME NEW d \in days PROVE mergeDay(B(d)) \subseteq Windows /\ \A w \in mergeDay(B(d)) : isValidWindow(w)
      OBVIOUS
    <2> QED BY <1>2 DEF Normal
  <1>4. IsFiniteSet(N)
    <2> DEFINE weekdayOf == [w \in V |-> w.weekday]
               merged == [d \in days |-> mergeDay(B(d))]
    <2>1. days = {weekdayOf[w] : w \in V}
      OBVIOUS
    <2>2. IsFiniteSet(days)
      <3> HIDE DEF days, weekdayOf
      <3> QED BY <1>1, <2>1, ImageIsFinite
    <2>3. {mergeDay(B(d)) : d \in days} = {merged[d] : d \in days}
      OBVIOUS
    <2>4. IsFiniteSet({mergeDay(B(d)) : d \in days})
      <3> HIDE DEF days, merged
      <3>1. IsFiniteSet({merged[d] : d \in days})
        BY <2>2, ImageIsFinite
      <3> QED BY <2>3, <3>1
    <2>5. \A T \in {mergeDay(B(d)) : d \in days} : IsFiniteSet(T)
      BY <1>2 DEF Normal
    <2> QED BY <2>4, <2>5, FS_UNION
  <1>5. Apart(N)
    <2>0. SUFFICES ASSUME NEW v \in N, NEW w \in N, v # w PROVE Clear(v, w)
      BY DEF Apart
    <2>1. PICK d \in days, e \in days : v \in mergeDay(B(d)) /\ w \in mergeDay(B(e))
      OBVIOUS
    <2>2. v.weekday = d /\ w.weekday = e
      BY <1>2, <2>1
    <2>3. CASE d = e
      <3>1. v \in mergeDay(B(d)) /\ w \in mergeDay(B(d)) /\ Apart(mergeDay(B(d)))
        BY <1>2, <2>1, <2>3 DEF Normal
      <3> QED BY <2>0, <3>1 DEF Apart
    <2> QED BY <2>2, <2>3 DEF Clear
  <1>6. ASSUME NEW d \in Int, NEW m \in Int PROVE Covers(N, d, m) <=> Covers(V, d, m)
    <2>1. Covers(N, d, m) <=> \E e \in days : Covers(mergeDay(B(e)), d, m)
      BY DEF Covers
    <2>2. ASSUME NEW e \in days PROVE Covers(mergeDay(B(e)), d, m) <=> Covers(B(e), d, m)
      BY <1>2 DEF Normal
    <2>3. Covers(V, d, m) <=> \E e \in days : Covers(B(e), d, m)
      BY DEF Covers
    <2> QED BY <2>1, <2>2, <2>3
  <1> QED BY <1>0, <1>3, <1>4, <1>5, <1>6 DEF Normal, V

-------------------------------------------------------------------------------
(* Counting minutes *)

LEMMA MinutesAreCovered ==
  ASSUME NEW W, W \subseteq Windows
  PROVE  minutesOf(W) = {p \in Int \X Int : Covers(ValidOf(W), p[1], p[2])}
  <1> DEFINE span(w) == {<<w.weekday, m>> : m \in w.startMinute .. w.endMinute - 1}
  <1>1. minutesOf(W) = UNION {span(w) : w \in ValidOf(W)}
    BY DEF minutesOf, ValidOf
  <1>2. ASSUME NEW w \in ValidOf(W), NEW p
        PROVE  p \in span(w) <=> p \in Int \X Int /\ w.weekday = p[1] /\ w.startMinute <= p[2] /\ p[2] < w.endMinute
    <2>1. w.weekday \in Int /\ w.startMinute \in Int /\ w.endMinute \in Int
      BY WindowIs DEF ValidOf
    <2> QED BY <2>1
  <1> HIDE DEF span
  <1>3. ASSUME NEW p PROVE p \in minutesOf(W) <=> p \in Int \X Int /\ Covers(ValidOf(W), p[1], p[2])
    <2>1. p \in minutesOf(W) <=> \E w \in ValidOf(W) : p \in span(w)
      BY <1>1
    <2> QED BY <1>2, <2>1 DEF Covers
  <1> QED BY <1>3

\* The length of a window is the number of its minutes.
LEMMA LengthIsCount ==
  ASSUME NEW d \in Int, NEW s \in Int, NEW e \in Int, s < e
  PROVE  IsFiniteSet({d} \X (s..e-1)) /\ Cardinality({d} \X (s..e-1)) = e - s
  <1> DEFINE S == s..e-1
             T == {d} \X S
             f == [m \in S |-> <<d, m>>]
  <1>1. IsFiniteSet(S) /\ Cardinality(S) = e - s
    BY FS_Interval
  <1>2. f \in Surjection(S, T) /\ f \in Injection(S, T)
    <2> HIDE DEF S
    <2>2. \A m, n \in S : f[m] = f[n] => m = n
      OBVIOUS
    <2>3. \A p \in T : \E m \in S : f[m] = p
      OBVIOUS
    <2>4. f \in [S -> T]
      <3>1. \A m \in S : f[m] \in T
        OBVIOUS
      <3> QED BY <3>1
    <2> HIDE DEF f, T
    <2>5. f \in Injection(S, T)
      BY <2>2, <2>4 DEF Injection, IsInjective
    <2>6. f \in Surjection(S, T)
      BY <2>3, <2>4 DEF Surjection
    <2> QED BY <2>5, <2>6
  <1> HIDE DEF f, S, T
  <1>3. IsFiniteSet(T) /\ Cardinality(T) = Cardinality(S)
    BY <1>1, <1>2, FS_Surjection
  <1> QED BY <1>1, <1>3 DEF S, T

LEMMA DisjointUnion ==
  ASSUME NEW S, IsFiniteSet(S), NEW T, IsFiniteSet(T), S \cap T = {}
  PROVE  IsFiniteSet(S \cup T) /\ Cardinality(S \cup T) = Cardinality(S) + Cardinality(T)
  <1>1. Cardinality(S \cap T) = 0
    BY FS_EmptySet
  <1>2. Cardinality(S) \in Nat /\ Cardinality(T) \in Nat
    BY FS_CardinalityType
  <1>3. IsFiniteSet(S \cup T) /\ Cardinality(S \cup T) = Cardinality(S) + Cardinality(T) - Cardinality(S \cap T)
    BY FS_Union
  <1> QED BY <1>1, <1>2, <1>3

LEMMA LengthsAddUp ==
  ASSUME NEW N, N \subseteq Windows, IsFiniteSet(N), \A w \in N : isValidWindow(w), Apart(N)
  PROVE  SumFunctionOnSet([w \in N |-> w.endMinute - w.startMinute], N) = Cardinality(minutesOf(N))
  <1> DEFINE f == [w \in N |-> w.endMinute - w.startMinute]
             F == {T \in SUBSET N : IsFiniteSet(minutesOf(T)) /\ SumFunctionOnSet(f, T) = Cardinality(minutesOf(T))}
  <1>0. \A w \in N : f[w] \in Int /\ f[w] = w.endMinute - w.startMinute
    BY WindowIs
  <1> HIDE DEF f
  <1>1. {} \in F
    <2>1. minutesOf({}) = {}
      BY DEF minutesOf
    <2> QED BY <2>1, SumEmpty, FS_EmptySet
  <1>2. ASSUME NEW T \in SUBSET N, NEW x \in N \ T, T \in F PROVE T \cup {x} \in F
    <2>1. /\ x \in Windows /\ x.weekday \in Int /\ x.startMinute \in Int /\ x.endMinute \in Int
          /\ x.startMinute < x.endMinute
      <3>1. isValidWindow(x)
        OBVIOUS
      <3> QED BY <3>1, WindowIs DEF isValidWindow
    <2> DEFINE own == {x.weekday} \X (x.startMinute .. x.endMinute - 1)
    <2>2. IsFiniteSet(own) /\ Cardinality(own) = f[x]
      <3>1. IsFiniteSet(own) /\ Cardinality(own) = x.endMinute - x.startMinute
        BY <2>1, LengthIsCount
      <3>2. f[x] = x.endMinute - x.startMinute
        BY <1>0
      <3> HIDE DEF own
      <3> QED BY <3>1, <3>2
    <2>3. minutesOf(T \cup {x}) = minutesOf(T) \cup own
      <3>1. {<<x.weekday, m>> : m \in x.startMinute .. x.endMinute - 1} = own
        OBVIOUS
      <3> HIDE DEF own
      <3> QED BY <3>1 DEF minutesOf
    <2>4. minutesOf(T) \cap own = {}
      <3>1. SUFFICES ASSUME NEW p \in minutesOf(T), p \in own PROVE FALSE
        OBVIOUS
      <3>2. p[1] = x.weekday /\ p[2] \in Int /\ x.startMinute <= p[2] /\ p[2] < x.endMinute
        BY <2>1, <3>1
      <3>3. PICK w \in T : w.weekday = p[1] /\ w.startMinute <= p[2] /\ p[2] < w.endMinute
        <4>1. T \subseteq Windows
          OBVIOUS
        <4>2. Covers(ValidOf(T), p[1], p[2])
          BY <3>1, <4>1, MinutesAreCovered
        <4> QED BY <4>2 DEF Covers, ValidOf
      <3>4. Clear(w, x) /\ w.startMinute \in Int /\ w.endMinute \in Int
        BY WindowIs DEF Apart
      <3> QED BY <2>1, <3>2, <3>3, <3>4 DEF Clear
    <2> HIDE DEF own
    <2>5. IsFiniteSet(T) /\ x \notin T /\ \A w \in T \cup {x} : f[w] \in Int
      BY <1>0, FS_Subset
    <2>6. SumFunctionOnSet(f, T \cup {x}) = f[x] + SumFunctionOnSet(f, T)
      BY <2>5, SumWith
    <2>7. /\ IsFiniteSet(minutesOf(T)) /\ Cardinality(minutesOf(T)) \in Nat
          /\ SumFunctionOnSet(f, T) = Cardinality(minutesOf(T))
      BY <1>2, FS_CardinalityType
    <2>8. /\ IsFiniteSet(minutesOf(T \cup {x}))
          /\ Cardinality(minutesOf(T \cup {x})) = Cardinality(minutesOf(T)) + f[x]
      BY <2>2, <2>3, <2>4, <2>7, DisjointUnion
    <2>9. SumFunctionOnSet(f, T \cup {x}) = Cardinality(minutesOf(T \cup {x}))
      <3>1. f[x] \in Int
        BY <1>0
      <3>2. SumFunctionOnSet(f, T \cup {x}) = f[x] + Cardinality(minutesOf(T))
        BY <2>6, <2>7
      <3> QED BY <2>7, <2>8, <3>1, <3>2
    <2> QED BY <2>8, <2>9
  <1>3. N \in F
    <2> HIDE DEF F
    <2> QED BY <1>1, <1>2, SetInduction
  <1> QED BY <1>3 DEF f

\* The windows of a day that are shared are the overlaps of one's windows and the other's.
LEMMA OverlapsAreShared ==
  ASSUME NEW A, A \subseteq Windows, \A w \in A : isValidWindow(w), IsFiniteSet(A),
         NEW B, B \subseteq Windows, \A w \in B : isValidWindow(w), IsFiniteSet(B),
         NEW P, P = {[weekday |-> p[1].weekday, startMinute |-> Max({p[1].startMinute, p[2].startMinute}),
                      endMinute |-> Min({p[1].endMinute, p[2].endMinute})] :
                       p \in {q \in A \X B : q[1].weekday = q[2].weekday}}
  PROVE  areWindows(P) /\ minutesOf(P) = minutesOf(A) \cap minutesOf(B)
  <1> DEFINE pairs == {q \in A \X B : q[1].weekday = q[2].weekday}
             larger(i, j) == IF i >= j THEN i ELSE j
             smaller(i, j) == IF i <= j THEN i ELSE j
             overlap == [p \in pairs |-> [weekday |-> p[1].weekday,
                                          startMinute |-> larger(p[1].startMinute, p[2].startMinute),
                                          endMinute |-> smaller(p[1].endMinute, p[2].endMinute)]]
  <1>1. ASSUME NEW p \in pairs
        PROVE  /\ overlap[p] = [weekday |-> p[1].weekday, startMinute |-> Max({p[1].startMinute, p[2].startMinute}),
                                endMinute |-> Min({p[1].endMinute, p[2].endMinute})]
               /\ overlap[p] \in Windows
    <2>1. p[1] \in Windows /\ p[2] \in Windows
      OBVIOUS
    <2>2. /\ p[1].startMinute \in Int /\ p[2].startMinute \in Int /\ p[1].endMinute \in Int
          /\ p[2].endMinute \in Int /\ p[1].weekday \in Int
      BY <2>1, WindowIs
    <2>3. /\ Max({p[1].startMinute, p[2].startMinute}) = larger(p[1].startMinute, p[2].startMinute)
          /\ Min({p[1].endMinute, p[2].endMinute}) = smaller(p[1].endMinute, p[2].endMinute)
      BY <2>2, MaxOfTwo, MinOfTwo
    <2> QED BY <2>2, <2>3 DEF Windows
  <1>2. P = {overlap[p] : p \in pairs}
    <2>1. ASSUME NEW u PROVE u \in P <=> \E p \in pairs : u = overlap[p]
      <3> DEFINE shared(p) == [weekday |-> p[1].weekday, startMinute |-> Max({p[1].startMinute, p[2].startMinute}),
                               endMinute |-> Min({p[1].endMinute, p[2].endMinute})]
      <3>1. u \in P <=> \E p \in pairs : u = shared(p)
        OBVIOUS
      <3>2. \A p \in pairs : overlap[p] = shared(p)
        BY <1>1
      <3> HIDE DEF overlap, pairs, shared
      <3> QED BY <3>1, <3>2
    <2> HIDE DEF overlap, pairs
    <2> QED BY <2>1
  <1>3. areWindows(P)
    <2>1. IsFiniteSet(pairs)
      <3>1. IsFiniteSet(A \X B)
        BY FS_Product
      <3> QED BY <3>1, FS_Subset
    <2> HIDE DEF overlap, pairs
    <2>2. IsFiniteSet({overlap[p] : p \in pairs})
      BY <2>1, ImageIsFinite
    <2>3. P \subseteq Windows
      BY <1>1, <1>2
    <2> QED BY <1>2, <2>2, <2>3 DEF areWindows, Windows
  <1>4. ValidOf(A) = A /\ ValidOf(B) = B
    BY DEF ValidOf
  <1>5. ASSUME NEW d \in Int, NEW m \in Int
        PROVE  Covers(ValidOf(P), d, m) <=> Covers(A, d, m) /\ Covers(B, d, m)
    <2>1. ASSUME NEW v \in A, NEW w \in B, v.weekday = d, w.weekday = d,
                 v.startMinute <= m, m < v.endMinute, w.startMinute <= m, m < w.endMinute
          PROVE  Covers(ValidOf(P), d, m)
      <3> DEFINE u == overlap[<<v, w>>]
      <3>1. <<v, w>> \in pairs
        BY <2>1
      <3>2. /\ u.weekday = d /\ u.startMinute = larger(v.startMinute, w.startMinute)
            /\ u.endMinute = smaller(v.endMinute, w.endMinute) /\ u \in P
        BY <1>2, <2>1, <3>1
      <3>3. /\ isValidWindow(v) /\ isValidWindow(w) /\ v.startMinute \in Int /\ w.startMinute \in Int
            /\ v.endMinute \in Int /\ w.endMinute \in Int
        BY WindowIs
      <3> HIDE DEF u
      <3>4. isValidWindow(u) /\ u.startMinute <= m /\ m < u.endMinute
        BY <2>1, <3>2, <3>3 DEF isValidWindow, MINUTES_PER_DAY
      <3> QED BY <3>2, <3>4 DEF Covers, ValidOf
    <2>2. ASSUME NEW u \in ValidOf(P), u.weekday = d, u.startMinute <= m, m < u.endMinute
          PROVE  Covers(A, d, m) /\ Covers(B, d, m)
      <3>1. PICK p \in pairs : u = overlap[p]
        BY <1>2 DEF ValidOf
      <3>2. /\ p[1] \in A /\ p[2] \in B /\ p[1].weekday = d /\ p[2].weekday = d
            /\ u.startMinute = larger(p[1].startMinute, p[2].startMinute)
            /\ u.endMinute = smaller(p[1].endMinute, p[2].endMinute)
        BY <2>2, <3>1
      <3>3. /\ p[1].startMinute \in Int /\ p[2].startMinute \in Int
            /\ p[1].endMinute \in Int /\ p[2].endMinute \in Int
        BY <3>2, WindowIs
      <3>4. /\ p[1].startMinute <= m /\ m < p[1].endMinute
            /\ p[2].startMinute <= m /\ m < p[2].endMinute
        BY <2>2, <3>2, <3>3
      <3> QED BY <3>2, <3>4 DEF Covers
    <2>3. Covers(A, d, m) /\ Covers(B, d, m) => Covers(ValidOf(P), d, m)
      BY <2>1 DEF Covers
    <2>4. Covers(ValidOf(P), d, m) => Covers(A, d, m) /\ Covers(B, d, m)
      <3>1. SUFFICES ASSUME Covers(ValidOf(P), d, m) PROVE Covers(A, d, m) /\ Covers(B, d, m)
        OBVIOUS
      <3>2. PICK u \in ValidOf(P) : u.weekday = d /\ u.startMinute <= m /\ m < u.endMinute
        BY <3>1 DEF Covers
      <3> QED BY <2>2, <3>2
    <2> QED BY <2>3, <2>4
  <1> HIDE DEF pairs, overlap
  <1>6. P \subseteq Windows
    BY <1>3 DEF areWindows, Windows
  <1>7. /\ minutesOf(P) = {p \in Int \X Int : Covers(ValidOf(P), p[1], p[2])}
        /\ minutesOf(A) = {p \in Int \X Int : Covers(A, p[1], p[2])}
        /\ minutesOf(B) = {p \in Int \X Int : Covers(B, p[1], p[2])}
    <2>1. minutesOf(P) = {p \in Int \X Int : Covers(ValidOf(P), p[1], p[2])}
      BY <1>6, MinutesAreCovered
    <2>2. minutesOf(A) = {p \in Int \X Int : Covers(ValidOf(A), p[1], p[2])}
      BY MinutesAreCovered
    <2>3. minutesOf(B) = {p \in Int \X Int : Covers(ValidOf(B), p[1], p[2])}
      BY MinutesAreCovered
    <2> QED BY <1>4, <2>1, <2>2, <2>3
  <1>8. \A p \in Int \X Int : Covers(ValidOf(P), p[1], p[2]) <=> Covers(A, p[1], p[2]) /\ Covers(B, p[1], p[2])
    BY <1>5
  <1> QED BY <1>3, <1>7, <1>8

\* Normal windows cover what the windows they come from cover.
LEMMA NormalMinutes ==
  ASSUME NEW W, areWindows(W)
  PROVE  minutesOf(normalizeWindows(W)) = minutesOf(W)
  <1> DEFINE N == normalizeWindows(W)
  <1>1. Normal(N, ValidOf(W)) /\ W \subseteq Windows
    BY WindowsAreNormalised DEF areWindows, Windows
  <1>2. N \subseteq Windows /\ ValidOf(N) = N
    BY <1>1 DEF Normal, ValidOf
  <1> HIDE DEF N
  <1>3. minutesOf(N) = {p \in Int \X Int : Covers(ValidOf(N), p[1], p[2])}
    BY <1>2, MinutesAreCovered
  <1>4. minutesOf(W) = {p \in Int \X Int : Covers(ValidOf(W), p[1], p[2])}
    BY <1>1, MinutesAreCovered
  <1>5. \A p \in Int \X Int : Covers(N, p[1], p[2]) <=> Covers(ValidOf(W), p[1], p[2])
    BY <1>1 DEF Normal
  <1>6. minutesOf(N) = minutesOf(W)
    BY <1>2, <1>3, <1>4, <1>5
  <1> QED BY <1>6 DEF N

LEMMA SharedMinutes ==
  ASSUME NEW a, NEW b, areWindows(a), areWindows(b)
  PROVE  /\ areWindows(intersectWindows(a, b))
         /\ minutesOf(intersectWindows(a, b)) = minutesOf(a) \cap minutesOf(b)
         /\ \A w \in intersectWindows(a, b) : isValidWindow(w)
  <1> DEFINE A == normalizeWindows(a)
             B == normalizeWindows(b)
             P == {[weekday |-> p[1].weekday, startMinute |-> Max({p[1].startMinute, p[2].startMinute}),
                    endMinute |-> Min({p[1].endMinute, p[2].endMinute})] :
                     p \in {q \in A \X B : q[1].weekday = q[2].weekday}}
  <1>1. A \subseteq Windows /\ IsFiniteSet(A) /\ \A w \in A : isValidWindow(w)
    BY WindowsAreNormalised DEF Normal
  <1>2. B \subseteq Windows /\ IsFiniteSet(B) /\ \A w \in B : isValidWindow(w)
    BY WindowsAreNormalised DEF Normal
  <1>3. minutesOf(A) = minutesOf(a) /\ minutesOf(B) = minutesOf(b)
    BY NormalMinutes
  <1>4. intersectWindows(a, b) = normalizeWindows(P)
    BY DEF intersectWindows
  <1> HIDE DEF A, B
  <1>5. areWindows(P) /\ minutesOf(P) = minutesOf(A) \cap minutesOf(B)
    BY <1>1, <1>2, OverlapsAreShared
  <1> HIDE DEF P
  <1>6. Normal(normalizeWindows(P), ValidOf(P)) /\ minutesOf(normalizeWindows(P)) = minutesOf(P)
    BY <1>5, WindowsAreNormalised, NormalMinutes
  <1> QED BY <1>3, <1>4, <1>5, <1>6 DEF Normal, areWindows, Windows

LEMMA TotalIsCount ==
  ASSUME NEW W, areWindows(W)
  PROVE  totalMinutes(W) = Cardinality(minutesOf(W))
  <1> DEFINE N == normalizeWindows(W)
  <1>1. N \subseteq Windows /\ IsFiniteSet(N) /\ Apart(N) /\ \A w \in N : isValidWindow(w)
    BY WindowsAreNormalised DEF Normal
  <1>2. minutesOf(N) = minutesOf(W)
    BY NormalMinutes
  <1>3. totalMinutes(W) = SumFunctionOnSet([w \in N |-> w.endMinute - w.startMinute], N)
    BY DEF totalMinutes
  <1> HIDE DEF N
  <1> QED BY <1>1, <1>2, <1>3, LengthsAddUp

-------------------------------------------------------------------------------
\* Shared time is counted to the minute for any two sets of windows.
THEOREM MinutesCounted == MatchingSpec => []MinutesAreCounted
  <1>1. MatchingInit => MinutesAreCounted
    <2> SUFFICES ASSUME MatchingInit, "a" \in DOMAIN inquiry
                 PROVE  totalMinutes(intersectWindows(inquiry.a, inquiry.b)) =
                          Cardinality(minutesOf(inquiry.a) \cap minutesOf(inquiry.b))
      BY DEF MinutesAreCounted
    <2>1. areWindows(inquiry.a) /\ areWindows(inquiry.b)
      <3>1. inquiry \notin Inquiries
        BY MatchingAssumption DEF MatchingAssumption
      <3> QED BY <3>1, MatchingAssumption DEF MatchingInit, MatchingAssumption
    <2> QED BY <2>1, SharedMinutes, TotalIsCount
  <1>2. MinutesAreCounted /\ [FALSE]_inquiry => MinutesAreCounted'
    BY DEF MinutesAreCounted
  <1> QED BY <1>1, <1>2, PTL DEF MatchingSpec

-------------------------------------------------------------------------------
(* What a score can be when nothing speaks for it *)

LEMMA ClampIs ==
  ASSUME NEW n \in Int
  PROVE  clamp01(n) = (IF n < 0 THEN 0 ELSE IF n > 1000 THEN 1000 ELSE n)
  <1> DEFINE i == Min({1000, n})
  <1>1. i = IF 1000 <= n THEN 1000 ELSE n
    BY MinOfTwo
  <1>2. i \in Int
    BY <1>1
  <1>3. clamp01(n) = Max({0, i})
    BY DEF clamp01
  <1> HIDE DEF i
  <1>4. Max({0, i}) = IF 0 >= i THEN 0 ELSE i
    BY <1>2, MaxOfTwo
  <1> QED BY <1>1, <1>3, <1>4

LEMMA PartIs ==
  ASSUME NEW n \in Int, NEW reason
  PROVE  /\ Part(n, reason).reason = reason
         /\ Part(n, reason).score \in 0..1000
         /\ n \in 0..1000 => Part(n, reason).score = n
  BY ClampIs DEF Part

LEMMA ReasonOfPart == ASSUME NEW n, NEW reason PROVE Part(n, reason).reason = reason
  BY DEF Part

\* A coach whose students gained less than 0.8 of the climb scores less than 800 for it.
LEMMA ShortOfClimb ==
  ASSUME NEW m \in Int, NEW r \in Int, r > 0, 10 * m < 8 * r
  PROVE  (1000 * m) \div r \in Int /\ (1000 * m) \div r < 800
  <1> DEFINE x == 1000 * m
             q == x \div r
  <1>1. x \in Int /\ q \in Int
    OBVIOUS
  <1>2. r * q <= x
    OBVIOUS
  <1>3. x < 800 * r
    OBVIOUS
  <1> HIDE DEF q, x
  <1>4. SUFFICES ASSUME q >= 800 PROVE FALSE
    BY <1>1 DEF q, x
  <1>5. PICK d \in Nat : q = 800 + d
    <2>1. q - 800 \in Nat /\ q = 800 + (q - 800)
      BY <1>1, <1>4
    <2> QED BY <2>1
  <1>6. r * q = r * 800 + r * d /\ r * q \in Int /\ r * d \in Int
    BY <1>1, <1>5
  <1>7. r * d >= 0
    BY <1>5
  <1> QED BY <1>1, <1>2, <1>3, <1>6, <1>7

\* The table has a net for every rank, and it is an integer.
LEMMA NetIsInt ==
  ASSUME NEW t \in DOMAIN RANK_TO_NET, NEW r \in DOMAIN ln
  PROVE  netIndexForRanking(t, r) \in Int
  <1> DEFINE anchors == RANK_TO_NET[t]
             n == Len(anchors)
             between(k) == anchors[k][1] <= r /\ r <= anchors[k+1][1]
             i == CHOOSE k \in 1..n-1 : between(k)
  <1>1. n = 7 /\ \A k \in 1..7 : anchors[k][1] \in Nat /\ anchors[k][2] \in Int
    BY DEF RANK_TO_NET
  <1>2. r \in Nat /\ ln[r] \in Int
    BY MatchingAssumption DEF MatchingAssumption
  <1>3. /\ \A k \in 1..6 : ln[anchors[k][1]] \in Int /\ ln[anchors[k+1][1]] \in Int
        /\ \A k \in 1..6 : ln[anchors[k][1]] < ln[anchors[k+1][1]]
    <2> SUFFICES ASSUME NEW k \in 1..6
                 PROVE  /\ ln[anchors[k][1]] \in Int /\ ln[anchors[k+1][1]] \in Int
                        /\ ln[anchors[k][1]] < ln[anchors[k+1][1]]
      OBVIOUS
    <2>1. k \in 1..Len(RANK_TO_NET[t]) - 1
      BY <1>1
    <2> QED BY <2>1, MatchingAssumption DEF MatchingAssumption
  <1>4. netIndexForRanking(t, r) =
          IF r <= anchors[1][1] THEN anchors[1][2]
          ELSE IF r >= anchors[7][1] THEN anchors[7][2]
          ELSE anchors[i][2] + ((anchors[i+1][2] - anchors[i][2]) * (ln[r] - ln[anchors[i][1]]))
                                 \div (ln[anchors[i+1][1]] - ln[anchors[i][1]])
    BY <1>1 DEF netIndexForRanking
  <1> HIDE DEF anchors
  <1>5. CASE r > anchors[1][1] /\ r < anchors[7][1]
    <2>1. \E k \in 1..6 : between(k)
      <3>1. SUFFICES ASSUME \A k \in 1..6 : ~between(k) PROVE FALSE
        OBVIOUS
      <3>2. /\ anchors[1][1] \in Nat /\ anchors[2][1] \in Nat /\ anchors[3][1] \in Nat /\ anchors[4][1] \in Nat
            /\ anchors[5][1] \in Nat /\ anchors[6][1] \in Nat /\ anchors[7][1] \in Nat
        BY <1>1
      <3>3. ~between(1) /\ ~between(2) /\ ~between(3) /\ ~between(4) /\ ~between(5) /\ ~between(6)
        BY <3>1
      <3> QED BY <1>2, <1>5, <3>2, <3>3
    <2>2. i \in 1..6
      <3> HIDE DEF between
      <3> QED BY <1>1, <2>1
    <2> HIDE DEF i
    <2> DEFINE step == anchors[i+1][2] - anchors[i][2]
               rise == ln[r] - ln[anchors[i][1]]
               whole == ln[anchors[i+1][1]] - ln[anchors[i][1]]
    <2>3. step \in Int /\ anchors[i][2] \in Int
      <3>1. i \in 1..7 /\ i + 1 \in 1..7
        BY <2>2
      <3> QED BY <1>1, <3>1
    <2>4. rise \in Int /\ whole \in Int /\ whole > 0
      BY <1>2, <1>3, <2>2
    <2>5. netIndexForRanking(t, r) = anchors[i][2] + (step * rise) \div whole
      BY <1>1, <1>2, <1>4, <1>5
    <2> HIDE DEF step, rise, whole
    <2>6. (step * rise) \div whole \in Int
      BY <2>3, <2>4
    <2> QED BY <2>3, <2>5, <2>6
  <1> HIDE DEF i, between
  <1>6. CASE r <= anchors[1][1]
    BY <1>1, <1>4, <1>6
  <1>7. CASE ~(r <= anchors[1][1]) /\ r >= anchors[7][1]
    BY <1>1, <1>4, <1>7
  <1>8. anchors[1][1] \in Nat /\ anchors[7][1] \in Nat
    BY <1>1
  <1> QED BY <1>2, <1>5, <1>6, <1>7, <1>8

LEMMA DifferenceIs ==
  ASSUME NEW x \in Int \cup {Unset}, NEW y \in Int \cup {Unset}
  PROVE  difference(x, y) \in Int \cup {Unset}
  BY DEF difference

LEMMA ClimbIs ==
  ASSUME NEW s, isStudent(s)
  PROVE  requiredClimb(s) \in Int \cup {Unset}
  <1>1. CASE s.ranking = Unset
    BY <1>1 DEF requiredClimb
  <1>2. CASE s.ranking # Unset
    <2>1. netIndexForRanking(s.track, s.ranking) \in Int
      BY <1>2, NetIsInt DEF isStudent
    <2>2. difference(netIndexForRanking(s.track, s.ranking), s.baseNet) \in Int \cup {Unset}
      BY <2>1, DifferenceIs DEF isStudent
    <2> QED BY <1>2, <2>2 DEF requiredClimb
  <1> QED BY <1>1, <1>2


\* The steps of the trajectory keep: without a sentence of its own, a part scores less than 620.
Quiet(part) ==
  /\ part.score \in 0..1000
  /\ part.reason \notin {"noData", "similarClimb"}
  /\ part.reason = "unsaid" => part.score = 500

LEMMA PartIsQuiet ==
  ASSUME NEW n \in Int, NEW reason, reason \notin {"noData", "similarClimb", "unsaid"}
  PROVE  Quiet(Part(n, reason))
  <1> DEFINE p == Part(n, reason)
  <1>1. p.reason = reason /\ p.score \in 0..1000
    BY PartIs
  <1> HIDE DEF p
  <1>2. Quiet(p)
    BY <1>1 DEF Quiet
  <1> QED BY <1>2 DEF p

LEMMA QuietScore ==
  ASSUME NEW part, Quiet(part), NEW k \in Int
  PROVE  part.score + k \in Int
  <1> DEFINE own == part.score
  <1>1. own \in 0..1000
    BY DEF Quiet
  <1> HIDE DEF own
  <1>2. own + k \in Int
    BY <1>1
  <1> QED BY <1>2 DEF own

LEMMA ClimbedIsQuiet ==
  ASSUME NEW required \in Int \cup {Unset}, NEW demonstrated \in Int \cup {Unset}
  PROVE  Quiet(climbed(required, demonstrated))
  <1>1. CASE required # Unset /\ demonstrated # Unset
    <2>1. climbed(required, demonstrated) = Part(climbScore(demonstrated, required), "climb")
      BY <1>1 DEF climbed
    <2>2. climbScore(demonstrated, required) \in Int
      <3> DEFINE ratio == IF required <= 0 THEN 1000 ELSE (1000 * demonstrated) \div required
                 over == Min({ratio - 1000, 1000})
      <3>1. ratio \in Int
        <4>1. required \in Int /\ demonstrated \in Int
          BY <1>1
        <4>2. CASE required > 0
          <5> DEFINE x == 1000 * demonstrated
          <5>1. x \in Int
            BY <4>1
          <5> HIDE DEF x
          <5>2. x \div required \in Int
            BY <4>1, <4>2, <5>1
          <5> QED BY <4>1, <4>2, <5>2 DEF x
        <4>3. CASE required <= 0
          BY <4>3
        <4> QED BY <4>1, <4>2, <4>3
      <3>2. climbScore(demonstrated, required) =
              IF ratio >= 1000 THEN 850 + (over * 15) \div 100 ELSE (ratio * 85) \div 100
        BY DEF climbScore
      <3> HIDE DEF ratio
      <3>3. over \in Int
        BY <3>1, MinOfTwo
      <3> HIDE DEF over
      <3> QED BY <3>1, <3>2, <3>3
    <2> QED BY <2>1, <2>2, PartIsQuiet
  <1>2. CASE ~(required # Unset /\ demonstrated # Unset) /\ demonstrated # Unset /\ demonstrated > 0
    <2> DEFINE share == Min({20 * demonstrated, 1000})
    <2>1. climbed(required, demonstrated) = Part(450 + (share * 4) \div 10, "ownClimb")
      BY <1>2 DEF climbed
    <2>2. share \in Int
      <3>1. 20 * demonstrated \in Int
        BY <1>2
      <3> QED BY <3>1, MinOfTwo
    <2> HIDE DEF share
    <2>3. 450 + (share * 4) \div 10 \in Int
      BY <2>2
    <2> QED BY <2>1, <2>3, PartIsQuiet
  <1>3. CASE ~(required # Unset /\ demonstrated # Unset) /\ ~(demonstrated # Unset /\ demonstrated > 0)
    <2> DEFINE p == Part(500, "unsaid")
    <2>1. climbed(required, demonstrated) = p
      BY <1>3 DEF climbed
    <2>2. p.reason = "unsaid" /\ p.score = 500
      BY PartIs
    <2> HIDE DEF p
    <2>3. Quiet(p)
      BY <2>2 DEF Quiet
    <2> QED BY <2>1, <2>3
  <1> QED BY <1>1, <1>2, <1>3

LEMMA FamiliarityIsQuiet ==
  ASSUME NEW part, Quiet(part), NEW distance
  PROVE  Quiet(withFamiliarity(part, distance))
  <1>1. CASE distance # Unset /\ distance \in -12..12
    <2> DEFINE reason == IF part.reason = "unsaid" THEN "sameStart" ELSE part.reason
    <2>1. withFamiliarity(part, distance) = Part(part.score + 80, reason)
      BY <1>1 DEF withFamiliarity
    <2>2. reason \notin {"noData", "similarClimb", "unsaid"}
      <3>1. part.reason \notin {"noData", "similarClimb"}
        BY DEF Quiet
      <3> QED BY <3>1
    <2>3. part.score + 80 \in Int
      BY QuietScore
    <2> HIDE DEF reason
    <2> QED BY <2>1, <2>2, <2>3, PartIsQuiet
  <1>2. CASE ~(distance # Unset /\ distance \in -12..12)
    BY <1>2 DEF withFamiliarity
  <1> QED BY <1>1, <1>2

LEMMA BandIsQuiet ==
  ASSUME NEW part, Quiet(part), NEW s, NEW c
  PROVE  Quiet(withBand(part, s, c))
  <1> DEFINE near == s.ranking # Unset /\ c.toRank # Unset /\ 2 * c.toRank <= 3 * s.ranking
  <1>1. CASE near
    <2>1. withBand(part, s, c) = Part(part.score + 60, "specialization")
      BY <1>1 DEF withBand
    <2>2. part.score + 60 \in Int
      BY QuietScore
    <2> QED BY <2>1, <2>2, PartIsQuiet
  <1>2. CASE ~near
    BY <1>2 DEF withBand
  <1> QED BY <1>1, <1>2

\* Where the coach's students gained too little to say so, the part still scores less than 620.
LEMMA OutcomesAreQuiet ==
  ASSUME NEW part, Quiet(part), NEW c, c.medianGain \in Int \cup {Unset}, NEW required \in Int \cup {Unset}
  PROVE  /\ withOutcomes(part, c, required).reason \notin {"noData", "similarClimb"}
         /\ withOutcomes(part, c, required).reason = "unsaid" =>
              withOutcomes(part, c, required).score \in Int /\ withOutcomes(part, c, required).score < 620
  <1> DEFINE known == c.medianGain # Unset /\ required # Unset /\ required > 0
  <1>1. CASE known
    <2> DEFINE m == c.medianGain
               ratio == (1000 * m) \div required
               reason == IF 10 * m >= 8 * required THEN "studentsGained" ELSE part.reason
               score == (7 * part.score + 3 * clamp01(ratio)) \div 10
    <2>1. withOutcomes(part, c, required) = Part(score, reason)
      BY <1>1 DEF withOutcomes
    <2>2. m \in Int /\ required \in Int /\ required > 0
      BY <1>1
    <2> HIDE DEF m
    <2>3. ratio \in Int
      <3>1. 1000 * m \in Int
        BY <2>2
      <3> QED BY <2>2, <3>1
    <2>4. 10 * m < 8 * required => ratio < 800
      BY <2>2, ShortOfClimb
    <2> HIDE DEF ratio
    <2>5. clamp01(ratio) \in 0..1000 /\ (10 * m < 8 * required => clamp01(ratio) < 800)
      BY <2>3, <2>4, ClampIs
    <2>6. part.score \in 0..1000
      BY DEF Quiet
    <2> DEFINE share == clamp01(ratio)
               own == part.score
    <2>7. score = (7 * own + 3 * share) \div 10 /\ own \in 0..1000 /\ share \in 0..1000
      BY <2>5, <2>6
    <2>8. (10 * m < 8 * required => share < 800) /\ (part.reason = "unsaid" => own = 500)
      BY <2>5 DEF Quiet
    <2> HIDE DEF share, own, score
    <2>9. score \in 0..1000
      BY <2>7
    <2>10. reason \notin {"noData", "similarClimb"}
      BY DEF Quiet
    <2>11. reason = "unsaid" => score < 620
      <3>1. SUFFICES ASSUME reason = "unsaid" PROVE score < 620
        OBVIOUS
      <3>2. 10 * m < 8 * required /\ part.reason = "unsaid"
        BY <2>2, <3>1
      <3>3. share < 800 /\ own = 500
        BY <2>8, <3>2
      <3> QED BY <2>7, <3>3
    <2> HIDE DEF reason
    <2>12. Part(score, reason).reason = reason /\ Part(score, reason).score = score
      <3>1. Part(score, reason).reason = reason
        BY ReasonOfPart
      <3>2. score \in Int
        BY <2>9
      <3>3. score \in 0..1000 => Part(score, reason).score = score
        BY <3>2, PartIs
      <3> QED BY <2>9, <3>1, <3>3
    <2>13. withOutcomes(part, c, required).reason = reason /\ withOutcomes(part, c, required).score = score
      BY <2>1, <2>12
    <2> QED BY <2>9, <2>10, <2>11, <2>13
  <1>2. CASE ~known
    <2>1. withOutcomes(part, c, required) = part
      BY <1>2 DEF withOutcomes
    <2> QED BY <2>1 DEF Quiet
  <1> QED BY <1>1, <1>2

\* A part is a record of two fields, and stays one.
Whole(part) == part = [score |-> part.score, reason |-> part.reason]

LEMMA PartIsWhole == ASSUME NEW n, NEW reason PROVE Whole(Part(n, reason))
  <1> DEFINE k == clamp01(n)
  <1>1. Part(n, reason) = [score |-> k, reason |-> reason]
    BY DEF Part
  <1> HIDE DEF k
  <1> QED BY <1>1 DEF Whole

LEMMA ClimbedIsWhole ==
  ASSUME NEW required, NEW demonstrated
  PROVE  Whole(climbed(required, demonstrated))
  BY PartIsWhole DEF climbed

LEMMA OutcomesAreWhole ==
  ASSUME NEW required, NEW demonstrated, NEW distance, NEW s, NEW c
  PROVE  Whole(withOutcomes(withBand(withFamiliarity(climbed(required, demonstrated), distance), s, c), c, required))
  <1>1. ASSUME NEW p, Whole(p) PROVE Whole(withFamiliarity(p, distance))
    BY <1>1, PartIsWhole DEF withFamiliarity
  <1>2. ASSUME NEW p, Whole(p) PROVE Whole(withBand(p, s, c))
    BY <1>2, PartIsWhole DEF withBand
  <1>3. ASSUME NEW p, Whole(p) PROVE Whole(withOutcomes(p, c, required))
    BY <1>3, PartIsWhole DEF withOutcomes
  <1> QED BY <1>1, <1>2, <1>3, ClimbedIsWhole

LEMMA NoTrajectory ==
  ASSUME NEW s, isStudent(s), NEW c, isCoach(c)
  PROVE  scoreTrajectory(s, c).reason \in {"noData", "similarClimb"} => ~worthSaying(scoreTrajectory(s, c).score)
  <1> DEFINE required == requiredClimb(s)
             demonstrated == difference(c.finalNet, c.baselineNet)
             distance == difference(c.baselineNet, s.baseNet)
             part == withOutcomes(withBand(withFamiliarity(climbed(required, demonstrated), distance), s, c), c, required)
  <1>1. /\ required \in Int \cup {Unset} /\ demonstrated \in Int \cup {Unset}
        /\ c.medianGain \in Int \cup {Unset}
    BY ClimbIs, DifferenceIs DEF isStudent, isCoach
  <1>2. scoreTrajectory(s, c) =
          IF required = Unset /\ demonstrated = Unset /\ c.medianGain = Unset THEN Part(500, "noData")
          ELSE [part EXCEPT !.reason = IF @ = "unsaid" THEN "similarClimb" ELSE @]
    BY DEF scoreTrajectory, trajectory
  <1> HIDE DEF required, demonstrated, distance
  <1>3. Quiet(withBand(withFamiliarity(climbed(required, demonstrated), distance), s, c))
    BY <1>1, ClimbedIsQuiet, FamiliarityIsQuiet, BandIsQuiet
  <1>4. /\ part.reason \notin {"noData", "similarClimb"}
        /\ part.reason = "unsaid" => part.score \in Int /\ part.score < 620
    BY <1>1, <1>3, OutcomesAreQuiet
  <1>5. part = [score |-> part.score, reason |-> part.reason]
    BY OutcomesAreWhole DEF Whole
  <1> HIDE DEF part
  <1>6. CASE scoreTrajectory(s, c) = Part(500, "noData")
    <2>1. scoreTrajectory(s, c).score = 500
      BY <1>6, PartIs
    <2> QED BY <2>1 DEF worthSaying
  <1>7. CASE scoreTrajectory(s, c) = [part EXCEPT !.reason = IF @ = "unsaid" THEN "similarClimb" ELSE @]
    <2>1. /\ scoreTrajectory(s, c).score = part.score
          /\ scoreTrajectory(s, c).reason = IF part.reason = "unsaid" THEN "similarClimb" ELSE part.reason
      BY <1>5, <1>7
    <2> QED BY <1>4, <2>1 DEF worthSaying
  <1> QED BY <1>2, <1>6, <1>7

\* A student whose preferences the coach does not meet at all.
LEMMA NoStyle ==
  ASSUME NEW s, isStudent(s), NEW c
  PROVE  scoreStyle(s, c).reason \in {"noPreference", "otherStyle"} => ~worthSaying(scoreStyle(s, c).score)
  <1> DEFINE preferred == s.preferredStyles
             weight == [k \in DOMAIN preferred |-> 1000 \div k]
             possible == SumFunction(weight)
             met == {k \in DOMAIN weight : preferred[k] \in c.styles}
             earned == SumFunctionOnSet(weight, met)
  <1>1. scoreStyle(s, c) = IF preferred = <<>> THEN Part(500, "noPreference")
                           ELSE Part((1000 * earned) \div possible, IF earned > 0 THEN "style" ELSE "otherStyle")
    BY DEF scoreStyle
  <1>2. preferred \in Seq(STRING) /\ DOMAIN preferred = 1..Len(preferred) /\ Len(preferred) \in Nat
    BY DEF isStudent
  <1>3. CASE preferred = <<>>
    <2>1. scoreStyle(s, c).score = 500
      BY <1>1, <1>3, PartIs
    <2> QED BY <2>1 DEF worthSaying
  <1>4. CASE preferred # <<>> /\ earned > 0
    <2>1. scoreStyle(s, c).reason = "style"
      BY <1>1, <1>4, ReasonOfPart
    <2> QED BY <2>1
  <1>5. CASE preferred # <<>> /\ ~(earned > 0)
    <2>1. DOMAIN weight = 1..Len(preferred) /\ IsFiniteSet(DOMAIN weight) /\ 1 \in DOMAIN weight
      <3>1. Len(preferred) # 0
        BY <1>2, <1>5
      <3>2. DOMAIN weight = 1..Len(preferred)
        BY <1>2
      <3>3. IsFiniteSet(1..Len(preferred)) /\ 1 \in 1..Len(preferred)
        BY <1>2, <3>1, FS_Interval
      <3> HIDE DEF weight
      <3> QED BY <3>2, <3>3
    <2>2. \A k \in DOMAIN weight : weight[k] \in Nat
      <3> SUFFICES ASSUME NEW k \in DOMAIN preferred PROVE 1000 \div k \in Nat
        OBVIOUS
      <3>1. k \in Nat /\ k >= 1
        BY <1>2
      <3> QED BY <3>1
    <2>3. weight[1] = 1000
      BY <2>1
    <2>4. possible = SumFunctionOnSet(weight, DOMAIN weight)
      BY DEF SumFunction, SumFunctionOnSet, FoldFunction
    <2>5. met \in SUBSET DOMAIN weight
      OBVIOUS
    <2> HIDE DEF weight, met, possible
    <2>6. earned \in Nat
      BY <2>1, <2>2, <2>5, SumOfPart
    <2>7. possible \in Nat /\ possible >= 1000
      <3>1. possible = weight[1] + SumFunctionOnSet(weight, DOMAIN weight \ {1})
        BY <2>1, <2>2, <2>4, SumWithout
      <3>2. SumFunctionOnSet(weight, DOMAIN weight \ {1}) \in Nat
        BY <2>1, <2>2, SumOfPart
      <3> QED BY <2>3, <3>1, <3>2
    <2> HIDE DEF earned
    <2>8. (1000 * earned) \div possible = 0
      <3>1. earned = 0
        BY <1>5, <2>6
      <3>2. 1000 * earned = 0
        BY <3>1
      <3>3. 0 \div possible = 0
        BY <2>7
      <3> QED BY <3>2, <3>3
    <2>9. scoreStyle(s, c).score = 0
      BY <1>1, <1>5, <2>8, PartIs
    <2> QED BY <2>9 DEF worthSaying
  <1> QED BY <1>3, <1>4, <1>5

LEMMA NoAvailability ==
  ASSUME NEW s, NEW c
  PROVE  scoreAvailability(s, c).reason \in {"noAvailability", "noSharedHour"} =>
           ~worthSaying(scoreAvailability(s, c).score)
  <1> DEFINE shared == intersectWindows(s.availability, c.availability)
             coverage == clamp01((1000 * totalMinutes(shared)) \div Max({60, s.weeklyMinutes}))
             spread == clamp01((1000 * Cardinality(coveredWeekdays(shared))) \div 3)
             n == (7 * coverage + 3 * spread) \div 10
  <1>1. scoreAvailability(s, c) = IF s.availability = {} THEN Part(500, "noAvailability")
                                  ELSE IF shared = {} THEN Part(0, "noSharedHour") ELSE Part(n, "sharedHours")
    BY DEF scoreAvailability
  <1> HIDE DEF shared, n
  <1>2. CASE scoreAvailability(s, c) = Part(500, "noAvailability") \/ scoreAvailability(s, c) = Part(0, "noSharedHour")
    <2>1. scoreAvailability(s, c).score \in {0, 500}
      BY <1>2, PartIs
    <2> QED BY <2>1 DEF worthSaying
  <1>3. CASE scoreAvailability(s, c) = Part(n, "sharedHours")
    <2>1. scoreAvailability(s, c).reason = "sharedHours"
      BY <1>3, ReasonOfPart
    <2> QED BY <2>1
  <1> QED BY <1>1, <1>2, <1>3

LEMMA NoGrade ==
  ASSUME NEW s, NEW c
  PROVE  scoreGradeExperience(s, c).reason = "otherGrade" => ~worthSaying(scoreGradeExperience(s, c).score)
  <1> DEFINE score == IF s.gradeLevel \in c.supportedGrades THEN 800 ELSE 350
             mezun == s.gradeLevel = "MEZUN" /\ c.wasMezun
  <1>1. CASE mezun
    <2>1. scoreGradeExperience(s, c) = Part(score + 200, "mezunToo")
      BY <1>1 DEF scoreGradeExperience
    <2>2. scoreGradeExperience(s, c).reason = "mezunToo"
      BY <2>1, ReasonOfPart
    <2> QED BY <2>2
  <1>2. CASE ~mezun /\ s.gradeLevel \in c.supportedGrades
    <2>1. scoreGradeExperience(s, c) = Part(800, "grade")
      BY <1>2 DEF scoreGradeExperience
    <2>2. scoreGradeExperience(s, c).reason = "grade"
      BY <2>1, ReasonOfPart
    <2> QED BY <2>2
  <1>3. CASE ~mezun /\ ~(s.gradeLevel \in c.supportedGrades)
    <2>1. scoreGradeExperience(s, c) = Part(350, "otherGrade")
      BY <1>3 DEF scoreGradeExperience
    <2>2. scoreGradeExperience(s, c).score = 350
      BY <2>1, PartIs
    <2> QED BY <2>2 DEF worthSaying
  <1> QED BY <1>1, <1>2, <1>3

LEMMA ReputationSays ==
  ASSUME NEW c
  PROVE  scoreReputation(c).reason \in {"rated", "newHere"}
  BY ReasonOfPart DEF scoreReputation


\* The sentences that stand for an answer that is missing or a thing that does not fit.
Hollow == {"noData", "similarClimb", "noPreference", "otherStyle", "noAvailability", "noSharedHour", "otherGrade"}

LEMMA ReasonsOf ==
  ASSUME NEW s, NEW c, isStudent(s), isCoach(c)
  PROVE  /\ scoreTrajectory(s, c).reason \notin {"noPreference", "otherStyle", "noAvailability", "noSharedHour", "otherGrade"}
         /\ scoreStyle(s, c).reason \in {"noPreference", "style", "otherStyle"}
         /\ scoreAvailability(s, c).reason \in {"noAvailability", "noSharedHour", "sharedHours"}
         /\ scoreGradeExperience(s, c).reason \in {"mezunToo", "grade", "otherGrade"}
  <1>1. scoreStyle(s, c).reason \in {"noPreference", "style", "otherStyle"}
    <2> DEFINE weight == [k \in DOMAIN s.preferredStyles |-> 1000 \div k]
               possible == SumFunction(weight)
               earned == SumFunctionOnSet(weight, {k \in DOMAIN weight : s.preferredStyles[k] \in c.styles})
               share == (1000 * earned) \div possible
    <2>1. \/ scoreStyle(s, c) = Part(500, "noPreference")
          \/ scoreStyle(s, c) = Part(share, "style")
          \/ scoreStyle(s, c) = Part(share, "otherStyle")
      BY DEF scoreStyle
    <2> HIDE DEF share
    <2> QED BY <2>1, ReasonOfPart
  <1>2. scoreAvailability(s, c).reason \in {"noAvailability", "noSharedHour", "sharedHours"}
    <2> DEFINE shared == intersectWindows(s.availability, c.availability)
               coverage == clamp01((1000 * totalMinutes(shared)) \div Max({60, s.weeklyMinutes}))
               spread == clamp01((1000 * Cardinality(coveredWeekdays(shared))) \div 3)
               n == (7 * coverage + 3 * spread) \div 10
    <2>1. \/ scoreAvailability(s, c) = Part(500, "noAvailability")
          \/ scoreAvailability(s, c) = Part(0, "noSharedHour")
          \/ scoreAvailability(s, c) = Part(n, "sharedHours")
      BY DEF scoreAvailability
    <2> HIDE DEF n
    <2> QED BY <2>1, ReasonOfPart
  <1>3. scoreGradeExperience(s, c).reason \in {"mezunToo", "grade", "otherGrade"}
    BY ReasonOfPart DEF scoreGradeExperience
  <1>4. scoreTrajectory(s, c).reason \in {"noData", "similarClimb", "climb", "ownClimb", "sameStart",
                                          "specialization", "studentsGained"}
    <2> DEFINE required == requiredClimb(s)
               demonstrated == difference(c.finalNet, c.baselineNet)
               distance == difference(c.baselineNet, s.baseNet)
               a == climbed(required, demonstrated)
               b == withFamiliarity(a, distance)
               d == withBand(b, s, c)
               e == withOutcomes(d, c, required)
               said == {"unsaid", "climb", "ownClimb", "sameStart", "specialization", "studentsGained"}
    <2>1. \/ scoreTrajectory(s, c) = Part(500, "noData")
          \/ scoreTrajectory(s, c) = [e EXCEPT !.reason = IF @ = "unsaid" THEN "similarClimb" ELSE @]
      BY DEF scoreTrajectory, trajectory
    <2>2. e = [score |-> e.score, reason |-> e.reason]
      BY OutcomesAreWhole DEF Whole
    <2> HIDE DEF e
    <2>3. e.reason \in {d.reason, "studentsGained"}
      BY ReasonOfPart DEF e, withOutcomes
    <2> HIDE DEF d
    <2>4. d.reason \in {b.reason, "specialization"}
      BY ReasonOfPart DEF d, withBand
    <2> HIDE DEF b
    <2>5. b.reason \in {a.reason, "sameStart"}
      BY ReasonOfPart DEF b, withFamiliarity
    <2> HIDE DEF a
    <2>6. a.reason \in {"climb", "ownClimb", "unsaid"}
      BY ReasonOfPart DEF a, climbed
    <2>7. e.reason \in said
      BY <2>3, <2>4, <2>5, <2>6
    <2>8. CASE scoreTrajectory(s, c) = Part(500, "noData")
      BY <2>8, ReasonOfPart
    <2>9. CASE scoreTrajectory(s, c) = [e EXCEPT !.reason = IF @ = "unsaid" THEN "similarClimb" ELSE @]
      <3>1. scoreTrajectory(s, c).reason = IF e.reason = "unsaid" THEN "similarClimb" ELSE e.reason
        BY <2>2, <2>9
      <3> QED BY <2>7, <3>1
    <2> QED BY <2>1, <2>8, <2>9
  <1> QED BY <1>1, <1>2, <1>3, <1>4

\* What is worth a sentence says something.
LEMMA SentencesAreTrue ==
  ASSUME NEW s, NEW c, isStudent(s), isCoach(c)
  PROVE  reasonsShown(dimensions(s, c)) \cap Hollow = {}
  <1> DEFINE parts == dimensions(s, c)
             dims == {"trajectory", "style", "availability", "reputation", "gradeExperience"}
  <1>1. /\ parts["trajectory"] = scoreTrajectory(s, c) /\ parts["style"] = scoreStyle(s, c)
        /\ parts["availability"] = scoreAvailability(s, c) /\ parts["reputation"] = scoreReputation(c)
        /\ parts["gradeExperience"] = scoreGradeExperience(s, c)
    BY DEF dimensions
  <1>2. DOMAIN WEIGHTS \ {"budget", "trackDepth"} = dims
    BY DEF WEIGHTS
  <1> HIDE DEF parts
  <1>3. \A x \in reasonsShown(parts) : \E d \in dims : worthSaying(parts[d].score) /\ x = parts[d].reason
    <2> HIDE DEF dims
    <2> QED BY <1>2 DEF reasonsShown
  <1>4. ASSUME NEW d \in dims, parts[d].reason \in Hollow PROVE ~worthSaying(parts[d].score)
    <2>1. CASE d = "trajectory"
      <3>1. scoreTrajectory(s, c).reason \in {"noData", "similarClimb"}
        BY <1>1, <1>4, <2>1, ReasonsOf DEF Hollow
      <3> QED BY <1>1, <2>1, <3>1, NoTrajectory
    <2>2. CASE d = "style"
      <3>1. scoreStyle(s, c).reason \in {"noPreference", "otherStyle"}
        BY <1>1, <1>4, <2>2, ReasonsOf DEF Hollow
      <3> QED BY <1>1, <2>2, <3>1, NoStyle
    <2>3. CASE d = "availability"
      <3>1. scoreAvailability(s, c).reason \in {"noAvailability", "noSharedHour"}
        BY <1>1, <1>4, <2>3, ReasonsOf DEF Hollow
      <3> QED BY <1>1, <2>3, <3>1, NoAvailability
    <2>4. CASE d = "reputation"
      BY <1>1, <1>4, <2>4, ReputationSays DEF Hollow
    <2>5. CASE d = "gradeExperience"
      <3>1. scoreGradeExperience(s, c).reason = "otherGrade"
        BY <1>1, <1>4, <2>5, ReasonsOf DEF Hollow
      <3> QED BY <1>1, <2>5, <3>1, NoGrade
    <2> QED BY <2>1, <2>2, <2>3, <2>4, <2>5
  <1>5. reasonsShown(parts) \cap Hollow = {}
    BY <1>3, <1>4
  <1> QED BY <1>5 DEF parts

\* Two who have no minute in common share no window, and are told so.
LEMMA NoHourIsSaid ==
  ASSUME NEW s, NEW c, isStudent(s), isCoach(c), s.availability # {},
         minutesOf(s.availability) \cap minutesOf(c.availability) = {}
  PROVE  "hoursDoNotMeet" \in caveats(c, dimensions(s, c))
  <1> DEFINE shared == intersectWindows(s.availability, c.availability)
  <1>1. areWindows(shared) /\ minutesOf(shared) = {} /\ \A w \in shared : isValidWindow(w)
    BY SharedMinutes DEF isStudent, isCoach
  <1>2. shared = {}
    <2> HIDE DEF shared
    <2>1. SUFFICES ASSUME NEW w \in shared PROVE FALSE
      OBVIOUS
    <2>2. isValidWindow(w) /\ w.startMinute \in Int /\ w.endMinute \in Int /\ w.startMinute < w.endMinute
      <3>1. w \in Windows /\ isValidWindow(w)
        BY <1>1 DEF areWindows, Windows
      <3> QED BY <3>1, WindowIs DEF isValidWindow
    <2>3. <<w.weekday, w.startMinute>> \in minutesOf(shared)
      <3>1. w.startMinute \in w.startMinute .. w.endMinute - 1
        BY <2>2
      <3> QED BY <2>2, <3>1 DEF minutesOf
    <2> QED BY <1>1, <2>3
  <1>3. scoreAvailability(s, c) = Part(0, "noSharedHour")
    BY <1>2 DEF scoreAvailability
  <1>4. dimensions(s, c).availability.score = 0
    BY <1>3, PartIs DEF dimensions
  <1> QED BY <1>4 DEF caveats

\* A coach who passes the query has a price; if none is within the budget, the one compared is not.
LEMMA NoPriceIsSaid ==
  ASSUME NEW s, NEW c, isStudent(s), isCoach(c), hardFilters(s, c), s.maxMinor # Unset,
         \A p \in c.pricing : p.priceMinor > s.maxMinor
  PROVE  "overBudget" \in caveats(c, dimensions(s, c))
  <1> DEFINE price == priceFor(s, c)
             preferred == {p \in c.pricing : p.cadence = s.cadence}
             prices == {p.priceMinor : p \in c.pricing}
  <1>1. c.pricing # {} /\ IsFiniteSet(c.pricing) /\ s.maxMinor \in Nat /\ \A p \in c.pricing : p.priceMinor \in Nat
    BY DEF hardFilters, isStudent, isCoach
  <1>2. price \in Nat /\ price > s.maxMinor
    <2>1. CASE preferred # {}
      <3>1. (CHOOSE p \in preferred : TRUE) \in preferred
        BY <2>1
      <3>2. (CHOOSE p \in preferred : TRUE) \in c.pricing
        BY <3>1
      <3>3. price = (CHOOSE p \in preferred : TRUE).priceMinor
        BY <2>1 DEF priceFor
      <3> HIDE DEF preferred, price
      <3> QED BY <1>1, <3>2, <3>3
    <2>2. CASE preferred = {}
      <3>1. price = Min(prices)
        BY <2>2 DEF priceFor
      <3>2. IsFiniteSet(prices)
        <4> DEFINE f == [p \in c.pricing |-> p.priceMinor]
        <4>1. IsFiniteSet({f[p] : p \in c.pricing})
          <5> HIDE DEF f
          <5> QED BY <1>1, ImageIsFinite
        <4> QED BY <4>1
      <3>3. prices # {} /\ prices \subseteq Int
        BY <1>1
      <3>4. \A n \in prices : n \in Nat /\ n > s.maxMinor
        BY <1>1
      <3> HIDE DEF prices, price
      <3>5. Min(prices) \in prices
        BY <3>2, <3>3, MinOfMany
      <3> QED BY <3>1, <3>4, <3>5
    <2> QED BY <2>1, <2>2
  <1>3. scoreBudget(s, c) = Part(decayed[(100 * (price - s.maxMinor)) \div s.maxMinor], "overBudget")
    <2> HIDE DEF price
    <2>1. ~(price <= s.maxMinor)
      BY <1>1, <1>2
    <2> QED BY <1>1, <2>1 DEF scoreBudget, price
  <1>4. dimensions(s, c).budget.reason = "overBudget"
    BY <1>3, ReasonOfPart DEF dimensions
  <1> QED BY <1>4 DEF caveats

-------------------------------------------------------------------------------
\* Whoever is shown is shown on an honest card, for any student and any coach.
THEOREM CardsAreHonest == MatchingSpec => []MatchIsHonest
  <1>1. ASSUME NEW s, NEW c, isStudent(s), isCoach(c)
        PROVE  honestIfShown(s, c, dimensions(s, c))
    <2>1. SUFFICES ASSUME hardFilters(s, c) PROVE honestCard(s, c, dimensions(s, c))
      BY DEF honestIfShown, isShown
    <2>2. reasonsShown(dimensions(s, c)) \cap Hollow = {}
      BY <1>1, SentencesAreTrue
    <2>3. s.availability # {} /\ minutesOf(s.availability) \cap minutesOf(c.availability) = {} =>
            "hoursDoNotMeet" \in caveats(c, dimensions(s, c))
      BY <1>1, NoHourIsSaid
    <2>4. s.maxMinor # Unset /\ (\A p \in c.pricing : p.priceMinor > s.maxMinor) =>
            "overBudget" \in caveats(c, dimensions(s, c))
      BY <1>1, <2>1, NoPriceIsSaid
    <2> QED BY <2>2, <2>3, <2>4 DEF honestCard, Hollow
  <1>2. MatchingInit => MatchIsHonest
    <2> SUFFICES ASSUME MatchingInit, "coach" \in DOMAIN inquiry
                 PROVE  honestIfShown(inquiry.student, inquiry.coach, dimensions(inquiry.student, inquiry.coach))
      BY DEF MatchIsHonest
    <2>1. inquiry \notin WindowPairs
      BY MatchingAssumption DEF MatchingAssumption
    <2>2. isStudent(inquiry.student) /\ isCoach(inquiry.coach)
      BY <2>1, MatchingAssumption DEF MatchingInit, MatchingAssumption
    <2> QED BY <1>1, <2>2
  <1>3. MatchIsHonest /\ [FALSE]_inquiry => MatchIsHonest'
    BY DEF MatchIsHonest
  <1> QED BY <1>2, <1>3, PTL DEF MatchingSpec
===============================================================================
