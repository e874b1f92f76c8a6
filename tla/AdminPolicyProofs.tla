-------------------------- MODULE AdminPolicyProofs --------------------------
(***************************************************************************)
(* Proofs about AdminPolicy, for every set of headers, extensions,         *)
(* administrators and developers and every source: the include parser      *)
(* refuses what the compiler would include and the policy does not allow,  *)
(* jobs meet the policy, the audit log tells it, and requests are approved *)
(* and recorded once.                                                      *)
(*                                                                         *)
(* What a recursive function computes is proved position by position:      *)
(* AllPositions takes the place of induction.                              *)
(***************************************************************************)
EXTENDS AdminPolicy, FiniteSetTheorems, SequenceTheorems, WellFoundedInduction, TLAPS

-----------------------------------------------------------------------------
(* Positions and recursive functions                                       *)

(* Every set of naturals that is not empty has a least element: what takes *)
(* the place of induction below.                                           *)
LEMMA LeastNat ==
    ASSUME NEW T, T \subseteq Nat, T # {}
    PROVE  \E x \in T : \A y \in T : x <= y
  <1> DEFINE R == OpToRel(<, Nat)
  <1>1. IsWellFoundedOn(R, Nat)
    BY NatLessThanWellFounded, Zenon
  <1>2. \A x, y \in Nat : y < x => <<y, x>> \in R
    BY DEF OpToRel
  <1> HIDE DEF R
  <1>3. PICK x \in T : \A y \in T : ~ (<<y, x>> \in R)
    BY <1>1, WFMin, Zenon
  <1>4. \A y \in T : ~(y < x)
    BY <1>2, <1>3
  <1> QED
    BY <1>4

(* A set of positions that holds 0 and, with every position, the next one. *)
LEMMA AllPositions ==
    ASSUME NEW n \in Nat, NEW S, 0 \in S, \A i \in 1 .. n : i - 1 \in S => i \in S
    PROVE  0 .. n \subseteq S
  <1> DEFINE T == {i \in Nat : i <= n /\ i \notin S}
  <1> SUFFICES ASSUME T # {} PROVE FALSE
    OBVIOUS
  <1>1. PICK i \in T : \A j \in T : i <= j
    BY LeastNat
  <1>2. i # 0 /\ i \in 1 .. n /\ i - 1 \in Nat
    BY <1>1
  <1>3. i - 1 \notin T
    BY <1>1, <1>2
  <1> QED
    BY <1>1, <1>2, <1>3

(* f is computed position by position, by the steps G, within T.           *)
Computes(f, n, T, base, G) ==
    /\ f \in [0 .. n -> T]
    /\ f[0] = base
    /\ \A i \in 1 .. n : f[i] = G[i][f[i - 1]]

(* There is such a function: what a recursive definition relies on.        *)
LEMMA RecursionExists ==
    ASSUME NEW n \in Nat, NEW T, NEW base \in T, NEW G, \A i \in 1 .. n : \A x \in T : G[i][x] \in T
    PROVE  \E f : Computes(f, n, T, base, G)
  <1> DEFINE U == {k \in 0 .. n : \E f : Computes(f, k, T, base, G)}
  <1>1. 0 \in U
    <2>1. Computes([i \in 0 .. 0 |-> base], 0, T, base, G)
      BY DEF Computes
    <2> QED
      BY <2>1
  <1>2. ASSUME NEW k \in 1 .. n, k - 1 \in U
        PROVE  k \in U
    <2>1. PICK f : Computes(f, k - 1, T, base, G)
      BY <1>2
    <2>2. k - 1 \in Nat /\ 0 .. k = (0 .. k - 1) \cup {k} /\ k \notin 0 .. k - 1
      OBVIOUS
    <2>3. PICK y \in T : y = G[k][f[k - 1]]
      BY <2>1, <2>2 DEF Computes
    <2>4. PICK g : g = [i \in 0 .. k |-> IF i = k THEN y ELSE f[i]]
      OBVIOUS
    <2>5. g[k] = y /\ \A i \in 0 .. k - 1 : g[i] = f[i] /\ f[i] \in T
      BY <2>1, <2>2, <2>4 DEF Computes
    <2>6. g \in [0 .. k -> T]
      BY <2>2, <2>4, <2>5
    <2>7. \A i \in 1 .. k : g[i] = G[i][g[i - 1]]
      <3> SUFFICES ASSUME NEW i \in 1 .. k PROVE g[i] = G[i][g[i - 1]]
        OBVIOUS
      <3>1. i - 1 \in 0 .. k - 1 /\ g[i - 1] = f[i - 1]
        BY <2>5
      <3>2. CASE i = k
        BY <2>3, <2>5, <3>1, <3>2
      <3>3. CASE i # k
        <4>1. i \in 1 .. k - 1 /\ i \in 0 .. k - 1
          BY <3>3
        <4> QED
          BY <2>1, <2>5, <3>1, <4>1 DEF Computes
      <3> QED
        BY <3>2, <3>3
    <2>8. g[0] = base
      BY <2>1, <2>2, <2>5 DEF Computes
    <2>9. Computes(g, k, T, base, G)
      BY <2>6, <2>7, <2>8 DEF Computes
    <2> QED
      BY <2>9
  <1>3. n \in U
    <2> HIDE DEF U
    <2>1. \A k \in 1 .. n : k - 1 \in U => k \in U
      BY <1>2
    <2> QED
      BY <1>1, <2>1, AllPositions
  <1> QED
    BY <1>3

-----------------------------------------------------------------------------
(* _strip_comments *)

LEMMA ModeType ==
    ASSUME NEW source, NEW m, NEW i
    PROVE  ModeAfter(source, m, i) \in Modes
  BY DEF ModeAfter, Modes

(* Scan is the loop: its value before the first character, and after each. *)
LEMMA ScanValue ==
    ASSUME NEW source \in Seq(Characters)
    PROVE  /\ Scan(source) \in [0 .. Len(source) -> Modes]
           /\ Scan(source)[0] = "code"
           /\ \A i \in 1 .. Len(source) :
                Scan(source)[i] = ModeAfter(source, Scan(source)[i - 1], i)
  <1>1. PICK n \in Nat : n = Len(source)
    OBVIOUS
  <1> DEFINE Is(f) == f = [i \in 0 .. n |-> IF i = 0 THEN "code" ELSE ModeAfter(source, f[i - 1], i)]
  <1>2. \E f : Is(f)
    <2>1. PICK G : G = [i \in 1 .. n |-> [m \in Modes |-> ModeAfter(source, m, i)]]
      OBVIOUS
    <2>2. \A i \in 1 .. n : \A m \in Modes : G[i][m] = ModeAfter(source, m, i)
      BY <2>1
    <2>3. "code" \in Modes
      BY DEF Modes
    <2>4. \A i \in 1 .. n : \A m \in Modes : G[i][m] \in Modes
      BY <2>2, ModeType
    <2>5. PICK f : Computes(f, n, Modes, "code", G)
      BY <2>3, <2>4, RecursionExists
    <2>6. \A i \in 0 .. n : f[i] = IF i = 0 THEN "code" ELSE ModeAfter(source, f[i - 1], i)
      BY <2>2, <2>5 DEF Computes
    <2>7. f = [i \in 0 .. n |-> f[i]]
      BY <2>5 DEF Computes
    <2> QED
      BY <2>6, <2>7
  <1>3. Scan(source) = CHOOSE f : Is(f)
    BY <1>1 DEF Scan
  <1>4. Is(Scan(source))
    <2> HIDE DEF Is
    <2> QED
      BY <1>2, <1>3, Zenon
  <1>5. PICK f : f = Scan(source)
    OBVIOUS
  <1>6. f = [i \in 0 .. n |-> IF i = 0 THEN "code" ELSE ModeAfter(source, f[i - 1], i)]
    BY <1>4, <1>5
  <1>7. f[0] = "code" /\ \A i \in 1 .. n : f[i] = ModeAfter(source, f[i - 1], i)
    BY <1>6
  <1>8. \A i \in 0 .. n : f[i] \in Modes
    <2>1. \A i \in 0 .. n : i = 0 \/ i \in 1 .. n
      OBVIOUS
    <2>2. "code" \in Modes
      BY DEF Modes
    <2> QED
      BY <1>7, <2>1, <2>2, ModeType
  <1>9. f \in [0 .. n -> Modes]
    BY <1>6, <1>8
  <1> QED
    BY <1>1, <1>5, <1>7, <1>9

-----------------------------------------------------------------------------
(* Comments *)

LEMMA LeastOf ==
    ASSUME NEW S, S \subseteq Nat, S # {}
    PROVE  Min(S) \in S /\ \A y \in S : Min(S) <= y
  <1>1. \E x \in S : \A y \in S : x <= y
    BY LeastNat
  <1> QED
    BY <1>1, Zenon DEF Min

(* A source is a function on its positions. *)
LEMMA SourceType ==
    ASSUME NEW source \in Seq(Characters)
    PROVE  /\ Len(source) \in Nat /\ DOMAIN source = 1 .. Len(source)
           /\ \A i \in 1 .. Len(source) : source[i] \in Characters
  OBVIOUS

Closes(source, q) == source[q - 1] = "*" /\ source[q] = "/"

(* The last position of a comment: that of its first closing mark, or the  *)
(* one before its first line end, or that of the source.                   *)
LEMMA CloserValue ==
    ASSUME NEW source \in Seq(Characters), NEW c \in Openers(source)
    PROVE  /\ c \in 1 .. Len(source) /\ c + 1 <= Len(source) /\ source[c] = "/"
           /\ Closer(source, c) \in c + 1 .. Len(source)
           /\ source[c + 1] \in {"*", "/"}
           /\ source[c + 1] = "*" =>
                \A q \in c + 3 .. Len(source) : Closes(source, q) => Closer(source, c) <= q
           /\ source[c + 1] = "*" =>
                \A q \in c + 3 .. Closer(source, c) - 1 : ~Closes(source, q)
           /\ source[c + 1] = "*" /\ Closer(source, c) # Len(source) =>
                Closer(source, c) >= c + 3 /\ Closes(source, Closer(source, c))
           /\ source[c + 1] = "/" =>
                \A r \in c .. Closer(source, c) : source[r] # "\n"
           /\ source[c + 1] = "/" /\ Closer(source, c) # Len(source) =>
                source[Closer(source, c) + 1] = "\n"
  <1>1. PICK n \in Nat : n = Len(source) /\ DOMAIN source = 1 .. n
    BY SourceType
  <1>2. /\ c \in 1 .. n /\ c + 1 <= n /\ c \in Nat /\ source[c] = "/"
        /\ source[c + 1] = "*" \/ source[c + 1] = "/"
    BY <1>1 DEF Openers, Starts
  <1>3. CASE source[c + 1] = "*"
    <2> DEFINE ends == {q \in c + 3 .. n : Closes(source, q)}
    <2>1. Closer(source, c) = IF ends = {} THEN n ELSE Min(ends)
      BY <1>1, <1>3 DEF Closer, Closes
    <2>2. ends \subseteq Nat
      BY <1>2
    <2>3. ends # {} => Min(ends) \in ends /\ \A y \in ends : Min(ends) <= y
      <3> HIDE DEF ends
      <3> QED
        BY <2>2, LeastOf
    <2>4. PICK e : e = Closer(source, c)
      OBVIOUS
    <2>5. e \in c + 1 .. n /\ \A q \in c + 3 .. n : Closes(source, q) => e <= q
      BY <1>2, <2>1, <2>3, <2>4
    <2>6. \A q \in c + 3 .. e - 1 : ~Closes(source, q)
      BY <1>2, <2>5
    <2>7. e # n => e >= c + 3 /\ Closes(source, e)
      BY <1>2, <2>1, <2>3, <2>4
    <2> QED
      BY <1>1, <1>2, <1>3, <2>4, <2>5, <2>6, <2>7
  <1>4. CASE source[c + 1] = "/"
    <2> DEFINE breaks == {r \in c .. n : source[r] = "\n"}
               ends == {q - 1 : q \in breaks}
    <2>1. Closer(source, c) = IF ends = {} THEN n ELSE Min(ends)
      BY <1>1, <1>4 DEF Closer
    <2>2. \A r \in breaks : r \in Nat /\ r >= c + 2
      BY <1>2, <1>4
    <2>3. ends \subseteq Nat
      BY <1>2, <2>2
    <2>4. ends # {} => Min(ends) \in ends /\ \A y \in ends : Min(ends) <= y
      <3> HIDE DEF ends
      <3> QED
        BY <2>3, LeastOf
    <2>5. PICK e : e = Closer(source, c)
      OBVIOUS
    <2>6. CASE ends = {}
      <3>1. e = n /\ breaks = {}
        BY <2>1, <2>5, <2>6
      <3>2. \A r \in c .. e : source[r] # "\n"
        BY <3>1
      <3> QED
        BY <1>1, <1>2, <1>4, <2>5, <3>1, <3>2
    <2>7. CASE ends # {}
      <3>1. PICK b \in breaks : e = b - 1
        BY <2>1, <2>4, <2>5, <2>7
      <3>2. \A y \in breaks : b <= y
        <4> SUFFICES ASSUME NEW y \in breaks PROVE b <= y
          OBVIOUS
        <4>1. y - 1 \in ends
          OBVIOUS
        <4>2. e <= y - 1
          BY <2>1, <2>4, <2>5, <2>7, <4>1
        <4> QED
          BY <1>2, <3>1, <4>2
      <3>3. e \in c + 1 .. n /\ source[e + 1] = "\n"
        BY <1>2, <2>2, <3>1
      <3>4. \A r \in c .. e : source[r] # "\n"
        BY <1>2, <3>1, <3>2
      <3> QED
        BY <1>1, <1>2, <1>4, <2>5, <3>3, <3>4
    <2> QED
      BY <2>6, <2>7
  <1> QED
    BY <1>2, <1>3, <1>4

(* The marks at which the loop enters a comment. *)
Entered(source) == {p \in 1 .. Len(source) : Scan(source)[p - 1] = "code" /\ Scan(source)[p] # "code"}

LEMMA EnteredIsOpener ==
    ASSUME NEW source \in Seq(Characters)
    PROVE  /\ Entered(source) \subseteq Openers(source)
           /\ \A p \in Openers(source) :
                p \in Entered(source) <=> Scan(source)[p - 1] = "code"
           /\ \A p \in Entered(source) :
                Scan(source)[p] = IF source[p + 1] = "*" THEN "opened" ELSE "line"
  <1>1. PICK n \in Nat : n = Len(source) /\ DOMAIN source = 1 .. n
    BY SourceType
  <1>2. ASSUME NEW p \in 1 .. n, Scan(source)[p - 1] = "code"
        PROVE  /\ Scan(source)[p] # "code" <=> p \in Openers(source)
               /\ Scan(source)[p] # "code" =>
                    Scan(source)[p] = IF source[p + 1] = "*" THEN "opened" ELSE "line"
    <2>1. Scan(source)[p] = ModeAfter(source, "code", p)
      BY <1>1, <1>2, ScanValue
    <2> QED
      BY <1>1, <2>1 DEF ModeAfter, Openers, Starts
  <1>3. Openers(source) \subseteq 1 .. n
    BY <1>1 DEF Openers
  <1> QED
    BY <1>1, <1>2, <1>3 DEF Entered

(* While the loop is in a comment, it is in the one that it entered last.  *)
Within(source, c, i) ==
    LET mode == Scan(source)[i] IN
    /\ c \in Entered(source) /\ c <= i
    /\ source[c + 1] = IF mode = "line" THEN "/" ELSE "*"
    /\ mode = "opened" => c = i
    /\ mode = "block" =>
            c + 1 <= i /\ \A q \in c + 3 .. i + 1 : q <= Len(source) => ~Closes(source, q)
    /\ mode = "closed" =>
            /\ c + 2 <= i /\ i < Len(source) /\ Closes(source, i + 1)
            /\ \A q \in c + 3 .. i : ~Closes(source, q)
    /\ mode = "line" => \A r \in c .. i : source[r] # "\n"

LEMMA InsideIsWithin ==
    ASSUME NEW source \in Seq(Characters)
    PROVE  \A i \in 0 .. Len(source) :
                Scan(source)[i] # "code" => \E c \in 1 .. i : Within(source, c, i)
  <1>1. PICK n \in Nat : n = Len(source) /\ DOMAIN source = 1 .. n
    BY SourceType
  <1>2. PICK mode : mode = Scan(source)
    OBVIOUS
  <1>3. mode[0] = "code" /\ \A i \in 1 .. n : mode[i] = ModeAfter(source, mode[i - 1], i) /\ mode[i] \in Modes
    BY <1>1, <1>2, ScanValue, ModeType
  <1> DEFINE S == {i \in 0 .. n : mode[i] # "code" => \E c \in 1 .. i : Within(source, c, i)}
  <1>4. 0 \in S
    BY <1>3
  <1>5. ASSUME NEW i \in 1 .. n, i - 1 \in S, mode[i] # "code"
        PROVE  \E c \in 1 .. i : Within(source, c, i)
    <2>1. CASE mode[i - 1] = "code"
      <3>1. i \in Entered(source)
        BY <1>1, <1>2, <1>5, <2>1 DEF Entered
      <3>2. mode[i] = IF source[i + 1] = "*" THEN "opened" ELSE "line"
        BY <1>2, <3>1, EnteredIsOpener
      <3>3. source[i] = "/" /\ source[i + 1] \in {"*", "/"}
        BY <3>1, EnteredIsOpener, CloserValue
      <3>4. Within(source, i, i)
        BY <1>2, <3>1, <3>2, <3>3 DEF Within
      <3> QED
        BY <3>4
    <2>2. CASE mode[i - 1] # "code"
      <3>1. PICK c \in 1 .. i - 1 : Within(source, c, i - 1)
        BY <1>5, <2>2
      <3>2. mode[i - 1] \in Modes
        BY <1>3, <2>2
      <3>3. source[c + 1] \in {"*", "/"} /\ source[c + 1] # "\n"
        BY <3>1, EnteredIsOpener, CloserValue DEF Within
      <3>4. mode[i] = ModeAfter(source, mode[i - 1], i)
        BY <1>3
      <3>5. CASE mode[i - 1] = "opened"
        <4>1. mode[i] = "block"
          BY <3>4, <3>5 DEF ModeAfter
        <4>2. Within(source, c, i)
          BY <1>1, <1>2, <3>1, <3>5, <4>1 DEF Within
        <4> QED
          BY <4>2
      <3>6. CASE mode[i - 1] = "closed"
        BY <1>5, <3>4, <3>6 DEF ModeAfter
      <3>7. CASE mode[i - 1] = "block"
        <4>1. /\ c + 1 <= i - 1 /\ c \in Entered(source) /\ source[c + 1] = "*"
              /\ \A q \in c + 3 .. i : q <= n => ~Closes(source, q)
          BY <1>1, <1>2, <3>1, <3>7 DEF Within
        <4>2. CASE i < n /\ Closes(source, i + 1)
          <5>1. mode[i] = "closed"
            BY <1>1, <3>4, <3>7, <4>2 DEF ModeAfter, Starts, Closes
          <5>2. Within(source, c, i)
            BY <1>1, <1>2, <4>1, <4>2, <5>1 DEF Within
          <5> QED
            BY <5>2
        <4>3. CASE ~(i < n /\ Closes(source, i + 1))
          <5>1. mode[i] = "block"
            BY <1>1, <3>4, <3>7, <4>3 DEF ModeAfter, Starts, Closes
          <5>2. \A q \in c + 3 .. i + 1 : q <= n => ~Closes(source, q)
            BY <4>1, <4>3
          <5>3. Within(source, c, i)
            BY <1>1, <1>2, <4>1, <5>1, <5>2 DEF Within
          <5> QED
            BY <5>3
        <4> QED
          BY <4>2, <4>3
      <3>8. CASE mode[i - 1] = "line"
        <4>1. mode[i] = "line" /\ source[i] # "\n"
          BY <1>5, <3>4, <3>8 DEF ModeAfter
        <4>2. /\ c <= i - 1 /\ c \in Entered(source) /\ source[c + 1] = "/"
              /\ \A r \in c .. i - 1 : source[r] # "\n"
          BY <1>2, <3>1, <3>8 DEF Within
        <4>3. \A r \in c .. i : source[r] # "\n"
          BY <4>1, <4>2
        <4>4. Within(source, c, i)
          BY <1>1, <1>2, <4>1, <4>2, <4>3 DEF Within
        <4> QED
          BY <4>4
      <3> QED
        BY <2>2, <3>2, <3>5, <3>6, <3>7, <3>8 DEF Modes
    <2> QED
      BY <2>1, <2>2
  <1>6. 0 .. n \subseteq S
    <2>1. \A i \in 1 .. n : i - 1 \in S => i \in S
      BY <1>5
    <2> HIDE DEF S
    <2> QED
      BY <1>4, <2>1, AllPositions
  <1> QED
    BY <1>1, <1>2, <1>6

(* A position that the loop reaches in a comment is part of it, unless it  *)
(* is the end of a line comment.                                           *)
LEMMA InsideIsCommented ==
    ASSUME NEW source \in Seq(Characters), NEW p \in 1 .. Len(source),
           Scan(source)[p - 1] # "code"
    PROVE  \/ \E c \in Entered(source) : c < p /\ p <= Closer(source, c)
           \/ source[p] = "\n" /\ Scan(source)[p - 1] = "line"
  <1>1. PICK n \in Nat : n = Len(source) /\ DOMAIN source = 1 .. n
    BY SourceType
  <1>2. PICK m : m = Scan(source)[p - 1] /\ m \in Modes
    BY ScanValue
  <1>3. PICK c \in 1 .. p - 1 : Within(source, c, p - 1)
    BY InsideIsWithin
  <1>4. c \in Entered(source) /\ c < p
    BY <1>3 DEF Within
  <1>5. c \in Openers(source)
    BY <1>4, EnteredIsOpener
  <1>6. PICK e : e = Closer(source, c) /\ e \in c + 1 .. n
    BY <1>1, <1>5, CloserValue
  <1>7. CASE e < p
    <2>1. e # n
      BY <1>1, <1>7
    <2>2. CASE m = "line"
      <3>1. source[c + 1] = "/" /\ \A r \in c .. p - 1 : source[r] # "\n"
        BY <1>2, <1>3, <2>2 DEF Within
      <3>2. source[e + 1] = "\n"
        BY <1>1, <1>5, <1>6, <2>1, <3>1, CloserValue
      <3>3. e + 1 = p
        BY <1>6, <1>7, <3>1, <3>2
      <3> QED
        BY <1>2, <2>2, <3>2, <3>3
    <2>3. CASE m # "line"
      <3>1. /\ source[c + 1] = "*"
            /\ m = "opened" => c = p - 1
            /\ m = "block" => c + 1 <= p - 1 /\ \A q \in c + 3 .. p : q <= n => ~Closes(source, q)
            /\ m = "closed" => c + 2 <= p - 1 /\ \A q \in c + 3 .. p - 1 : ~Closes(source, q)
        BY <1>1, <1>2, <1>3, <2>3 DEF Within
      <3>2. e >= c + 3 /\ Closes(source, e)
        BY <1>1, <1>5, <1>6, <2>1, <3>1, CloserValue
      <3> QED
        BY <1>1, <1>2, <1>6, <1>7, <2>3, <3>1, <3>2 DEF Modes
    <2> QED
      BY <2>2, <2>3
  <1> QED
    BY <1>1, <1>4, <1>6, <1>7

(* Up to the last position of a comment the loop stays in it.              *)
LEMMA CommentedIsInside ==
    ASSUME NEW source \in Seq(Characters), NEW c \in Entered(source)
    PROVE  \A i \in c .. Closer(source, c) - 1 : Scan(source)[i] # "code"
  <1>1. PICK n \in Nat : n = Len(source) /\ DOMAIN source = 1 .. n
    BY SourceType
  <1>2. PICK mode : mode = Scan(source)
    OBVIOUS
  <1>3. \A i \in 1 .. n : mode[i] = ModeAfter(source, mode[i - 1], i)
    BY <1>1, <1>2, ScanValue
  <1>4. c \in Openers(source) /\ mode[c] = IF source[c + 1] = "*" THEN "opened" ELSE "line"
    BY <1>2, EnteredIsOpener
  <1>5. PICK e : e = Closer(source, c) /\ e \in c + 1 .. n /\ c \in 1 .. n
    BY <1>1, <1>4, CloserValue
  <1>6. CASE source[c + 1] = "*"
    <2> DEFINE P(i) == /\ mode[i] \in {"opened", "block", "closed"}
                       /\ mode[i] = "opened" => i = c
                       /\ mode[i] = "closed" => i = e - 1
               S == {i \in 0 .. n : i \in c .. e - 1 => P(i)}
    <2>1. 0 \in S
      BY <1>5
    <2>2. ASSUME NEW i \in 1 .. n, i - 1 \in S, i \in c .. e - 1
          PROVE  P(i)
      <3>1. CASE i = c
        BY <1>4, <1>6, <3>1
      <3>2. CASE i # c
        <4>1. i - 1 \in c .. e - 1 /\ i - 1 # e - 1
          BY <1>5, <2>2, <3>2
        <4>2. P(i - 1)
          BY <2>2, <4>1
        <4>3. CASE mode[i - 1] = "opened"
          BY <1>3, <3>2, <4>3 DEF ModeAfter
        <4>4. CASE mode[i - 1] = "block"
          <5>1. i - 1 # c
            BY <1>4, <1>6, <4>4
          <5>2. mode[i] = IF Starts(source, i, "*", "/") THEN "closed" ELSE "block"
            BY <1>3, <4>4 DEF ModeAfter
          <5>3. Starts(source, i, "*", "/") => i = e - 1
            <6> SUFFICES ASSUME Starts(source, i, "*", "/") PROVE i = e - 1
              OBVIOUS
            <6>1. i + 1 \in c + 3 .. n /\ Closes(source, i + 1)
              BY <1>1, <1>5, <4>1, <5>1 DEF Starts, Closes
            <6>2. e <= i + 1
              BY <1>1, <1>4, <1>5, <1>6, <6>1, CloserValue
            <6> QED
              BY <1>5, <2>2, <6>2
          <5> QED
            BY <5>2, <5>3
        <4> QED
          BY <4>1, <4>2, <4>3, <4>4
      <3> QED
        BY <3>1, <3>2
    <2>3. 0 .. n \subseteq S
      <3>1. \A i \in 1 .. n : i - 1 \in S => i \in S
        BY <2>2
      <3> HIDE DEF S
      <3> QED
        BY <2>1, <3>1, AllPositions
    <2> QED
      BY <1>2, <1>5, <2>3
  <1>7. CASE source[c + 1] # "*"
    <2> DEFINE S == {i \in 0 .. n : i \in c .. e - 1 => mode[i] = "line"}
    <2>1. 0 \in S
      BY <1>5
    <2>2. \A r \in c .. e : source[r] # "\n"
      BY <1>1, <1>4, <1>5, <1>7, CloserValue
    <2>3. ASSUME NEW i \in 1 .. n, i - 1 \in S, i \in c .. e - 1
          PROVE  mode[i] = "line"
      <3>1. CASE i = c
        BY <1>4, <1>7, <3>1
      <3>2. CASE i # c
        <4>1. mode[i - 1] = "line" /\ source[i] # "\n"
          BY <1>5, <2>2, <2>3, <3>2
        <4> QED
          BY <1>3, <4>1 DEF ModeAfter
      <3> QED
        BY <3>1, <3>2
    <2>4. 0 .. n \subseteq S
      <3>1. \A i \in 1 .. n : i - 1 \in S => i \in S
        BY <2>3
      <3> HIDE DEF S
      <3> QED
        BY <2>1, <3>1, AllPositions
    <2> QED
      BY <1>2, <1>5, <2>4
  <1> QED
    BY <1>6, <1>7

(* The marks at which the loop enters a comment are those that do not lie  *)
(* in one: there is one such set only.                                     *)
LEMMA CommentsAreEntered ==
    ASSUME NEW source \in Seq(Characters)
    PROVE  Comments(source) = Entered(source)
  <1> DEFINE last == [p \in Openers(source) |-> Closer(source, p)]
             Right(C) == \A p \in Openers(source) : p \in C <=> ~ \E c \in C : c < p /\ p <= last[c]
  <1>1. Openers(source) \subseteq 1 .. Len(source) /\ Entered(source) \subseteq Openers(source)
    BY SourceType, EnteredIsOpener DEF Openers
  <1>2. Right(Entered(source))
    <2> SUFFICES ASSUME NEW p \in Openers(source)
                 PROVE  p \in Entered(source) <=>
                            ~ \E c \in Entered(source) : c < p /\ p <= Closer(source, c)
      BY <1>1
    <2>1. p \in Entered(source) <=> Scan(source)[p - 1] = "code"
      BY EnteredIsOpener
    <2>2. p \in 1 .. Len(source) /\ source[p] # "\n"
      BY <1>1, CloserValue
    <2>3. ASSUME NEW c \in Entered(source), c < p, p <= Closer(source, c)
          PROVE  Scan(source)[p - 1] # "code"
      <3>1. c \in 1 .. Len(source) /\ Closer(source, c) \in 1 .. Len(source)
        BY <1>1, CloserValue
      <3>2. p - 1 \in c .. Closer(source, c) - 1
        BY <2>2, <2>3, <3>1
      <3> QED
        BY <3>2, CommentedIsInside
    <2>4. Scan(source)[p - 1] # "code" =>
            \E c \in Entered(source) : c < p /\ p <= Closer(source, c)
      BY <2>2, InsideIsCommented
    <2> QED
      BY <2>1, <2>3, <2>4
  <1>3. ASSUME NEW C \in SUBSET Openers(source), NEW D \in SUBSET Openers(source), Right(C), Right(D)
        PROVE  C = D
    <2> DEFINE T == {p \in Openers(source) : ~(p \in C <=> p \in D)}
    <2> SUFFICES ASSUME T # {} PROVE FALSE
      OBVIOUS
    <2>1. T \subseteq Nat
      BY <1>1
    <2>2. PICK p \in T : \A q \in T : p <= q
      <3> HIDE DEF T
      <3> QED
        BY <2>1, LeastNat
    <2>3. \A q \in Openers(source) : q < p => (q \in C <=> q \in D)
      BY <1>1, <2>2
    <2> QED
      BY <1>3, <2>2, <2>3
  <1>4. Comments(source) = CHOOSE C \in SUBSET Openers(source) : Right(C)
    BY DEF Comments, Regions
  <1>5. Comments(source) \in SUBSET Openers(source) /\ Right(Comments(source))
    <2> HIDE DEF Right
    <2> QED
      BY <1>1, <1>2, <1>4, Zenon
  <1>6. Entered(source) \in SUBSET Openers(source)
    BY <1>1
  <1> QED
    BY <1>2, <1>3, <1>5, <1>6

(* _strip_comments replaces by blanks what lies in a comment, keeps the    *)
(* line ends, and changes nothing else, whatever the source.               *)
THEOREM CommentsAreStripped ==
    ASSUME NEW source \in Seq(Characters)
    PROVE  StripComments(source) = Uncommented(source)
  <1>1. PICK n \in Nat : n = Len(source) /\ DOMAIN source = 1 .. n
    BY SourceType
  <1>2. PICK mode : mode = Scan(source)
    OBVIOUS
  <1>3. ASSUME NEW p \in 1 .. n
        PROVE  (IF mode[p - 1] = "code" /\ mode[p] = "code" THEN source[p] ELSE Blanked(source[p]))
                = (IF p \in Commented(source) THEN Blanked(source[p]) ELSE source[p])
    <2>1. p \in Commented(source) <=> \E c \in Entered(source) : p \in c .. Closer(source, c)
      BY CommentsAreEntered DEF Commented
    <2>2. CASE p \in Commented(source)
      <3>1. PICK c \in Entered(source) : p \in c .. Closer(source, c)
        BY <2>1, <2>2
      <3>2. c \in 1 .. n /\ Closer(source, c) \in c + 1 .. n
        BY <1>1, <3>1, EnteredIsOpener, CloserValue
      <3>3. p = c => mode[p] # "code"
        BY <1>2, <3>1 DEF Entered
      <3>4. p # c => mode[p - 1] # "code"
        BY <1>2, <3>1, <3>2, CommentedIsInside
      <3> QED
        BY <2>2, <3>3, <3>4
    <2>3. CASE p \notin Commented(source)
      <3>1. CASE mode[p - 1] = "code"
        <4>1. p \notin Entered(source)
          <5> SUFFICES ASSUME p \in Entered(source) PROVE FALSE
            OBVIOUS
          <5>1. Closer(source, p) \in p + 1 .. n
            BY <1>1, EnteredIsOpener, CloserValue
          <5> QED
            BY <1>1, <2>1, <2>3, <5>1
        <4>2. mode[p] = "code"
          BY <1>1, <1>2, <3>1, <4>1 DEF Entered
        <4> QED
          BY <2>3, <3>1, <4>2
      <3>2. CASE mode[p - 1] # "code"
        <4>1. ~ \E c \in Entered(source) : c < p /\ p <= Closer(source, c)
          <5> SUFFICES ASSUME NEW c \in Entered(source), c < p, p <= Closer(source, c) PROVE FALSE
            OBVIOUS
          <5>1. c \in 1 .. n /\ Closer(source, c) \in c + 1 .. n
            BY <1>1, EnteredIsOpener, CloserValue
          <5> QED
            BY <2>1, <2>3, <5>1
        <4>2. source[p] = "\n"
          BY <1>1, <1>2, <3>2, <4>1, InsideIsCommented
        <4> QED
          BY <4>2 DEF Blanked
      <3> QED
        BY <3>1, <3>2
    <2> QED
      BY <2>2, <2>3
  <1> QED
    BY <1>1, <1>2, <1>3 DEF StripComments, Uncommented

-----------------------------------------------------------------------------
(* Lines *)

(* The positions that leave a character in a line, and that character.     *)
Written(text) == {p \in DOMAIN text : text[p] # "\n"}
Left(text, p) == IF p \in Splices(text) THEN " " ELSE text[p]

(* What Lines returns: at least one line. *)
Page == Seq(Seq(Characters)) \ {<<>>}

LEMMA ExtendedType ==
    ASSUME NEW page \in Page, NEW c \in Characters
    PROVE  Extended(page, c) \in Page
  BY DEF Extended, Page

LEMMA MarksAreCharacters ==
    /\ " " \in Characters /\ "\n" \in Characters /\ "\\" \in Characters
    /\ Include \in Characters /\ Quoted \in Characters
  BY DEF Characters, Marks

(* Lines is computed character by character. *)
LEMMA LinesValue ==
    ASSUME NEW text \in Seq(Characters)
    PROVE  \E f \in [0 .. Len(text) -> Page] :
                /\ f[0] = << <<>> >>
                /\ \A i \in 1 .. Len(text) : f[i] = Extended(f[i - 1], text[i])
                /\ Lines(text) = f[Len(text)]
  <1>1. PICK n \in Nat : n = Len(text) /\ \A i \in 1 .. n : text[i] \in Characters
    BY SourceType
  <1>2. PICK base \in Page : base = << <<>> >>
    <2>1. PICK x \in Seq(Characters) : x = <<>>
      <3>1. <<>> \in Seq(Characters)
        OBVIOUS
      <3> QED
        BY <3>1
    <2>2. <<x>> \in Seq(Seq(Characters)) /\ <<x>> # <<>>
      OBVIOUS
    <2> QED
      BY <2>1, <2>2 DEF Page
  <1> DEFINE Is(f) == f = [i \in 0 .. n |-> IF i = 0 THEN << <<>> >> ELSE Extended(f[i - 1], text[i])]
  <1>3. \E f : Is(f)
    <2>1. PICK G : G = [i \in 1 .. n |-> [page \in Page |-> Extended(page, text[i])]]
      OBVIOUS
    <2>2. \A i \in 1 .. n : \A page \in Page : G[i][page] = Extended(page, text[i])
      BY <2>1
    <2>3. \A i \in 1 .. n : \A page \in Page : G[i][page] \in Page
      BY <1>1, <2>2, ExtendedType
    <2>4. PICK f : Computes(f, n, Page, base, G)
      BY <2>3, RecursionExists
    <2>5. \A i \in 0 .. n : f[i] = IF i = 0 THEN << <<>> >> ELSE Extended(f[i - 1], text[i])
      BY <1>2, <2>2, <2>4 DEF Computes
    <2>6. f = [i \in 0 .. n |-> f[i]]
      BY <2>4 DEF Computes
    <2> QED
      BY <2>5, <2>6
  <1>4. Lines(text) = (CHOOSE f : Is(f))[n]
    BY <1>1 DEF Lines
  <1>5. PICK f : Is(f) /\ Lines(text) = f[n]
    <2> HIDE DEF Is
    <2> QED
      BY <1>3, <1>4, Zenon
  <1>6. f[0] = base /\ \A i \in 1 .. n : f[i] = Extended(f[i - 1], text[i])
    BY <1>2, <1>5
  <1>7. \A i \in 0 .. n : f[i] \in Page
    <2> DEFINE S == {i \in 0 .. n : f[i] \in Page}
    <2>1. 0 \in S /\ \A i \in 1 .. n : i - 1 \in S => i \in S
      BY <1>1, <1>6, ExtendedType
    <2>2. 0 .. n \subseteq S
      <3> HIDE DEF S
      <3> QED
        BY <2>1, AllPositions
    <2> QED
      BY <2>2
  <1>8. f \in [0 .. n -> Page]
    BY <1>5, <1>7
  <1> QED
    BY <1>1, <1>2, <1>5, <1>6, <1>8

LEMMA LinesAppend ==
    /\ Lines(<<>>) = << <<>> >>
    /\ \A text \in Seq(Characters) : Lines(text) \in Page
    /\ \A text \in Seq(Characters) : \A c \in Characters :
            Lines(Append(text, c)) = Extended(Lines(text), c)
  <1>1. Lines(<<>>) = << <<>> >>
    <2>1. <<>> \in Seq(Characters) /\ Len(<<>>) = 0
      OBVIOUS
    <2> QED
      BY <2>1, LinesValue
  <1>2. ASSUME NEW text \in Seq(Characters)
        PROVE  Lines(text) \in Page
    BY LinesValue
  <1>3. ASSUME NEW text \in Seq(Characters), NEW c \in Characters
        PROVE  Lines(Append(text, c)) = Extended(Lines(text), c)
    <2>1. PICK n \in Nat : n = Len(text)
      OBVIOUS
    <2>2. PICK longer : longer = Append(text, c)
      OBVIOUS
    <2>3. /\ longer \in Seq(Characters) /\ Len(longer) = n + 1 /\ longer[n + 1] = c
          /\ \A i \in 1 .. n : longer[i] = text[i]
      BY <2>1, <2>2
    <2>4. PICK f : /\ f[0] = << <<>> >>
                   /\ \A i \in 1 .. n : f[i] = Extended(f[i - 1], text[i])
                   /\ Lines(text) = f[n]
      BY <2>1, LinesValue
    <2>5. PICK g : /\ g[0] = << <<>> >>
                   /\ \A i \in 1 .. n + 1 : g[i] = Extended(g[i - 1], longer[i])
                   /\ Lines(longer) = g[n + 1]
      BY <2>3, LinesValue
    <2> DEFINE S == {i \in 0 .. n : f[i] = g[i]}
    <2>6. 0 \in S /\ \A i \in 1 .. n : i - 1 \in S => i \in S
      <3>1. 0 \in S
        BY <2>4, <2>5
      <3>2. ASSUME NEW i \in 1 .. n, i - 1 \in S
            PROVE  i \in S
        <4>1. f[i] = Extended(f[i - 1], text[i]) /\ g[i] = Extended(g[i - 1], longer[i])
          BY <2>4, <2>5
        <4>2. f[i - 1] = g[i - 1] /\ text[i] = longer[i] /\ i \in 0 .. n
          BY <3>2, <2>3
        <4> QED
          BY <4>1, <4>2
      <3> QED
        BY <3>1, <3>2
    <2>7. f[n] = g[n]
      <3>1. 0 .. n \subseteq S
        <4> HIDE DEF S
        <4> QED
          BY <2>6, AllPositions
      <3> QED
        BY <3>1
    <2>8. g[n + 1] = Extended(g[n], c)
      BY <2>3, <2>5
    <2> QED
      BY <2>2, <2>4, <2>5, <2>7, <2>8
  <1> QED
    BY <1>1, <1>2, <1>3

(* One character more of the source, in the spliced text. *)
SpliceAfter(text, out, i) ==
    IF Starts(text, i, "\\", "\n") THEN Append(out, " ")
    ELSE IF i > 1 /\ Starts(text, i - 1, "\\", "\n") THEN out
    ELSE Append(out, text[i])

LEMMA SpliceValue ==
    ASSUME NEW text \in Seq(Characters)
    PROVE  \E f \in [0 .. Len(text) -> Seq(Characters)] :
                /\ f[0] = <<>>
                /\ \A i \in 1 .. Len(text) : f[i] = SpliceAfter(text, f[i - 1], i)
                /\ SpliceLines(text) = f[Len(text)]
  <1>1. PICK n \in Nat : n = Len(text) /\ \A i \in 1 .. n : text[i] \in Characters
    BY SourceType
  <1>2. PICK T : T = Seq(Characters)
    OBVIOUS
  <1>3. PICK base \in T : base = <<>>
    <2>1. <<>> \in Seq(Characters)
      OBVIOUS
    <2> QED
      BY <1>2, <2>1
  <1>4. \A i \in 1 .. n : \A out \in T : SpliceAfter(text, out, i) \in T
    <2> SUFFICES ASSUME NEW i \in 1 .. n, NEW out \in T PROVE SpliceAfter(text, out, i) \in T
      OBVIOUS
    <2>1. \A c \in Characters : Append(out, c) \in T
      BY <1>2
    <2> QED
      BY <1>1, <2>1, MarksAreCharacters DEF SpliceAfter
  <1> DEFINE Is(f) == f = [i \in 0 .. n |->
                            IF i = 0 THEN <<>>
                            ELSE IF Starts(text, i, "\\", "\n") THEN Append(f[i - 1], " ")
                            ELSE IF i > 1 /\ Starts(text, i - 1, "\\", "\n") THEN f[i - 1]
                            ELSE Append(f[i - 1], text[i])]
  <1>5. \E f : Is(f)
    <2>1. PICK G : G = [i \in 1 .. n |-> [out \in T |-> SpliceAfter(text, out, i)]]
      OBVIOUS
    <2>2. \A i \in 1 .. n : \A out \in T : G[i][out] = SpliceAfter(text, out, i)
      BY <2>1
    <2>3. \A i \in 1 .. n : \A out \in T : G[i][out] \in T
      BY <1>4, <2>2
    <2>4. PICK f : Computes(f, n, T, base, G)
      BY <2>3, RecursionExists
    <2>5. \A i \in 0 .. n : f[i] = IF i = 0 THEN <<>> ELSE SpliceAfter(text, f[i - 1], i)
      BY <1>3, <2>2, <2>4 DEF Computes
    <2>6. f = [i \in 0 .. n |-> f[i]]
      BY <2>4 DEF Computes
    <2>7. f = [i \in 0 .. n |-> IF i = 0 THEN <<>> ELSE SpliceAfter(text, f[i - 1], i)]
      BY <2>5, <2>6
    <2> QED
      BY <2>7, Zenon DEF SpliceAfter
  <1>6. SpliceLines(text) = (CHOOSE f : Is(f))[n]
    BY <1>1 DEF SpliceLines
  <1>7. PICK f : Is(f) /\ SpliceLines(text) = f[n]
    <2> HIDE DEF Is
    <2> QED
      BY <1>5, <1>6, Zenon
  <1>8. f[0] = base /\ \A i \in 1 .. n : f[i] = SpliceAfter(text, f[i - 1], i)
    <2>1. f = [i \in 0 .. n |-> IF i = 0 THEN <<>> ELSE SpliceAfter(text, f[i - 1], i)]
      BY <1>7, Zenon DEF SpliceAfter
    <2> QED
      BY <1>3, <2>1
  <1>9. \A i \in 0 .. n : f[i] \in T
    <2> DEFINE S == {i \in 0 .. n : f[i] \in T}
    <2>1. 0 \in S
      BY <1>8
    <2>2. \A i \in 1 .. n : i - 1 \in S => i \in S
      BY <1>4, <1>8
    <2>3. 0 .. n \subseteq S
      <3> HIDE DEF S
      <3> QED
        BY <2>1, <2>2, AllPositions
    <2> QED
      BY <2>3
  <1>10. f \in [0 .. n -> T]
    BY <1>7, <1>9
  <1> QED
    BY <1>1, <1>2, <1>3, <1>7, <1>8, <1>10

(* The lines after each character of the source. *)
Builds(text, G) ==
    /\ \A i \in 0 .. Len(text) : G[i] \in Page
    /\ G[0] = << <<>> >>
    /\ \A i \in Written(text) :
            G[i] = [G[i - 1] EXCEPT ![Len(G[i - 1])] = Append(G[i - 1][Len(G[i - 1])], Left(text, i))]
    /\ \A i \in Breaks(text) : G[i] = Append(G[i - 1], <<>>)
    /\ \A i \in DOMAIN text : i \notin Written(text) \cup Breaks(text) => G[i] = G[i - 1]
    /\ Lines(SpliceLines(text)) = G[Len(text)]

LEMMA LinesAreBuilt ==
    ASSUME NEW text \in Seq(Characters)
    PROVE  \E G : Builds(text, G)
  <1>1. PICK n \in Nat : n = Len(text) /\ DOMAIN text = 1 .. n /\ \A i \in 1 .. n : text[i] \in Characters
    BY SourceType
  <1>2. PICK f \in [0 .. n -> Seq(Characters)] :
                /\ f[0] = <<>>
                /\ \A i \in 1 .. n : f[i] = SpliceAfter(text, f[i - 1], i)
                /\ SpliceLines(text) = f[n]
    BY <1>1, SpliceValue
  <1>3. PICK G : G = [i \in 0 .. n |-> Lines(f[i])]
    OBVIOUS
  <1>4. \A i \in 0 .. n : G[i] = Lines(f[i]) /\ G[i] \in Page
    BY <1>2, <1>3, LinesAppend
  <1>5. ASSUME NEW i \in 1 .. n, NEW c \in Characters, f[i] = Append(f[i - 1], c)
        PROVE  G[i] = Extended(G[i - 1], c)
    <2>1. f[i - 1] \in Seq(Characters) /\ G[i - 1] = Lines(f[i - 1]) /\ G[i] = Lines(f[i])
      BY <1>2, <1>4
    <2> QED
      BY <1>5, <2>1, LinesAppend
  <1>6. ASSUME NEW i \in Written(text)
        PROVE  G[i] = [G[i - 1] EXCEPT ![Len(G[i - 1])] = Append(G[i - 1][Len(G[i - 1])], Left(text, i))]
    <2>1. i \in 1 .. n /\ text[i] # "\n" /\ (i \in Splices(text) <=> Starts(text, i, "\\", "\n"))
      BY <1>1 DEF Written, Splices
    <2>2. ~Starts(text, i - 1, "\\", "\n")
      BY <1>1, <2>1 DEF Starts
    <2>3. PICK c \in Characters : c = Left(text, i) /\ c # "\n"
      BY <1>1, <2>1, MarksAreCharacters DEF Left
    <2>4. f[i] = Append(f[i - 1], c)
      BY <1>2, <2>1, <2>2, <2>3 DEF SpliceAfter, Left
    <2> QED
      BY <1>5, <2>1, <2>3, <2>4 DEF Extended
  <1>7. ASSUME NEW i \in Breaks(text)
        PROVE  G[i] = Append(G[i - 1], <<>>)
    <2>1. i \in 1 .. n /\ text[i] = "\n" /\ ~Starts(text, i, "\\", "\n")
      BY <1>1 DEF Breaks, Starts
    <2>2. i > 1 => ~Starts(text, i - 1, "\\", "\n")
      BY <1>1, <2>1 DEF Breaks, Splices
    <2>3. f[i] = Append(f[i - 1], "\n")
      BY <1>2, <2>1, <2>2 DEF SpliceAfter
    <2> QED
      BY <1>5, <2>1, <2>3, MarksAreCharacters DEF Extended
  <1>8. ASSUME NEW i \in 1 .. n, i \notin Written(text) \cup Breaks(text)
        PROVE  G[i] = G[i - 1]
    <2>1. text[i] = "\n" /\ i - 1 \in Splices(text) /\ ~Starts(text, i, "\\", "\n")
      BY <1>1, <1>8 DEF Written, Breaks, Starts
    <2>2. i > 1 /\ Starts(text, i - 1, "\\", "\n")
      BY <1>1, <2>1 DEF Splices
    <2>3. f[i] = f[i - 1]
      BY <1>2, <2>1, <2>2 DEF SpliceAfter
    <2> QED
      BY <1>4, <2>3
  <1>9. G[0] = << <<>> >> /\ Lines(SpliceLines(text)) = G[n]
    BY <1>2, <1>4, LinesAppend
  <1>10. Builds(text, G)
    BY <1>1, <1>4, <1>6, <1>7, <1>8, <1>9 DEF Builds
  <1> QED
    BY <1>10

(* The line and the column after each character of the source. *)
Counts(text, G, row, col) ==
    \A i \in 0 .. Len(text) : row[i] = Len(G[i]) /\ col[i] = Len(G[i][Len(G[i])])

LEMMA PageType ==
    ASSUME NEW page \in Page
    PROVE  /\ Len(page) \in Nat /\ Len(page) >= 1
           /\ \A k \in 1 .. Len(page) : page[k] \in Seq(Characters) /\ Len(page[k]) \in Nat
           /\ page[Len(page)] \in Seq(Characters) /\ Len(page[Len(page)]) \in Nat
  <1>1. page \in Seq(Seq(Characters)) /\ page # <<>>
    BY DEF Page
  <1>2. Len(page) \in Nat /\ Len(page) >= 1
    BY <1>1
  <1>3. \A k \in 1 .. Len(page) : page[k] \in Seq(Characters)
    BY <1>1
  <1> QED
    BY <1>2, <1>3

(* What one character of the source adds to the lines before it.           *)
Grows(text, G, row, col, i) ==
    /\ row[i - 1] \in Nat /\ col[i - 1] \in Nat /\ row[i] \in Nat /\ col[i] \in Nat
    /\ row[i - 1] >= 1
    /\ row[i] = IF i \in Breaks(text) THEN row[i - 1] + 1 ELSE row[i - 1]
    /\ col[i] = IF i \in Breaks(text) THEN 0
                   ELSE IF i \in Written(text) THEN col[i - 1] + 1 ELSE col[i - 1]
    /\ \A k \in 1 .. row[i - 1] : \A c \in 1 .. Len(G[i - 1][k]) :
         c \in 1 .. Len(G[i][k]) /\ G[i][k][c] = G[i - 1][k][c]
    /\ i \in Written(text) => G[i][row[i]][col[i]] = Left(text, i)
    /\ \A k \in 1 .. row[i] : \A c \in 1 .. Len(G[i][k]) :
         \/ k \in 1 .. row[i - 1] /\ c \in 1 .. Len(G[i - 1][k])
         \/ i \in Written(text) /\ k = row[i] /\ c = col[i]
    /\ Written(text) \cap Breaks(text) = {}

LEMMA LinesGrow ==
    ASSUME NEW text \in Seq(Characters), NEW G, NEW row, NEW col,
           Builds(text, G), Counts(text, G, row, col), NEW i \in 1 .. Len(text)
    PROVE  Grows(text, G, row, col, i)
  <1>1. PICK n \in Nat : n = Len(text) /\ DOMAIN text = 1 .. n /\ i \in 1 .. n
                         /\ \A j \in 1 .. n : text[j] \in Characters
    BY SourceType
  <1>2. PICK page \in Page : page = G[i - 1]
    BY <1>1 DEF Builds
  <1>3. PICK next \in Page : next = G[i]
    BY <1>1 DEF Builds
  <1>4. PICK r \in Nat : r = Len(page) /\ r >= 1 /\ DOMAIN page = 1 .. r
    BY PageType DEF Page
  <1>5. PICK last \in Seq(Characters) : last = page[r]
    BY <1>4, PageType
  <1>6. PICK m \in Nat : m = Len(last)
    OBVIOUS
  <1>7. Written(text) \cap Breaks(text) = {}
    BY DEF Written, Breaks
  <1>8. row[i - 1] = r /\ col[i - 1] = m /\ row[i] \in Nat /\ col[i] \in Nat
    <2>1. row[i - 1] = Len(page) /\ col[i - 1] = Len(page[Len(page)])
          /\ row[i] = Len(next) /\ col[i] = Len(next[Len(next)])
      BY <1>1, <1>2, <1>3 DEF Counts
    <2> QED
      BY <1>4, <1>5, <1>6, <2>1, PageType
  <1>9. CASE i \in Written(text)
    <2>1. PICK x \in Characters : x = Left(text, i)
      BY <1>1, MarksAreCharacters DEF Left
    <2>2. PICK line \in Seq(Characters) :
                line = Append(last, x) /\ Len(line) = m + 1 /\ line[m + 1] = x
                /\ \A c \in 1 .. m : line[c] = last[c]
      <3>1. /\ Append(last, x) \in Seq(Characters) /\ Len(Append(last, x)) = m + 1
            /\ Append(last, x)[m + 1] = x /\ \A c \in 1 .. m : Append(last, x)[c] = last[c]
        BY <1>6
      <3> QED
        BY <3>1
    <2>3. next = [page EXCEPT ![r] = line]
      BY <1>2, <1>3, <1>4, <1>5, <1>9, <2>1, <2>2 DEF Builds
    <2>4. Len(next) = r /\ next[r] = line /\ \A k \in 1 .. r : k # r => next[k] = page[k]
      BY <1>4, <2>3 DEF Page
    <2>5. row[i] = r /\ col[i] = m + 1 /\ next[r][m + 1] = Left(text, i)
      BY <1>1, <1>3, <2>1, <2>2, <2>4 DEF Counts
    <2>6. ASSUME NEW k \in 1 .. r, NEW c \in 1 .. Len(page[k])
          PROVE  c \in 1 .. Len(next[k]) /\ next[k][c] = page[k][c]
      <3>1. CASE k = r
        BY <1>5, <1>6, <2>2, <2>4, <2>6, <3>1
      <3>2. CASE k # r
        BY <2>4, <2>6, <3>2
      <3> QED
        BY <3>1, <3>2
    <2>7. ASSUME NEW k \in 1 .. r, NEW c \in 1 .. Len(next[k])
          PROVE  c \in 1 .. Len(page[k]) \/ (k = r /\ c = m + 1)
      BY <1>4, <1>5, <1>6, <2>2, <2>4, <2>7
    <2> QED
      BY <1>2, <1>3, <1>4, <1>7, <1>8, <1>9, <2>5, <2>6, <2>7 DEF Grows
  <1>10. CASE i \in Breaks(text)
    <2>1. next = Append(page, <<>>)
      BY <1>2, <1>3, <1>10 DEF Builds
    <2>2. Len(next) = r + 1 /\ next[r + 1] = <<>> /\ \A k \in 1 .. r : next[k] = page[k]
      <3>1. page \in Seq(Seq(Characters)) /\ <<>> \in Seq(Characters)
        BY DEF Page
      <3> QED
        BY <1>4, <2>1, <3>1
    <2>3. row[i] = r + 1 /\ col[i] = 0
      BY <1>1, <1>3, <2>2 DEF Counts
    <2>4. \A k \in 1 .. r + 1 : \A c \in 1 .. Len(next[k]) : k \in 1 .. r /\ c \in 1 .. Len(page[k])
      <3> SUFFICES ASSUME NEW k \in 1 .. r + 1, NEW c \in 1 .. Len(next[k])
                   PROVE  k \in 1 .. r /\ c \in 1 .. Len(page[k])
        OBVIOUS
      <3>1. k # r + 1
        BY <2>2
      <3> QED
        BY <2>2, <3>1
    <2>5. i \notin Written(text)
      BY <1>7, <1>10
    <2> QED
      BY <1>2, <1>3, <1>4, <1>7, <1>8, <1>10, <2>2, <2>3, <2>4, <2>5 DEF Grows
  <1>11. CASE i \notin Written(text) \cup Breaks(text)
    <2>1. next = page
      BY <1>1, <1>2, <1>3, <1>11 DEF Builds
    <2>2. row[i] = r /\ col[i] = m
      <3>1. row[i] = Len(next) /\ col[i] = Len(next[Len(next)])
        BY <1>1, <1>3 DEF Counts
      <3> QED
        BY <1>4, <1>5, <1>6, <2>1, <3>1
    <2> QED
      BY <1>2, <1>3, <1>4, <1>7, <1>8, <1>11, <2>1, <2>2 DEF Grows
  <1> QED
    BY <1>9, <1>10, <1>11

(* row and col say where each character of the source stands in the lines. *)
Layout(text, lines, row, col) ==
    /\ \A i \in 0 .. Len(text) : row[i] \in Nat /\ col[i] \in Nat
    /\ row[0] = 1
    /\ \A i \in 1 .. Len(text) :
            row[i] = IF i \in Breaks(text) THEN row[i - 1] + 1 ELSE row[i - 1]
    /\ \A p, q \in 0 .. Len(text) : p <= q =>
            /\ row[p] <= row[q]
            /\ row[p] = row[q] <=> \A b \in Breaks(text) : ~(p < b /\ b <= q)
    /\ \A p, q \in Written(text) : p < q /\ row[p] = row[q] => col[p] < col[q]
    /\ \A p \in Written(text) :
            /\ row[p] \in 1 .. Len(lines) /\ col[p] \in 1 .. Len(lines[row[p]])
            /\ lines[row[p]][col[p]] = Left(text, p)
    /\ \A k \in 1 .. Len(lines) : \A c \in 1 .. Len(lines[k]) :
            \E p \in Written(text) : row[p] = k /\ col[p] = c

LEMMA LinesAreLaidOut ==
    ASSUME NEW text \in Seq(Characters)
    PROVE  \E row, col : Layout(text, Lines(SpliceLines(text)), row, col)
  <1>1. PICK n \in Nat : n = Len(text) /\ DOMAIN text = 1 .. n
    BY SourceType
  <1>2. PICK G : Builds(text, G)
    BY LinesAreBuilt
  <1>3. PICK row : row = [i \in 0 .. n |-> Len(G[i])]
    OBVIOUS
  <1>4. PICK col : col = [i \in 0 .. n |-> Len(G[i][Len(G[i])])]
    OBVIOUS
  <1>5. /\ \A i \in 0 .. n : row[i] = Len(G[i]) /\ col[i] = Len(G[i][row[i]])
        /\ Counts(text, G, row, col)
    BY <1>1, <1>3, <1>4 DEF Counts
  <1>6. row[0] = 1 /\ col[0] = 0 /\ \A c \in 1 .. Len(G[0][1]) : FALSE
    <2>1. Len(G[0]) = 1 /\ Len(G[0][1]) = 0
      BY <1>2 DEF Builds
    <2> QED
      BY <1>5, <2>1
  <1>7. \A i \in 1 .. n : Grows(text, G, row, col, i)
    BY <1>1, <1>2, <1>5, LinesGrow
  <1>8. Written(text) \cap Breaks(text) = {} /\ Written(text) \subseteq 1 .. n /\ Breaks(text) \subseteq 1 .. n
    BY <1>1 DEF Written, Breaks
  <1>9. \A i \in 0 .. n : row[i] \in Nat /\ col[i] \in Nat
    <2>1. \A i \in 1 .. n : row[i] \in Nat /\ col[i] \in Nat
      BY <1>7 DEF Grows
    <2> QED
      BY <1>6, <2>1
  (* Rows only grow, at line ends. *)
  <1>10. ASSUME NEW q \in 0 .. n
         PROVE  \A p \in 0 .. n : p <= q =>
                    /\ row[p] <= row[q]
                    /\ row[p] = row[q] <=> \A b \in Breaks(text) : ~(p < b /\ b <= q)
    <2> DEFINE P(j) == \A p \in 0 .. n : p <= j =>
                    /\ row[p] <= row[j]
                    /\ row[p] = row[j] <=> \A b \in Breaks(text) : ~(p < b /\ b <= j)
               S == {j \in 0 .. n : P(j)}
    <2>1. 0 \in S
      BY <1>6, <1>8
    <2>2. ASSUME NEW j \in 1 .. n, P(j - 1)
          PROVE  P(j)
      <3> SUFFICES ASSUME NEW p \in 0 .. n, p <= j
                   PROVE  /\ row[p] <= row[j]
                          /\ row[p] = row[j] <=> \A b \in Breaks(text) : ~(p < b /\ b <= j)
        OBVIOUS
      <3>1. CASE p = j
        BY <1>8, <1>9, <3>1
      <3>2. CASE p < j
        <4>1. /\ row[p] <= row[j - 1]
              /\ row[p] = row[j - 1] <=> \A b \in Breaks(text) : ~(p < b /\ b <= j - 1)
          BY <2>2, <3>2
        <4>2. row[p] \in Nat /\ row[j - 1] \in Nat
              /\ row[j] = IF j \in Breaks(text) THEN row[j - 1] + 1 ELSE row[j - 1]
          BY <1>7, <1>9 DEF Grows
        <4>3. CASE j \in Breaks(text)
          BY <3>2, <4>1, <4>2, <4>3
        <4>4. CASE j \notin Breaks(text)
          <5>1. \A b \in Breaks(text) : b <= j <=> b <= j - 1
            BY <1>8, <4>4
          <5> QED
            BY <4>1, <4>2, <4>4, <5>1
        <4> QED
          BY <4>3, <4>4
      <3> QED
        BY <3>1, <3>2
    <2>3. 0 .. n \subseteq S
      <3>1. \A j \in 1 .. n : j - 1 \in S => j \in S
        BY <2>2
      <3> HIDE DEF S
      <3> QED
        BY <2>1, <3>1, AllPositions
    <2> QED
      BY <2>3
  (* In a row, columns grow. *)
  <1>11. ASSUME NEW q \in 0 .. n
         PROVE  \A p \in Written(text) : p <= q /\ row[p] = row[q] =>
                    col[p] <= col[q] /\ (q \in Written(text) /\ p # q => col[p] < col[q])
    <2> DEFINE P(j) == \A p \in Written(text) : p <= j /\ row[p] = row[j] =>
                    col[p] <= col[j] /\ (j \in Written(text) /\ p # j => col[p] < col[j])
               S == {j \in 0 .. n : P(j)}
    <2>1. 0 \in S
      BY <1>8
    <2>2. ASSUME NEW j \in 1 .. n, P(j - 1)
          PROVE  P(j)
      <3> SUFFICES ASSUME NEW p \in Written(text), p <= j, row[p] = row[j], p # j
                   PROVE  col[p] <= col[j] /\ (j \in Written(text) => col[p] < col[j])
        BY <1>8, <1>9
      <3>1. p \in 0 .. n /\ j - 1 \in 0 .. n /\ p <= j - 1
        BY <1>8
      <3>2. row[p] <= row[j - 1]
        BY <1>10, <3>1
      <3>3. j \notin Breaks(text) /\ row[j - 1] = row[j]
        BY <1>7, <1>9, <3>1, <3>2 DEF Grows
      <3>4. col[p] <= col[j - 1]
        BY <2>2, <3>1, <3>3
      <3> QED
        BY <1>7, <1>9, <3>1, <3>3, <3>4 DEF Grows
    <2>3. 0 .. n \subseteq S
      <3>1. \A j \in 1 .. n : j - 1 \in S => j \in S
        BY <2>2
      <3> HIDE DEF S
      <3> QED
        BY <2>1, <3>1, AllPositions
    <2> QED
      BY <2>3
  (* Every character stays where it was written. *)
  <1>12. ASSUME NEW i \in 0 .. n
         PROVE  \A p \in Written(text) : p <= i =>
                    /\ row[p] \in 1 .. row[i] /\ col[p] \in 1 .. Len(G[i][row[p]])
                    /\ G[i][row[p]][col[p]] = Left(text, p)
    <2> DEFINE P(j) == \A p \in Written(text) : p <= j =>
                    /\ row[p] \in 1 .. row[j] /\ col[p] \in 1 .. Len(G[j][row[p]])
                    /\ G[j][row[p]][col[p]] = Left(text, p)
               S == {j \in 0 .. n : P(j)}
    <2>1. 0 \in S
      BY <1>8
    <2>2. ASSUME NEW j \in 1 .. n, P(j - 1)
          PROVE  P(j)
      <3> SUFFICES ASSUME NEW p \in Written(text), p <= j
                   PROVE  /\ row[p] \in 1 .. row[j] /\ col[p] \in 1 .. Len(G[j][row[p]])
                          /\ G[j][row[p]][col[p]] = Left(text, p)
        OBVIOUS
      <3>1. CASE p = j
        <4>1. row[j] = row[j - 1] /\ row[j] >= 1 /\ col[j] = col[j - 1] + 1 /\ col[j] \in Nat
              /\ G[j][row[j]][col[j]] = Left(text, j)
          BY <1>7, <1>8, <3>1 DEF Grows
        <4>2. col[j] = Len(G[j][row[j]])
          BY <1>5
        <4>3. col[j] >= 1
          BY <1>9, <4>1
        <4> QED
          BY <1>9, <3>1, <4>1, <4>2, <4>3
      <3>2. CASE p # j
        <4>1. p <= j - 1
          BY <1>8, <3>2
        <4>2. /\ row[p] \in 1 .. row[j - 1] /\ col[p] \in 1 .. Len(G[j - 1][row[p]])
              /\ G[j - 1][row[p]][col[p]] = Left(text, p)
          BY <2>2, <4>1
        <4>3. col[p] \in 1 .. Len(G[j][row[p]]) /\ G[j][row[p]][col[p]] = G[j - 1][row[p]][col[p]]
          <5>1. Grows(text, G, row, col, j)
            BY <1>7
          <5> QED
            BY <4>2, <5>1 DEF Grows
        <4>4. row[p] \in 1 .. row[j]
          <5>1. row[j - 1] <= row[j]
            BY <1>9, <1>10
          <5> QED
            BY <1>9, <4>2, <5>1
        <4> QED
          BY <4>2, <4>3, <4>4
      <3> QED
        BY <3>1, <3>2
    <2>3. 0 .. n \subseteq S
      <3>1. \A j \in 1 .. n : j - 1 \in S => j \in S
        <4> HIDE DEF P
        <4> QED
          BY <2>2
      <3> HIDE DEF S
      <3> QED
        BY <2>1, <3>1, AllPositions
    <2> QED
      BY <2>3
  (* Nothing else is written. *)
  <1>13. ASSUME NEW i \in 0 .. n
         PROVE  \A k \in 1 .. row[i] : \A c \in 1 .. Len(G[i][k]) :
                    \E p \in Written(text) : row[p] = k /\ col[p] = c
    <2> DEFINE P(j) == \A k \in 1 .. row[j] : \A c \in 1 .. Len(G[j][k]) :
                    \E p \in Written(text) : row[p] = k /\ col[p] = c
               S == {j \in 0 .. n : P(j)}
    <2>1. 0 \in S
      BY <1>6
    <2>2. ASSUME NEW j \in 1 .. n, P(j - 1)
          PROVE  P(j)
      <3>1. Grows(text, G, row, col, j)
        BY <1>7
      <3> QED
        BY <2>2, <3>1 DEF Grows
    <2>3. 0 .. n \subseteq S
      <3>1. \A j \in 1 .. n : j - 1 \in S => j \in S
        BY <2>2
      <3> HIDE DEF S
      <3> QED
        BY <2>1, <3>1, AllPositions
    <2> QED
      BY <2>3
  <1>14. PICK lines : lines = Lines(SpliceLines(text)) /\ lines = G[n] /\ Len(lines) = row[n]
    BY <1>1, <1>2, <1>5 DEF Builds
  <1>15. \A p, q \in Written(text) : p < q /\ row[p] = row[q] => col[p] < col[q]
    BY <1>8, <1>11
  <1>16. \A p \in Written(text) :
            /\ row[p] \in 1 .. Len(lines) /\ col[p] \in 1 .. Len(lines[row[p]])
            /\ lines[row[p]][col[p]] = Left(text, p)
    <2>1. \A p \in Written(text) : p <= n
      BY <1>8
    <2> QED
      BY <1>12, <1>14, <2>1
  <1>17. \A k \in 1 .. Len(lines) : \A c \in 1 .. Len(lines[k]) :
            \E p \in Written(text) : row[p] = k /\ col[p] = c
    <2>1. n \in 0 .. n
      OBVIOUS
    <2>2. \A k \in 1 .. row[n] : \A c \in 1 .. Len(G[n][k]) :
            \E p \in Written(text) : row[p] = k /\ col[p] = c
      BY <1>13, <2>1, Zenon
    <2> QED
      BY <1>14, <2>2
  <1>18. Layout(text, lines, row, col)
    <2>1. \A i \in 1 .. n : row[i] = IF i \in Breaks(text) THEN row[i - 1] + 1 ELSE row[i - 1]
      BY <1>7 DEF Grows
    <2> QED
      BY <1>1, <1>6, <1>9, <1>10, <1>15, <1>16, <1>17, <2>1 DEF Layout
  <1> QED
    BY <1>14, <1>18

-----------------------------------------------------------------------------
(* The directives as the program means them, in a text without comments. *)

Blank(text) == {p \in DOMAIN text : text[p] = " " \/ p \in Splices(text) \/ p - 1 \in Splices(text)}
SameLine(text, p, q) == ~ \E b \in Breaks(text) : p <= b /\ b <= q
Behind(text, p) == {q \in DOMAIN text : q > p /\ SameLine(text, p, q)}
Directives(text) ==
    {p \in DOMAIN text :
        /\ text[p] = Include
        /\ \A q \in 1 .. p - 1 : q \in Blank(text) \/ ~SameLine(text, q, p)
        /\ p + 1 \in Blank(text)
        /\ \E q, r \in Behind(text, p) \ Splices(text) : q # r}
Granted(text, allowed, p) ==
    \E q \in DOMAIN text : Behind(text, p) \ Blank(text) = {q} /\ text[q] \in allowed

LEMMA TokensDiffer ==
    /\ Include # " " /\ Include # "\n" /\ Include # "\\" /\ "\\" # "\n" /\ " " # "\n"
    /\ Quoted # Include /\ Quote # Include /\ Quote # " " /\ Quote # "\n" /\ Quote # "\\"
    /\ \A w \in Headers : w \notin {Quoted, Quote} /\ w \notin Absolute
  BY WordsAssumption DEF Include, Quoted, Quote, Marks

(* A position that leaves a character in a line. *)
LEMMA WrittenFacts ==
    ASSUME NEW text \in Seq(Characters), NEW p \in Written(text)
    PROVE  p \in 1 .. Len(text) /\ p \in Nat /\ p \notin Breaks(text) /\ p - 1 \notin Splices(text)
  <1>1. PICK n \in Nat : n = Len(text) /\ DOMAIN text = 1 .. n
    BY SourceType
  <1>2. p \in 1 .. n /\ text[p] # "\n"
    BY <1>1 DEF Written
  <1>3. ASSUME p - 1 \in Splices(text) PROVE FALSE
    <2>1. text[p - 1 + 1] = "\n" /\ p - 1 + 1 = p
      BY <1>2, <1>3 DEF Splices, Starts
    <2> QED
      BY <1>2, <2>1
  <1>4. p \notin Breaks(text)
    BY <1>2 DEF Breaks
  <1> QED
    BY <1>1, <1>2, <1>3, <1>4

LEMMA BlankIsLeft ==
    ASSUME NEW text \in Seq(Characters), NEW p \in Written(text)
    PROVE  Left(text, p) = " " <=> p \in Blank(text)
  <1>1. PICK n \in Nat : n = Len(text) /\ DOMAIN text = 1 .. n
    BY SourceType
  <1>2. p \in 1 .. n /\ p - 1 \notin Splices(text)
    BY <1>1, WrittenFacts
  <1> QED
    BY <1>1, <1>2 DEF Left, Blank

(* A splice: its backslash is written, its line end is not. *)
LEMMA SpliceFacts ==
    ASSUME NEW text \in Seq(Characters), NEW p \in Splices(text)
    PROVE  /\ p \in 1 .. Len(text) /\ p + 1 \in 1 .. Len(text) /\ p \in Written(text)
           /\ text[p] = "\\" /\ text[p + 1] = "\n"
           /\ p + 1 \notin Written(text) /\ p + 1 \notin Breaks(text) /\ p + 1 \notin Splices(text)
  <1>1. PICK n \in Nat : n = Len(text) /\ DOMAIN text = 1 .. n
    BY SourceType
  <1>2. p \in 1 .. n /\ p + 1 \in 1 .. n /\ text[p] = "\\" /\ text[p + 1] = "\n"
    BY <1>1 DEF Splices, Starts
  <1>3. p \in Written(text) /\ p + 1 \notin Written(text)
    BY <1>1, <1>2 DEF Written
  <1>4. PICK q : q = p + 1 /\ q - 1 = p
    BY <1>2
  <1>5. q \notin Breaks(text)
    BY <1>4 DEF Breaks
  <1>6. p + 1 \notin Splices(text)
    BY <1>2 DEF Splices, Starts
  <1> QED
    BY <1>1, <1>2, <1>3, <1>4, <1>5, <1>6

(* Any other position is blank, or ends a line. *)
LEMMA UnwrittenFacts ==
    ASSUME NEW text \in Seq(Characters), NEW p \in 1 .. Len(text), p \notin Written(text)
    PROVE  /\ p \in Breaks(text) \/ p - 1 \in Splices(text)
           /\ p \notin Blank(text) => p \in Breaks(text)
  <1>1. PICK n \in Nat : n = Len(text) /\ DOMAIN text = 1 .. n
    BY SourceType
  <1> QED
    BY <1>1 DEF Written, Breaks, Blank

LEMMA BreakEnds ==
    ASSUME NEW text \in Seq(Characters), NEW b \in Breaks(text), NEW p \in 1 .. Len(text)
    PROVE  /\ b \in 1 .. Len(text)
           /\ b <= p => ~SameLine(text, b, p)
           /\ p <= b => ~SameLine(text, p, b)
  <1>1. PICK n \in Nat : n = Len(text) /\ DOMAIN text = 1 .. n
    BY SourceType
  <1>2. b \in 1 .. n
    BY <1>1 DEF Breaks
  <1> QED
    BY <1>1, <1>2 DEF SameLine

(* The place of a written position. *)
LEMMA PlaceOf ==
    ASSUME NEW text \in Seq(Characters), NEW lines, NEW row, NEW col, Layout(text, lines, row, col),
           NEW p \in Written(text)
    PROVE  /\ row[p] \in Nat /\ col[p] \in Nat /\ row[p] \in 1 .. Len(lines)
           /\ col[p] \in 1 .. Len(lines[row[p]])
  <1>1. PICK n \in Nat : n = Len(text)
    BY SourceType
  <1>2. p \in 0 .. n
    BY <1>1, WrittenFacts
  <1>3. row[p] \in Nat /\ col[p] \in Nat
    BY <1>1, <1>2 DEF Layout
  <1>4. row[p] \in 1 .. Len(lines) /\ col[p] \in 1 .. Len(lines[row[p]])
    BY DEF Layout
  <1> QED
    BY <1>3, <1>4

LEMMA PlaceHolds ==
    ASSUME NEW text \in Seq(Characters), NEW lines, NEW row, NEW col, Layout(text, lines, row, col),
           NEW p \in Written(text)
    PROVE  lines[row[p]][col[p]] = Left(text, p)
  BY DEF Layout

LEMMA PlaceIsTaken ==
    ASSUME NEW text \in Seq(Characters), NEW lines, NEW row, NEW col, Layout(text, lines, row, col),
           NEW k \in 1 .. Len(lines), NEW c \in 1 .. Len(lines[k])
    PROVE  \E p \in Written(text) : row[p] = k /\ col[p] = c
  BY DEF Layout

LEMMA PlacesAreOrdered ==
    ASSUME NEW text \in Seq(Characters), NEW lines, NEW row, NEW col, Layout(text, lines, row, col),
           NEW p \in Written(text), NEW q \in Written(text), row[p] = row[q]
    PROVE  p < q => col[p] < col[q]
  BY DEF Layout

LEMMA RowsGrow ==
    ASSUME NEW text \in Seq(Characters), NEW lines, NEW row, NEW col, Layout(text, lines, row, col),
           NEW p \in 1 .. Len(text), NEW q \in 1 .. Len(text)
    PROVE  /\ row[p] \in Nat /\ row[q] \in Nat
           /\ p <= q => row[p] <= row[q]
           /\ q = p + 1 => row[q] = IF q \in Breaks(text) THEN row[p] + 1 ELSE row[p]
  <1>1. PICK n \in Nat : n = Len(text)
    BY SourceType
  <1>2. p \in 0 .. n /\ q \in 0 .. n
    BY <1>1
  <1>3. row[p] \in Nat /\ row[q] \in Nat /\ (p <= q => row[p] <= row[q])
    BY <1>1, <1>2 DEF Layout
  <1>4. row[q] = IF q \in Breaks(text) THEN row[q - 1] + 1 ELSE row[q - 1]
    BY DEF Layout
  <1>5. q = p + 1 => q - 1 = p
    BY <1>1
  <1> QED
    BY <1>3, <1>4, <1>5

LEMMA SameLineSameRow ==
    ASSUME NEW text \in Seq(Characters), NEW lines, NEW row, NEW col, Layout(text, lines, row, col),
           NEW p \in Written(text), NEW q \in 1 .. Len(text), p <= q
    PROVE  SameLine(text, p, q) <=> row[p] = row[q]
  <1>1. PICK n \in Nat : n = Len(text) /\ DOMAIN text = 1 .. n
    BY SourceType
  <1>2. p \in 0 .. n /\ q \in 0 .. n /\ p \in 1 .. n /\ p \notin Breaks(text)
    <2>1. p \in 1 .. n /\ p \notin Breaks(text)
      BY <1>1, WrittenFacts
    <2> QED
      BY <1>1, <2>1
  <1>3. row[p] = row[q] <=> \A b \in Breaks(text) : ~(p < b /\ b <= q)
    BY <1>1, <1>2 DEF Layout
  <1>4. \A b \in Breaks(text) : b \in 1 .. n
    BY <1>1 DEF Breaks
  <1>5. \A b \in Breaks(text) : p <= b <=> p < b
    BY <1>2, <1>4
  <1> QED
    BY <1>3, <1>5 DEF SameLine

(* Two neighbours in the source are neighbours in their line. *)
LEMMA Neighbours ==
    ASSUME NEW text \in Seq(Characters), NEW lines \in Page, NEW row, NEW col,
           Layout(text, lines, row, col), NEW p \in Written(text), p + 1 \in Written(text), row[p] = row[p + 1]
    PROVE  col[p + 1] = col[p] + 1
  <1>1. PICK s \in Written(text) : s = p + 1
    OBVIOUS
  <1>2. PICK k \in 1 .. Len(lines) : k = row[p] /\ k = row[s]
    BY <1>1, PlaceOf
  <1>3. PICK m \in Nat : m = Len(lines[k])
    BY PageType
  <1>4. col[p] \in 1 .. m /\ col[s] \in 1 .. m /\ p \in Nat /\ s \in Nat
    BY <1>2, <1>3, PlaceOf, WrittenFacts, Zenon
  <1>5. col[p] < col[s]
    BY <1>1, <1>2, <1>4, PlacesAreOrdered
  <1> SUFFICES ASSUME col[p] + 1 < col[s] PROVE FALSE
    BY <1>1, <1>4, <1>5
  <1>6. col[p] + 1 \in 1 .. m
    BY <1>4
  <1>7. PICK q \in Written(text) : row[q] = k /\ col[q] = col[p] + 1
    BY <1>3, <1>6, PlaceIsTaken
  <1>8. q \in Nat
    BY WrittenFacts
  <1>9. q < p => col[q] < col[p]
    BY <1>2, <1>7, PlacesAreOrdered
  <1>10. s < q => col[s] < col[q]
    BY <1>2, <1>7, PlacesAreOrdered
  <1> QED
    BY <1>1, <1>4, <1>7, <1>8, <1>9, <1>10

(* A line holds, at its inked places, the characters that are not blank.   *)
LEMMA InkedType ==
    ASSUME NEW lines \in Page, NEW k \in 1 .. Len(lines)
    PROVE  /\ lines[k] \in Seq(Characters) /\ Len(lines[k]) \in Nat
           /\ DOMAIN lines[k] = 1 .. Len(lines[k])
           /\ Inked(lines[k]) \subseteq 1 .. Len(lines[k])
  <1>1. lines[k] \in Seq(Characters) /\ Len(lines[k]) \in Nat /\ DOMAIN lines[k] = 1 .. Len(lines[k])
    BY PageType
  <1> QED
    BY <1>1 DEF Inked

LEMMA InkIsThere ==
    ASSUME NEW text \in Seq(Characters), NEW lines \in Page, NEW row, NEW col,
           Layout(text, lines, row, col), NEW q \in Written(text), q \notin Blank(text)
    PROVE  col[q] \in Inked(lines[row[q]])
  <1>1. PICK k \in 1 .. Len(lines) : k = row[q]
    BY PlaceOf
  <1>2. Left(text, q) # " "
    BY BlankIsLeft
  <1>3. lines[k][col[q]] = Left(text, q)
    BY <1>1, PlaceHolds
  <1>4. col[q] \in DOMAIN lines[k]
    BY <1>1, PlaceOf, InkedType
  <1> QED
    BY <1>1, <1>2, <1>3, <1>4 DEF Inked

LEMMA InkIsWritten ==
    ASSUME NEW text \in Seq(Characters), NEW lines \in Page, NEW row, NEW col,
           Layout(text, lines, row, col), NEW k \in 1 .. Len(lines), NEW c \in Inked(lines[k])
    PROVE  \E q \in Written(text) : row[q] = k /\ col[q] = c /\ q \notin Blank(text)
  <1>1. c \in 1 .. Len(lines[k]) /\ lines[k][c] # " "
    BY InkedType DEF Inked
  <1>2. PICK q \in Written(text) : row[q] = k /\ col[q] = c
    <2>1. \A d \in 1 .. Len(lines[k]) : \E q \in Written(text) : row[q] = k /\ col[q] = d
      BY PlaceIsTaken
    <2> QED
      BY <1>1, <2>1, Zenon
  <1>3. lines[k][c] = Left(text, q)
    BY <1>2, PlaceHolds
  <1>4. q \notin Blank(text)
    BY <1>1, <1>3, BlankIsLeft
  <1> QED
    BY <1>2, <1>4

(* The line of a directive of the reference is one for the program, too.   *)
LEMMA DirectivesStand ==
    ASSUME NEW text \in Seq(Characters), NEW lines \in Page, NEW row, NEW col,
           Layout(text, lines, row, col), NEW p \in Directives(text)
    PROVE  /\ p \in Written(text) /\ p \notin Blank(text) /\ row[p] \in 1 .. Len(lines)
           /\ Inked(lines[row[p]]) # {} /\ Min(Inked(lines[row[p]])) = col[p]
           /\ IsDirective(lines[row[p]])
  <1>1. PICK n \in Nat : n = Len(text) /\ DOMAIN text = 1 .. n
    BY SourceType
  <1>2. /\ p \in 1 .. n /\ text[p] = Include
        /\ \A q \in 1 .. p - 1 : q \in Blank(text) \/ ~SameLine(text, q, p)
        /\ p + 1 \in Blank(text) /\ p + 1 \in 1 .. n
    BY <1>1 DEF Directives, Blank
  <1>3. p \in Written(text) /\ p \notin Splices(text)
    <2>1. p \in Written(text)
      BY <1>1, <1>2, TokensDiffer DEF Written
    <2>2. p \notin Splices(text)
      BY <1>2, TokensDiffer, SpliceFacts
    <2> QED
      BY <2>1, <2>2
  <1>4. p \notin Blank(text)
    <2>1. p - 1 \notin Splices(text)
      BY <1>3, WrittenFacts
    <2> QED
      BY <1>2, <1>3, <2>1, TokensDiffer DEF Blank
  <1>5. PICK k \in 1 .. Len(lines) : k = row[p]
    BY <1>3, PlaceOf
  <1>6. PICK m \in Nat : m = Len(lines[k])
    BY InkedType
  <1>7. PICK at \in 1 .. m : at = col[p] /\ lines[k][at] = Include
    <2>1. Left(text, p) = Include
      BY <1>2, <1>3 DEF Left
    <2>2. col[p] \in 1 .. m
      BY <1>3, <1>5, <1>6, PlaceOf
    <2>3. lines[k][col[p]] = Left(text, p)
      BY <1>3, <1>5, PlaceHolds
    <2> QED
      BY <2>1, <2>2, <2>3
  <1>8. Inked(lines[k]) \subseteq 1 .. m /\ at \in Inked(lines[k])
    <2>1. Inked(lines[k]) \subseteq 1 .. m
      BY <1>6, InkedType
    <2>2. col[p] \in Inked(lines[k])
      BY <1>3, <1>4, <1>5, InkIsThere
    <2> QED
      BY <1>7, <2>1, <2>2
  (* Before it the line is blank. *)
  <1>9. ASSUME NEW c \in Inked(lines[k]), c < at
        PROVE  FALSE
    <2>1. PICK q \in Written(text) : row[q] = k /\ col[q] = c /\ q \notin Blank(text)
      BY InkIsWritten
    <2>2. q \in 1 .. n /\ c \in Nat
      <3>1. q \in 1 .. n
        BY <1>1, WrittenFacts
      <3> QED
        BY <1>8, <3>1
    <2>3. p < q => col[p] < col[q]
      BY <1>3, <1>5, <2>1, PlacesAreOrdered
    <2>4. q < p
      BY <1>2, <1>7, <1>9, <2>1, <2>2, <2>3
    <2>5. SameLine(text, q, p)
      <3>1. q <= p
        BY <1>2, <2>2, <2>4
      <3> QED
        BY <1>1, <1>2, <1>5, <2>1, <3>1, SameLineSameRow
    <2>6. q \in 1 .. p - 1
      BY <1>2, <2>2, <2>4
    <2> QED
      BY <1>2, <2>1, <2>5, <2>6
  <1>10. Min(Inked(lines[k])) = at
    <2>1. Inked(lines[k]) \subseteq Nat
      BY <1>8
    <2>2. PICK least : least = Min(Inked(lines[k]))
      OBVIOUS
    <2>3. least \in Inked(lines[k]) /\ least <= at
      BY <1>8, <2>1, <2>2, LeastOf
    <2>4. ~(least < at)
      BY <1>9, <2>3
    <2> QED
      BY <2>1, <2>2, <2>3, <2>4
  (* A blank stands behind it. *)
  <1>11. PICK s \in 1 .. n : s = p + 1
    BY <1>2
  <1>12. s \in Written(text) /\ row[s] = k
    <2>1. p \notin Splices(text) /\ s - 1 = p
      BY <1>2, <1>3, <1>11
    <2>2. s \notin Breaks(text)
      <3>1. s \in Breaks(text) => s \notin Blank(text)
        <4>1. s \in Breaks(text) => text[s] = "\n" /\ s - 1 \notin Splices(text)
          BY DEF Breaks
        <4>2. text[s] = "\n" => s \notin Splices(text)
          BY SpliceFacts, TokensDiffer
        <4> QED
          BY <4>1, <4>2, TokensDiffer DEF Blank
      <3> QED
        BY <1>2, <1>11, <3>1
    <2>3. s \in Written(text)
      BY <1>1, <1>11, <2>1, <2>2, UnwrittenFacts
    <2>4. row[s] = row[p]
      BY <1>1, <1>2, <1>11, <2>2, RowsGrow
    <2> QED
      BY <1>5, <2>3, <2>4
  <1>13. col[s] = at + 1 /\ at + 1 \in 1 .. m /\ lines[k][at + 1] = " "
    <2>1. col[s] = at + 1
      <3>1. p + 1 \in Written(text) /\ row[p] = row[p + 1]
        BY <1>5, <1>11, <1>12
      <3>2. col[p + 1] = col[p] + 1
        BY <1>3, <3>1, Neighbours
      <3> QED
        BY <1>7, <1>11, <3>2
    <2>2. Left(text, s) = " "
      BY <1>2, <1>11, <1>12, BlankIsLeft
    <2>3. col[s] \in 1 .. m
      BY <1>6, <1>12, PlaceOf
    <2>4. lines[k][col[s]] = Left(text, s)
      BY <1>12, PlaceHolds
    <2> QED
      BY <2>1, <2>2, <2>3, <2>4
  (* And something behind that. *)
  <1>14. ASSUME NEW x \in Behind(text, p) \ Splices(text)
         PROVE  \/ \E y \in Written(text) : row[y] = k /\ s < y
                \/ s \notin Splices(text) /\ x = s
                \/ s \in Splices(text) /\ x = s + 1
    <2>1. x \in 1 .. n /\ x > p /\ SameLine(text, p, x)
      BY <1>1 DEF Behind
    <2>2. row[x] = k
      BY <1>1, <1>2, <1>3, <1>5, <2>1, SameLineSameRow
    <2>3. CASE x \in Written(text)
      BY <1>2, <1>11, <2>1, <2>2, <2>3
    <2>4. CASE x \notin Written(text)
      <3>1. x \notin Breaks(text)
        BY <1>1, <1>2, <2>1, BreakEnds
      <3>2. x - 1 \in Splices(text)
        BY <1>1, <2>1, <2>4, <3>1, UnwrittenFacts
      <3>3. PICK y \in Splices(text) : y = x - 1
        BY <3>2
      <3>4. y \in Written(text) /\ y \in 1 .. n /\ y # p /\ x = y + 1
        BY <1>1, <1>3, <2>1, <3>3, SpliceFacts
      <3>5. row[y] = k
        BY <1>1, <2>1, <2>2, <3>1, <3>4, RowsGrow
      <3> QED
        BY <1>2, <1>11, <2>1, <3>3, <3>4, <3>5
    <2> QED
      BY <2>3, <2>4
  <1>15. PICK y \in Written(text) : row[y] = k /\ s < y
    <2>1. PICK x, z \in Behind(text, p) \ Splices(text) : x # z
      BY DEF Directives
    <2> QED
      BY <1>14, <2>1
  <1>16. at + 2 <= m
    <2>1. col[s] < col[y]
      BY <1>12, <1>15, PlacesAreOrdered
    <2>2. PICK c \in 1 .. m : c = col[y]
      BY <1>6, <1>15, PlaceOf
    <2>3. at + 1 < c
      BY <1>13, <2>1, <2>2
    <2> QED
      BY <2>3
  <1>17. IsDirective(lines[k])
    BY <1>6, <1>7, <1>8, <1>10, <1>13, <1>16 DEF IsDirective
  <1> QED
    BY <1>3, <1>4, <1>5, <1>7, <1>8, <1>10, <1>17

(* A line that the program takes for a directive is one of the reference.  *)
LEMMA StandingAreDirectives ==
    ASSUME NEW text \in Seq(Characters), NEW lines \in Page, NEW row, NEW col,
           Layout(text, lines, row, col), NEW k \in 1 .. Len(lines), IsDirective(lines[k])
    PROVE  \E p \in Directives(text) : row[p] = k
  <1>1. PICK n \in Nat : n = Len(text) /\ DOMAIN text = 1 .. n
    BY SourceType
  <1>2. PICK m \in Nat : m = Len(lines[k]) /\ Inked(lines[k]) \subseteq 1 .. m
    BY InkedType
  <1>3. PICK at \in 1 .. m : at \in Inked(lines[k]) /\ at = Min(Inked(lines[k]))
    <2>1. Inked(lines[k]) \subseteq Nat
      BY <1>2
    <2>2. Inked(lines[k]) # {}
      BY DEF IsDirective
    <2> QED
      BY <1>2, <2>1, <2>2, LeastOf
  <1>4. \A c \in Inked(lines[k]) : ~(c < at)
    <2>1. Inked(lines[k]) \subseteq Nat
      BY <1>2
    <2> QED
      BY <1>3, <2>1, LeastOf
  <1>5. /\ at + 1 \in 1 .. m /\ at + 2 \in 1 .. m
        /\ lines[k][at] = Include /\ lines[k][at + 1] = " "
    <2>1. lines[k][at] = Include /\ lines[k][at + 1] = " "
      BY <1>2, <1>3 DEF IsDirective
    <2>2. at + 2 <= m
      BY <1>2, <1>3 DEF IsDirective
    <2>3. at + 1 \in 1 .. m /\ at + 2 \in 1 .. m
      BY <2>2
    <2> QED
      BY <2>1, <2>3
  <1>6. PICK p \in Written(text) : row[p] = k /\ col[p] = at /\ p \notin Blank(text)
    BY <1>3, InkIsWritten
  <1>7. PICK s \in Written(text) : row[s] = k /\ col[s] = at + 1
    <2>1. at + 1 \in 1 .. Len(lines[k])
      BY <1>2, <1>5
    <2> QED
      BY <2>1, PlaceIsTaken
  <1>8. PICK y \in Written(text) : row[y] = k /\ col[y] = at + 2
    <2>1. at + 2 \in 1 .. Len(lines[k])
      BY <1>2, <1>5
    <2> QED
      BY <2>1, PlaceIsTaken
  <1>9. p \in 1 .. n /\ s \in 1 .. n /\ y \in 1 .. n
    BY <1>1, WrittenFacts
  <1>10. p < s /\ s < y
    <2>1. s < p => at + 1 < at
      BY <1>6, <1>7, PlacesAreOrdered
    <2>2. y < s => at + 2 < at + 1
      BY <1>7, <1>8, PlacesAreOrdered
    <2>3. s # p /\ y # s
      <3>1. at # at + 1 /\ at + 1 # at + 2
        OBVIOUS
      <3> QED
        BY <1>6, <1>7, <1>8, <3>1
    <2> QED
      BY <1>9, <2>1, <2>2, <2>3
  <1>11. text[p] = Include
    <2>1. Left(text, p) = Include
      <3>1. lines[row[p]][col[p]] = Left(text, p)
        BY PlaceHolds
      <3> QED
        BY <1>5, <1>6, <3>1
    <2>2. p \notin Splices(text)
      BY <2>1, TokensDiffer DEF Left
    <2> QED
      BY <2>1, <2>2 DEF Left
  <1>12. ASSUME NEW q \in 1 .. p - 1, q \notin Blank(text), SameLine(text, q, p)
         PROVE  FALSE
    <2>1. q \in 1 .. n /\ q < p
      BY <1>9
    <2>2. q \notin Breaks(text)
      BY <1>1, <1>9, <1>12, <2>1, BreakEnds
    <2>3. q \in Written(text)
      BY <1>1, <1>12, <2>1, <2>2, UnwrittenFacts
    <2>4. row[q] = k
      BY <1>1, <1>6, <1>9, <1>12, <2>1, <2>3, SameLineSameRow
    <2>5. col[q] \in Inked(lines[k])
      BY <1>12, <2>3, <2>4, InkIsThere
    <2>6. col[q] < at
      BY <1>6, <2>1, <2>3, <2>4, PlacesAreOrdered
    <2> QED
      BY <1>4, <2>5, <2>6
  <1>13. s = p + 1
    <2>1. p \notin Splices(text)
      BY <1>1, <1>6 DEF Blank, Splices
    <2>2. PICK t \in 1 .. n : t = p + 1 /\ t <= s
      BY <1>9, <1>10
    <2>3. row[t] = k
      <3>1. row[p] <= row[t] /\ row[t] <= row[s] /\ row[p] \in Nat /\ row[t] \in Nat
        BY <1>1, <1>9, <2>2, RowsGrow
      <3> QED
        BY <1>6, <1>7, <3>1
    <2>4. t \notin Breaks(text)
      <3>1. row[t] = IF t \in Breaks(text) THEN row[p] + 1 ELSE row[p]
        BY <1>1, <1>9, <2>2, RowsGrow
      <3> QED
        BY <1>6, <2>3, <3>1
    <2>5. t \in Written(text)
      <3>1. t - 1 = p
        BY <1>9, <2>2
      <3> QED
        BY <1>1, <2>1, <2>2, <2>4, <3>1, UnwrittenFacts
    <2>6. col[t] = at + 1
      BY <1>6, <2>2, <2>3, <2>5, Neighbours
    <2>7. t < s => at + 1 < at + 1
      BY <1>7, <2>3, <2>5, <2>6, PlacesAreOrdered
    <2> QED
      BY <1>9, <2>2, <2>7
  <1>14. p + 1 \in Blank(text)
    <2>1. Left(text, s) = " "
      <3>1. lines[row[s]][col[s]] = Left(text, s)
        BY PlaceHolds
      <3> QED
        BY <1>5, <1>7, <3>1
    <2> QED
      BY <1>13, <2>1, BlankIsLeft
  (* Of each of the two characters behind, a position that starts no splice. *)
  <1>15. ASSUME NEW x \in Written(text), row[x] = k, p < x
         PROVE  IF x \in Splices(text)
                THEN x + 1 \in Behind(text, p) \ Splices(text)
                ELSE x \in Behind(text, p) \ Splices(text)
    <2>1. x \in 1 .. n
      BY <1>1, WrittenFacts
    <2>2. CASE x \in Splices(text)
      <3>1. PICK z \in 1 .. n : z = x + 1 /\ z \notin Splices(text) /\ z \notin Breaks(text)
        BY <1>1, <2>2, SpliceFacts
      <3>2. row[z] = k
        BY <1>1, <1>15, <2>1, <3>1, RowsGrow
      <3>3. p < z
        BY <1>9, <1>15, <2>1, <3>1
      <3>4. SameLine(text, p, z)
        BY <1>1, <1>6, <1>9, <3>1, <3>2, <3>3, SameLineSameRow
      <3> QED
        BY <1>1, <2>2, <3>1, <3>3, <3>4 DEF Behind
    <2>3. CASE x \notin Splices(text)
      <3>1. SameLine(text, p, x)
        BY <1>1, <1>6, <1>9, <1>15, <2>1, SameLineSameRow
      <3> QED
        BY <1>1, <1>9, <1>15, <2>1, <2>3, <3>1 DEF Behind
    <2> QED
      BY <2>2, <2>3
  <1>16. \E q, r \in Behind(text, p) \ Splices(text) : q # r
    <2>1. PICK z \in Behind(text, p) \ Splices(text) : z = IF s \in Splices(text) THEN s + 1 ELSE s
      BY <1>7, <1>9, <1>10, <1>15
    <2>2. PICK x \in Behind(text, p) \ Splices(text) : x = IF y \in Splices(text) THEN y + 1 ELSE y
      BY <1>8, <1>9, <1>10, <1>15
    <2>3. s \in Splices(text) => s + 1 # y
      BY SpliceFacts
    <2>4. x # z
      BY <1>9, <1>10, <2>1, <2>2, <2>3
    <2> QED
      BY <2>4
  <1>17. p \in Directives(text)
    BY <1>1, <1>9, <1>11, <1>12, <1>14, <1>16 DEF Directives
  <1> QED
    BY <1>6, <1>17

-----------------------------------------------------------------------------
(* What is behind a directive *)

LEMMA GreatestOf ==
    ASSUME NEW n \in Nat, NEW T, T \subseteq 1 .. n, T # {}
    PROVE  Max(T) \in T /\ \A y \in T : y <= Max(T)
  <1>1. PICK D : D = {d \in Nat : n - d \in T}
    OBVIOUS
  <1>2. D # {}
    <2>1. PICK x \in T : TRUE
      OBVIOUS
    <2>2. n - x \in Nat /\ n - (n - x) = x
      BY <2>1
    <2> QED
      BY <1>1, <2>1, <2>2
  <1>3. PICK d \in D : \A e \in D : d <= e
    BY <1>1, <1>2, LeastNat
  <1>4. PICK x \in T : x = n - d
    BY <1>1, <1>3
  <1>5. ASSUME NEW y \in T PROVE y <= x
    <2>1. n - y \in Nat /\ n - (n - y) = y /\ d \in Nat
      BY <1>1
    <2>2. n - y \in D
      BY <1>1, <2>1
    <2>3. d <= n - y
      BY <1>3, <2>2
    <2> QED
      BY <1>4, <2>1, <2>3
  <1>6. x \in T /\ \A y \in T : x >= y
    BY <1>5
  <1>7. Max(T) \in T /\ \A y \in T : Max(T) >= y
    BY <1>6, Zenon DEF Max
  <1> QED
    BY <1>7

(* A value is accepted when it is one header, and an enabled one. *)
LEMMA JudgeAccepts ==
    ASSUME NEW value \in Seq(Characters), NEW allowed, allowed \subseteq Headers
    PROVE  Judge(value, allowed) = "ok" <=> Len(value) = 1 /\ value[1] \in allowed
  <1>1. CASE Len(value) = 1 /\ value[1] \in allowed
    <2>1. PICK w \in Headers : w = value[1] /\ w \notin {Quoted, Quote} /\ w \notin Absolute
      BY <1>1, TokensDiffer
    <2>2. value # <<>>
      <3>1. Len(<<>>) # 1
        BY EmptySeq
      <3> QED
        BY <1>1, <3>1, Zenon
    <2>3. ~Bracketed(value, {Quoted, Quote}) /\ Bracketed(value, Headers \cup Absolute)
      BY <1>1, <2>1, <2>2 DEF Bracketed
    <2> QED
      BY <1>1, <2>1, <2>3 DEF Judge
  <1>2. CASE ~(Len(value) = 1 /\ value[1] \in allowed)
    BY <1>2 DEF Judge
  <1> QED
    BY <1>1, <1>2

LEMMA PartOfLine ==
    ASSUME NEW line \in Seq(Characters), NEW a \in 1 .. Len(line), NEW b \in a .. Len(line)
    PROVE  /\ SubSeq(line, a, b) \in Seq(Characters)
           /\ Len(SubSeq(line, a, b)) = b - a + 1
           /\ SubSeq(line, a, b)[1] = line[a]
  <1>1. Len(line) \in Nat /\ \A i \in a .. b : line[i] \in Characters
    OBVIOUS
  <1> QED
    BY <1>1

(* The value of a line with its first inked place, and other inked places. *)
LEMMA ValueFacts ==
    ASSUME NEW line \in Seq(Characters), Inked(line) # {}, NEW ink, ink = Inked(line) \ {Min(Inked(line))}
    PROVE  /\ Value(line) \in Seq(Characters)
           /\ (Len(Value(line)) = 1 <=> \E c \in ink : ink = {c})
           /\ \A c \in ink : ink = {c} => Value(line)[1] = line[c]
  <1>1. PICK m \in Nat : m = Len(line) /\ DOMAIN line = 1 .. m
    OBVIOUS
  <1>2. ink \subseteq 1 .. m
    BY <1>1 DEF Inked
  <1>3. CASE ink = {}
    <2>1. Value(line) = <<>>
      BY <1>3 DEF Value
    <2> QED
      BY <1>3, <2>1
  <1>4. CASE ink # {}
    <2>1. PICK a \in 1 .. m : a = Min(ink) /\ a \in ink /\ \A c \in ink : a <= c
      <3>1. ink \subseteq Nat
        BY <1>2
      <3>2. Min(ink) \in ink /\ \A c \in ink : Min(ink) <= c
        BY <1>4, <3>1, LeastOf
      <3> QED
        BY <1>2, <3>2
    <2>2. PICK b \in 1 .. m : b = Max(ink) /\ b \in ink /\ \A c \in ink : c <= b
      BY <1>2, <1>4, GreatestOf
    <2>3. a <= b
      BY <2>1, <2>2
    <2>4. Value(line) = SubSeq(line, a, b)
      BY <1>4, <2>1, <2>2 DEF Value
    <2>5. /\ Value(line) \in Seq(Characters) /\ Len(Value(line)) = b - a + 1
          /\ Value(line)[1] = line[a]
      BY <1>1, <2>3, <2>4, PartOfLine
    <2>6. ASSUME NEW c \in ink, ink = {c} PROVE a = b /\ c = a
      BY <2>1, <2>2, <2>6
    <2>7. ASSUME a = b PROVE ink = {a}
      <3>1. ASSUME NEW c \in ink PROVE c = a
        <4>1. PICK d \in 1 .. m : d = c
          BY <1>2
        <4>2. a <= d /\ d <= b
          BY <2>1, <2>2, <4>1
        <4> QED
          BY <2>7, <4>1, <4>2
      <3> QED
        BY <2>1, <3>1
    <2>8. Len(Value(line)) = 1 <=> a = b
      BY <2>5
    <2>9. (\E c \in ink : ink = {c}) <=> a = b
      BY <2>1, <2>6, <2>7
    <2>10. \A c \in ink : ink = {c} => Value(line)[1] = line[c]
      BY <2>5, <2>6
    <2> QED
      BY <2>5, <2>8, <2>9, <2>10
  <1> QED
    BY <1>3, <1>4

(* The inked places behind a directive are those of what stands behind it. *)
LEMMA InkBehind ==
    ASSUME NEW text \in Seq(Characters), NEW lines \in Page, NEW row, NEW col,
           Layout(text, lines, row, col), NEW p \in Directives(text)
    PROVE  /\ \A q \in Behind(text, p) \ Blank(text) :
                /\ q \in Written(text) /\ row[q] = row[p] /\ col[q] \in Inked(lines[row[p]]) \ {col[p]}
                /\ lines[row[p]][col[q]] = text[q]
           /\ \A c \in Inked(lines[row[p]]) \ {col[p]} : \E q \in Behind(text, p) \ Blank(text) : col[q] = c
  <1>1. PICK k : k = row[p]
    OBVIOUS
  <1>2. PICK ink : ink = Inked(lines[k]) \ {col[p]}
    OBVIOUS
  <1>3. PICK n \in Nat : n = Len(text) /\ DOMAIN text = 1 .. n
    BY SourceType
  <1>4. p \in Written(text) /\ p \notin Blank(text) /\ k \in 1 .. Len(lines)
        /\ Min(Inked(lines[k])) = col[p]
    BY <1>1, DirectivesStand
  <1>5. p \in 1 .. n
    BY <1>3, <1>4, WrittenFacts
  <1>6. PICK m \in Nat : m = Len(lines[k]) /\ Inked(lines[k]) \subseteq 1 .. m
    BY <1>4, InkedType
  <1>7. PICK at \in 1 .. m : at = col[p] /\ at \in Inked(lines[k])
    BY <1>1, <1>4, <1>6, InkIsThere
  <1>8. ASSUME NEW q \in Behind(text, p) \ Blank(text)
        PROVE  q \in Written(text) /\ row[q] = k /\ col[q] \in ink /\ lines[k][col[q]] = text[q]
    <2>1. q \in 1 .. n /\ p < q /\ SameLine(text, p, q) /\ q \notin Blank(text)
      BY <1>3, <1>5 DEF Behind
    <2>2. q \notin Breaks(text)
      BY <1>3, <1>5, <2>1, BreakEnds
    <2>3. q \in Written(text)
      BY <1>3, <2>1, <2>2, UnwrittenFacts
    <2>4. row[q] = k
      BY <1>1, <1>3, <1>4, <1>5, <2>1, SameLineSameRow
    <2>5. col[q] \in Inked(lines[k])
      BY <2>1, <2>3, <2>4, InkIsThere
    <2>6. PICK c \in 1 .. m : c = col[q]
      BY <1>6, <2>5
    <2>7. at < c
      BY <1>1, <1>4, <1>7, <2>1, <2>3, <2>4, <2>6, PlacesAreOrdered
    <2>8. Left(text, q) = text[q]
      BY <1>3, <2>1 DEF Left, Blank
    <2>9. lines[row[q]][col[q]] = Left(text, q)
      BY <2>3, PlaceHolds
    <2> QED
      BY <1>7, <1>2, <2>3, <2>4, <2>5, <2>6, <2>7, <2>8, <2>9
  <1>9. ASSUME NEW c \in ink
        PROVE  \E q \in Behind(text, p) \ Blank(text) : col[q] = c
    <2>1. c \in Inked(lines[k]) /\ c # at
      BY <1>7, <1>2
    <2>2. PICK q \in Written(text) : row[q] = k /\ col[q] = c /\ q \notin Blank(text)
      <3>1. \A d \in Inked(lines[k]) :
                \E q \in Written(text) : row[q] = k /\ col[q] = d /\ q \notin Blank(text)
        BY <1>4, InkIsWritten
      <3> QED
        BY <2>1, <3>1, Zenon
    <2>3. q \in 1 .. n
      BY <1>3, WrittenFacts
    <2>4. ~(c < at)
      <3>1. Inked(lines[k]) \subseteq Nat
        BY <1>6
      <3>2. at <= c
        BY <1>4, <1>7, <2>1, <3>1, LeastOf
      <3>3. c \in Nat
        BY <2>1, <3>1
      <3> QED
        BY <3>2, <3>3
    <2>5. q < p => c < at
      BY <1>1, <1>4, <1>7, <2>2, PlacesAreOrdered
    <2>6. p # q
      BY <1>7, <2>1, <2>2
    <2>7. p < q
      BY <1>5, <2>3, <2>4, <2>5, <2>6
    <2>8. SameLine(text, p, q)
      BY <1>1, <1>3, <1>4, <1>5, <2>2, <2>3, <2>7, SameLineSameRow
    <2>9. q \in Behind(text, p) \ Blank(text)
      BY <1>3, <2>2, <2>3, <2>7, <2>8 DEF Behind
    <2> QED
      BY <2>2, <2>9
  <1> QED
    BY <1>1, <1>2, <1>8, <1>9

(* The program accepts a directive when it names one enabled header. *)
LEMMA AcceptedAreGranted ==
    ASSUME NEW text \in Seq(Characters), NEW lines \in Page, NEW row, NEW col,
           Layout(text, lines, row, col), NEW allowed, allowed \subseteq Headers,
           NEW p \in Directives(text)
    PROVE  Judge(Value(lines[row[p]]), allowed) = "ok" <=> Granted(text, allowed, p)
  <1>1. PICK n \in Nat : n = Len(text) /\ DOMAIN text = 1 .. n
    BY SourceType
  <1>2. PICK k \in 1 .. Len(lines) : k = row[p] /\ Inked(lines[k]) # {} /\ Min(Inked(lines[k])) = col[p]
    <2>1. /\ row[p] \in 1 .. Len(lines) /\ Inked(lines[row[p]]) # {}
          /\ Min(Inked(lines[row[p]])) = col[p]
      BY DirectivesStand
    <2> QED
      BY <2>1
  <1>3. PICK ink : ink = Inked(lines[k]) \ {col[p]}
    OBVIOUS
  <1>4. PICK D : D = Behind(text, p) \ Blank(text)
    OBVIOUS
  <1>5. \A q \in D : q \in Written(text) /\ row[q] = k /\ col[q] \in ink /\ lines[k][col[q]] = text[q]
    <2>1. \A q \in Behind(text, p) \ Blank(text) :
            /\ q \in Written(text) /\ row[q] = row[p] /\ col[q] \in Inked(lines[row[p]]) \ {col[p]}
            /\ lines[row[p]][col[q]] = text[q]
      BY InkBehind
    <2> QED
      BY <1>2, <1>3, <1>4, <2>1
  <1>6. \A c \in ink : \E q \in D : col[q] = c
    <2>1. \A c \in Inked(lines[row[p]]) \ {col[p]} : \E q \in Behind(text, p) \ Blank(text) : col[q] = c
      BY InkBehind
    <2> QED
      BY <1>2, <1>3, <1>4, <2>1
  <1>7. PICK line \in Seq(Characters) :
            line = lines[k] /\ Inked(line) # {} /\ ink = Inked(line) \ {Min(Inked(line))}
    BY <1>2, <1>3, InkedType
  <1>8. PICK value \in Seq(Characters) :
            /\ value = Value(line)
            /\ (Len(value) = 1 <=> \E c \in ink : ink = {c})
            /\ \A c \in ink : ink = {c} => value[1] = line[c]
    BY <1>7, ValueFacts
  <1>9. \A c \in ink : ink = {c} => value[1] = lines[k][c]
    BY <1>7, <1>8
  <1>10. Judge(value, allowed) = "ok" <=> Len(value) = 1 /\ value[1] \in allowed
    BY JudgeAccepts
  <1>11. D \subseteq 1 .. n
    BY <1>1, <1>4 DEF Behind
  (* A position for a place. *)
  <1>12. ASSUME NEW q \in D, NEW r \in D, q # r
         PROVE  col[q] # col[r]
    <2>1. q \in 1 .. n /\ r \in 1 .. n
      BY <1>11
    <2>2. col[q] \in Nat /\ col[r] \in Nat
      BY <1>5, PlaceOf
    <2>3. q < r => col[q] < col[r]
      BY <1>5, PlacesAreOrdered
    <2>4. r < q => col[r] < col[q]
      BY <1>5, PlacesAreOrdered
    <2> QED
      BY <1>12, <2>1, <2>2, <2>3, <2>4
  <1>13. ASSUME NEW c \in ink, ink = {c}, lines[k][c] \in allowed
         PROVE  \E q \in 1 .. n : D = {q} /\ text[q] \in allowed
    <2>1. PICK q \in D : col[q] = c
      BY <1>6
    <2>2. \A r \in D : r = q
      BY <1>5, <1>12, <1>13, <2>1
    <2>3. D = {q} /\ text[q] \in allowed
      BY <1>5, <1>13, <2>1, <2>2
    <2> QED
      BY <1>11, <2>3
  <1>14. ASSUME NEW q \in 1 .. n, D = {q}, text[q] \in allowed
         PROVE  \E c \in ink : ink = {c} /\ lines[k][c] \in allowed
    <2>1. col[q] \in ink /\ lines[k][col[q]] = text[q]
      BY <1>5, <1>14
    <2>2. \A c \in ink : c = col[q]
      BY <1>6, <1>14
    <2> QED
      BY <1>14, <2>1, <2>2
  <1>15. Judge(value, allowed) = "ok" <=> \E c \in ink : ink = {c} /\ lines[k][c] \in allowed
    BY <1>8, <1>9, <1>10
  <1>16. Granted(text, allowed, p) <=> \E q \in 1 .. n : D = {q} /\ text[q] \in allowed
    BY <1>1, <1>4 DEF Granted
  <1> QED
    BY <1>2, <1>7, <1>8, <1>13, <1>14, <1>15, <1>16

-----------------------------------------------------------------------------
(* The line of a directive *)

LEMMA RowIsCounted ==
    ASSUME NEW text \in Seq(Characters), NEW lines, NEW row, NEW col, Layout(text, lines, row, col),
           NEW p \in Written(text)
    PROVE  row[p] = 1 + Cardinality({b \in Breaks(text) : b < p})
  <1>1. PICK n \in Nat : n = Len(text) /\ DOMAIN text = 1 .. n
    BY SourceType
  <1>2. Breaks(text) \subseteq 1 .. n /\ p \in 1 .. n /\ p \notin Breaks(text)
    BY <1>1, WrittenFacts DEF Breaks
  <1> DEFINE Before(i) == {b \in Breaks(text) : b <= i}
             S == {i \in 0 .. n : row[i] = 1 + Cardinality(Before(i))}
  <1>3. \A i \in 0 .. n : IsFiniteSet(Before(i)) /\ Cardinality(Before(i)) \in Nat
    <2>1. IsFiniteSet(1 .. n)
      BY FS_Interval
    <2>2. \A i \in 0 .. n : IsFiniteSet(Before(i))
      BY <1>2, <2>1, FS_Subset
    <2> QED
      BY <2>2, FS_CardinalityType
  <1>4. 0 \in S
    <2>1. Before(0) = {}
      BY <1>2
    <2>2. Cardinality(Before(0)) = 0
      BY <2>1, FS_EmptySet
    <2>3. row[0] = 1
      BY DEF Layout
    <2> QED
      BY <2>2, <2>3
  <1>5. ASSUME NEW i \in 1 .. n, i - 1 \in S
        PROVE  i \in S
    <2>1. row[i - 1] = 1 + Cardinality(Before(i - 1)) /\ i - 1 \in 0 .. n /\ i \in 0 .. n
      BY <1>5
    <2>2. row[i] = IF i \in Breaks(text) THEN row[i - 1] + 1 ELSE row[i - 1]
      BY <1>1 DEF Layout
    <2>3. CASE i \in Breaks(text)
      <3>1. Before(i) = Before(i - 1) \cup {i} /\ i \notin Before(i - 1)
        BY <1>2, <2>3
      <3>2. Cardinality(Before(i)) = Cardinality(Before(i - 1)) + 1
        <4> HIDE DEF Before
        <4>1. IsFiniteSet(Before(i - 1))
          BY <1>3, <2>1
        <4> QED
          BY <3>1, <4>1, FS_AddElement
      <3>3. PICK c \in Nat : c = Cardinality(Before(i - 1))
        BY <1>3, <2>1
      <3>4. row[i] = 1 + Cardinality(Before(i))
        BY <2>1, <2>2, <2>3, <3>2, <3>3
      <3> QED
        BY <2>1, <3>4
    <2>4. CASE i \notin Breaks(text)
      <3>1. Before(i) = Before(i - 1)
        BY <1>2, <2>4
      <3> QED
        BY <2>1, <2>2, <2>4, <3>1
    <2> QED
      BY <2>3, <2>4
  <1>6. 0 .. n \subseteq S
    <2> HIDE DEF S
    <2> QED
      BY <1>4, <1>5, AllPositions
  <1>7. row[p] = 1 + Cardinality(Before(p))
    BY <1>2, <1>6
  <1>8. Before(p) = {b \in Breaks(text) : b < p}
    BY <1>2
  <1> QED
    BY <1>7, <1>8

-----------------------------------------------------------------------------
(* The parser *)

LEMMA RefusedByLine ==
    ASSUME NEW source, NEW allowed, NEW lines, lines = Lines(Cleaned(source))
    PROVE  RefusedLines(source, allowed) =
               {k \in DOMAIN lines : IsDirective(lines[k]) /\ Judge(Value(lines[k]), allowed) # "ok"}
  <1>1. PICK K : K = {k \in DOMAIN lines : IsDirective(lines[k]) /\ Judge(Value(lines[k]), allowed) # "ok"}
    OBVIOUS
  <1>2. PICK E : E = {[line |-> k, code |-> Judge(Value(lines[k]), allowed)] : k \in K}
    OBVIOUS
  <1>3. ValidateDirectIncludes(source, allowed) = E
    BY <1>1, <1>2 DEF ValidateDirectIncludes
  <1>4. \A e \in E : e.line \in K
    BY <1>2
  <1>5. ASSUME NEW k \in K PROVE \E e \in E : e.line = k
    <2>1. [line |-> k, code |-> Judge(Value(lines[k]), allowed)] \in E
      BY <1>2
    <2>2. [line |-> k, code |-> Judge(Value(lines[k]), allowed)].line = k
      OBVIOUS
    <2> QED
      BY <2>1, <2>2
  <1>6. RefusedLines(source, allowed) = {e.line : e \in E}
    BY <1>3 DEF RefusedLines
  <1>7. {e.line : e \in E} = K
    BY <1>4, <1>5
  <1> QED
    BY <1>1, <1>6, <1>7

LEMMA UncommentedType ==
    ASSUME NEW source \in Seq(Characters)
    PROVE  Uncommented(source) \in Seq(Characters)
  <1>1. PICK n \in Nat : n = Len(source) /\ DOMAIN source = 1 .. n /\ \A i \in 1 .. n : source[i] \in Characters
    BY SourceType
  <1>2. \A c \in Characters : Blanked(c) \in Characters
    BY MarksAreCharacters DEF Blanked
  <1>3. Uncommented(source) \in [1 .. n -> Characters]
    BY <1>1, <1>2 DEF Uncommented
  <1> QED
    BY <1>3

LEMMA LinesArePage ==
    ASSUME NEW text \in Seq(Characters)
    PROVE  /\ Lines(SpliceLines(text)) \in Page
           /\ DOMAIN Lines(SpliceLines(text)) = 1 .. Len(Lines(SpliceLines(text)))
  <1>1. PICK G : Builds(text, G)
    BY LinesAreBuilt
  <1>2. Len(text) \in 0 .. Len(text)
    BY SourceType
  <1>3. Lines(SpliceLines(text)) \in Page
    BY <1>1, <1>2 DEF Builds
  <1> QED
    BY <1>3 DEF Page

(* The program refuses the directives that do not name one enabled header, *)
(* and reports each at its line.                                           *)
LEMMA RefusedAreUngranted ==
    ASSUME NEW source \in Seq(Characters), NEW allowed, allowed \subseteq Headers
    PROVE  /\ \A n \in RefusedLines(source, allowed) :
                \E p \in Directives(Uncommented(source)) :
                    n = LineOf(source, p) /\ ~Granted(Uncommented(source), allowed, p)
           /\ \A p \in Directives(Uncommented(source)) :
                ~Granted(Uncommented(source), allowed, p) => LineOf(source, p) \in RefusedLines(source, allowed)
  <1>1. PICK text \in Seq(Characters) : text = Uncommented(source)
    BY UncommentedType
  <1>2. PICK lines : lines = Lines(Cleaned(source))
    OBVIOUS
  <1>3. lines = Lines(SpliceLines(text))
    BY <1>1, <1>2, CommentsAreStripped DEF Cleaned
  <1>4. PICK row, col : Layout(text, lines, row, col)
    BY <1>3, LinesAreLaidOut
  <1>5. lines \in Page /\ DOMAIN lines = 1 .. Len(lines)
    BY <1>3, LinesArePage
  <1>6. RefusedLines(source, allowed) =
            {k \in 1 .. Len(lines) : IsDirective(lines[k]) /\ Judge(Value(lines[k]), allowed) # "ok"}
    BY <1>2, <1>5, RefusedByLine
  <1>7. \A p : LineOf(source, p) = 1 + Cardinality({b \in Breaks(text) : b < p})
    BY <1>1 DEF LineOf
  <1>8. \A p \in Directives(text) : row[p] = 1 + Cardinality({b \in Breaks(text) : b < p})
    <2>1. \A p \in Directives(text) : p \in Written(text)
      BY <1>4, <1>5, DirectivesStand
    <2>2. \A p \in Written(text) : row[p] = 1 + Cardinality({b \in Breaks(text) : b < p})
      BY <1>4, RowIsCounted, Zenon
    <2> QED
      BY <2>1, <2>2
  <1>9. \A p \in Directives(text) : row[p] \in 1 .. Len(lines) /\ IsDirective(lines[row[p]])
    BY <1>4, <1>5, DirectivesStand
  <1>10. \A p \in Directives(text) :
            Judge(Value(lines[row[p]]), allowed) = "ok" <=> Granted(text, allowed, p)
    BY <1>4, <1>5, AcceptedAreGranted
  <1>11. \A k \in 1 .. Len(lines) : IsDirective(lines[k]) => \E p \in Directives(text) : row[p] = k
    BY <1>4, <1>5, StandingAreDirectives
  <1>12. ASSUME NEW k \in RefusedLines(source, allowed)
         PROVE  \E p \in Directives(text) : k = LineOf(source, p) /\ ~Granted(text, allowed, p)
    <2>1. k \in 1 .. Len(lines) /\ IsDirective(lines[k]) /\ Judge(Value(lines[k]), allowed) # "ok"
      BY <1>6
    <2>2. PICK p \in Directives(text) : row[p] = k
      BY <1>11, <2>1
    <2>3. ~Granted(text, allowed, p)
      BY <1>10, <2>1, <2>2
    <2> QED
      BY <1>7, <1>8, <2>2, <2>3
  <1>13. ASSUME NEW p \in Directives(text), ~Granted(text, allowed, p)
         PROVE  LineOf(source, p) \in RefusedLines(source, allowed)
    <2>1. LineOf(source, p) = row[p]
      BY <1>7, <1>8
    <2> QED
      BY <1>6, <1>9, <1>10, <1>13, <2>1
  <1> QED
    BY <1>1, <1>12, <1>13

-----------------------------------------------------------------------------
(* What the compiler reads *)

(* Regions makes sense of every set of marks: it is decided from left to   *)
(* right which of them lie in an earlier region.                           *)
LEMMA RegionsAreDecided ==
    ASSUME NEW n \in Nat, NEW openers, openers \subseteq 1 .. n, NEW last
    PROVE  /\ Regions(openers, last) \subseteq openers
           /\ \A p \in openers : p \in Regions(openers, last) <=>
                ~ \E c \in Regions(openers, last) : c < p /\ p <= last[c]
  <1> DEFINE Upto(R, i) == \A p \in openers : p <= i =>
                                (p \in R <=> ~ \E c \in R : c < p /\ p <= last[c])
             S == {i \in 0 .. n : \E R \in SUBSET openers : Upto(R, i)}
  <1>1. 0 \in S
    <2>1. \A p \in openers : ~(p <= 0)
      OBVIOUS
    <2>2. {} \in SUBSET openers /\ Upto({}, 0)
      BY <2>1
    <2> HIDE DEF Upto
    <2> QED
      BY <2>2
  <1>2. ASSUME NEW i \in 1 .. n, i - 1 \in S
        PROVE  i \in S
    <2>1. PICK Q \in SUBSET openers : Upto(Q, i - 1)
      BY <1>2
    <2> DEFINE P == {p \in Q : p < i}
               R == P \cup {p \in openers : p = i /\ ~ \E c \in P : p <= last[c]}
    <2>2. \A c : c \in R /\ c < i <=> c \in P
      OBVIOUS
    <2>3. ASSUME NEW p \in openers, p < i
          PROVE  \A c : c \in R /\ c < p <=> c \in Q /\ c < p
      <3>1. p \in Nat /\ openers \subseteq Nat
        OBVIOUS
      <3>2. \A c \in openers : c < p => c # i /\ c < i
        BY <1>2, <2>3, <3>1
      <3> QED
        BY <3>2
    <2>4. ASSUME NEW p \in openers, p < i
          PROVE  p \in R <=> ~ \E c \in R : c < p /\ p <= last[c]
      <3>1. p \in R <=> p \in Q
        BY <2>4
      <3>2. p \in Q <=> ~ \E c \in Q : c < p /\ p <= last[c]
        BY <2>1, <2>4
      <3> HIDE DEF R
      <3> QED
        BY <2>3, <2>4, <3>1, <3>2
    <2>5. ASSUME NEW p \in openers, p = i
          PROVE  p \in R <=> ~ \E c \in R : c < p /\ p <= last[c]
      <3>1. p \in R <=> ~ \E c \in P : p <= last[c]
        BY <2>5
      <3> HIDE DEF R, P
      <3> QED
        BY <2>2, <2>5, <3>1
    <2>6. Upto(R, i)
      <3> HIDE DEF R
      <3> QED
        BY <2>4, <2>5
    <2>7. R \in SUBSET openers
      OBVIOUS
    <2> HIDE DEF R, Upto
    <2> QED
      BY <2>6, <2>7
  <1>3. n \in S
    <2> HIDE DEF S
    <2> QED
      BY <1>1, <1>2, AllPositions
  <1>4. PICK R \in SUBSET openers : \A p \in openers : p \in R <=> ~ \E c \in R : c < p /\ p <= last[c]
    <2>1. PICK R \in SUBSET openers : Upto(R, n)
      <3> HIDE DEF Upto
      <3> QED
        BY <1>3
    <2> QED
      BY <2>1
  <1> QED
    BY <1>4, Zenon DEF Regions

(* A comment that begins behind p. *)
LEMMA CommentBegins ==
    ASSUME NEW source \in Seq(Characters), NEW p \in Nat, p \notin Commented(source),
           NEW x \in Commented(source), p < x
    PROVE  \E c \in 1 .. Len(source) :
                /\ p < c /\ c <= x /\ c + 1 <= Len(source)
                /\ source[c] = "/" /\ source[c + 1] \in {"*", "/"}
  <1>1. PICK c \in Comments(source) : x \in c .. Closer(source, c)
    BY DEF Commented
  <1>2. c \in Openers(source)
    BY CommentsAreEntered, EnteredIsOpener
  <1>3. /\ c \in 1 .. Len(source) /\ c + 1 <= Len(source)
        /\ source[c] = "/" /\ source[c + 1] \in {"*", "/"}
        /\ Closer(source, c) \in c + 1 .. Len(source)
    BY <1>2, CloserValue
  <1>4. p \notin c .. Closer(source, c)
    BY <1>1 DEF Commented
  <1> QED
    BY <1>1, <1>3, <1>4

LEMMA UncommentedFacts ==
    ASSUME NEW source \in Seq(Characters), NEW text, text = Uncommented(source)
    PROVE  /\ DOMAIN text = 1 .. Len(source) /\ Len(text) = Len(source)
           /\ \A q \in 1 .. Len(source) :
                /\ q \notin Commented(source) => text[q] = source[q]
                /\ q \in Commented(source) => text[q] = IF source[q] = "\n" THEN "\n" ELSE " "
                /\ text[q] = "\n" <=> source[q] = "\n"
                /\ text[q] = "\\" => source[q] = "\\"
                /\ text[q] = Include => source[q] = Include /\ q \notin Commented(source)
           /\ Splices(text) \subseteq Splices(source)
           /\ \A q \in Splices(source) : q \in Commented(source) \/ q \in Splices(text)
  <1>1. PICK n \in Nat : n = Len(source) /\ DOMAIN source = 1 .. n
    BY SourceType
  <1>2. /\ DOMAIN text = 1 .. n /\ Len(text) = n
        /\ \A q \in 1 .. n : text[q] = IF q \in Commented(source) THEN Blanked(source[q]) ELSE source[q]
    BY <1>1, UncommentedType, SourceType DEF Uncommented
  <1>3. \A q \in 1 .. n :
            /\ q \notin Commented(source) => text[q] = source[q]
            /\ q \in Commented(source) => text[q] = IF source[q] = "\n" THEN "\n" ELSE " "
    BY <1>2 DEF Blanked
  <1>4. \A q \in 1 .. n :
            /\ text[q] = "\n" <=> source[q] = "\n"
            /\ text[q] = "\\" => source[q] = "\\"
            /\ text[q] = Include => source[q] = Include /\ q \notin Commented(source)
    BY <1>3, TokensDiffer
  <1>5. \A q : q \in Splices(text) <=> q \in 1 .. n /\ q + 1 <= n /\ text[q] = "\\" /\ text[q + 1] = "\n"
    BY <1>2 DEF Splices, Starts
  <1>6. \A q : q \in Splices(source) <=> q \in 1 .. n /\ q + 1 <= n /\ source[q] = "\\" /\ source[q + 1] = "\n"
    BY <1>1 DEF Splices, Starts
  <1>7. ASSUME NEW q \in Splices(text) PROVE q \in Splices(source)
    BY <1>4, <1>5, <1>6
  <1>8. ASSUME NEW q \in Splices(source), q \notin Commented(source) PROVE q \in Splices(text)
    <2>1. q \in 1 .. n /\ q + 1 \in 1 .. n /\ source[q] = "\\" /\ source[q + 1] = "\n"
      BY <1>6
    <2>2. text[q] = "\\" /\ text[q + 1] = "\n"
      BY <1>3, <1>4, <1>8, <2>1
    <2> QED
      BY <1>5, <2>1, <2>2
  <1> QED
    BY <1>1, <1>2, <1>3, <1>4, <1>7, <1>8

LEMMA KeptFacts ==
    ASSUME NEW source \in Seq(Characters)
    PROVE  /\ \A q \in Splices(source) : q \in 1 .. Len(source) /\ source[q] = "\\" /\ source[q + 1] = "\n"
           /\ \A q \in Kept(source) : q \in 1 .. Len(source) /\ q \notin Splices(source) /\ q - 1 \notin Splices(source)
           /\ \A q \in 1 .. Len(source) :
                q \in Kept(source) \/ q \in Splices(source) \/ (q - 1 \in Splices(source) /\ source[q] = "\n")
           /\ Tokens(source) \subseteq 1 .. Len(source)
  <1>1. PICK n \in Nat : n = Len(source) /\ DOMAIN source = 1 .. n
    BY SourceType
  <1>2. \A q \in Splices(source) : q \in 1 .. n /\ source[q] = "\\" /\ source[q + 1] = "\n"
    BY <1>1 DEF Splices, Starts
  <1>3. \A q \in Kept(source) : q \in 1 .. n /\ q \notin Splices(source) /\ q - 1 \notin Splices(source)
    BY <1>1 DEF Kept
  <1>4. ASSUME NEW q \in 1 .. n, q - 1 \in Splices(source)
        PROVE  source[q] = "\n"
    <2>1. source[q - 1 + 1] = "\n" /\ q - 1 + 1 = q
      BY <1>2, <1>4
    <2> QED
      BY <2>1
  <1>5. \A q \in 1 .. n : q \in Kept(source) \/ q \in Splices(source) \/ q - 1 \in Splices(source)
    BY <1>1 DEF Kept
  <1>6. Tokens(source) \subseteq 1 .. n
    BY <1>3 DEF Tokens, CppCode
  <1> QED
    BY <1>1, <1>2, <1>3, <1>4, <1>5, <1>6

(* Where comments are read alike, what is no token for the compiler is     *)
(* blank for the program, or ends a line; and every line of the program    *)
(* lies in one of the compiler's.                                          *)
LEMMA TokensAreInk ==
    ASSUME NEW source \in Seq(Characters), ReadsCommentsAlike(source), NEW text, text = Uncommented(source)
    PROVE  /\ \A q \in 1 .. Len(source) : q \notin Breaks(text) /\ q \notin Blank(text) => q \in Tokens(source)
           /\ \A q \in Tokens(source) :
                /\ q \in 1 .. Len(source) /\ text[q] = source[q] /\ q \notin Commented(source)
                /\ q \notin Breaks(text) /\ q \notin Blank(text) /\ q \notin Splices(text)
           /\ CppBreaks(source) \subseteq Breaks(text)
  <1>1. PICK n \in Nat : n = Len(source) /\ DOMAIN source = 1 .. n
    BY SourceType
  <1>2. /\ DOMAIN text = 1 .. n
        /\ \A q \in 1 .. n :
            /\ q \notin Commented(source) => text[q] = source[q]
            /\ q \in Commented(source) => text[q] \in {" ", "\n"}
            /\ source[q] = "\n" => text[q] = "\n"
        /\ Splices(text) \subseteq Splices(source)
    BY <1>1, UncommentedFacts
  <1>3. \A q \in Kept(source) : q \in CppCommented(source) <=> q \in Commented(source)
    BY DEF ReadsCommentsAlike
  <1>4. ASSUME NEW q \in 1 .. n, q \notin Breaks(text), q \notin Tokens(source)
        PROVE  q \in Blank(text)
    <2>1. CASE q \in Splices(source)
      BY <1>1, <1>2, <2>1, UncommentedFacts, KeptFacts DEF Blank
    <2>2. CASE q \notin Splices(source)
      <3>1. text[q] \in {" ", "\n"}
        <4>1. CASE q \in Commented(source)
          BY <1>2, <4>1
        <4>2. CASE q \notin Commented(source)
          <5>1. source[q] \in {" ", "\n"}
            BY <1>1, <1>3, <1>4, <2>2, <4>2, KeptFacts DEF Tokens, CppCode
          <5> QED
            BY <1>2, <4>2, <5>1
        <4> QED
          BY <4>1, <4>2
      <3>2. text[q] = "\n" => q - 1 \in Splices(text)
        BY <1>2, <1>4 DEF Breaks
      <3> QED
        BY <1>2, <3>1, <3>2 DEF Blank
    <2> QED
      BY <2>1, <2>2
  <1>5. ASSUME NEW q \in Tokens(source)
        PROVE  /\ q \in 1 .. n /\ text[q] = source[q] /\ q \notin Commented(source)
               /\ q \notin Breaks(text) /\ q \notin Blank(text) /\ q \notin Splices(text)
    <2>1. /\ q \in Kept(source) /\ q \in 1 .. n /\ q \notin Commented(source)
          /\ source[q] # " " /\ source[q] # "\n"
      BY <1>1, <1>3, KeptFacts DEF Tokens, CppCode
    <2>2. text[q] = source[q]
      BY <1>2, <2>1
    <2>3. q \notin Splices(text) /\ q - 1 \notin Splices(text)
      BY <1>2, <2>1, KeptFacts
    <2> QED
      BY <2>1, <2>2, <2>3 DEF Breaks, Blank
  <1>6. ASSUME NEW b \in CppBreaks(source) PROVE b \in Breaks(text)
    <2>1. b \in Kept(source) /\ b \in 1 .. n /\ source[b] = "\n" /\ b - 1 \notin Splices(source)
      BY <1>1, KeptFacts DEF CppBreaks, CppCode
    <2>2. text[b] = "\n" /\ b - 1 \notin Splices(text)
      BY <1>2, <2>1
    <2> QED
      BY <1>2, <2>1, <2>2 DEF Breaks
  <1> QED
    BY <1>1, <1>4, <1>5, <1>6

(* The program refuses at its line every directive of the compiler's that  *)
(* includes anything but an enabled header, if a blank follows the word.   *)
LEMMA ViolationsAreUngranted ==
    ASSUME NEW source \in Seq(Characters), ReadsCommentsAlike(source), NEW text, text = Uncommented(source),
           NEW allowed, NEW p \in Violations(source, allowed), ~Glued(source, p)
    PROVE  p \in Directives(text) /\ ~Granted(text, allowed, p)
  <1>1. PICK n \in Nat : n = Len(source) /\ DOMAIN source = 1 .. n
    BY SourceType
  <1>2. text \in Seq(Characters) /\ Len(text) = n /\ DOMAIN text = 1 .. n
    BY <1>1, UncommentedType, UncommentedFacts
  <1>3. /\ \A q \in 1 .. n : q \notin Breaks(text) /\ q \notin Blank(text) => q \in Tokens(source)
        /\ \A q \in Tokens(source) :
            /\ q \in 1 .. n /\ text[q] = source[q] /\ q \notin Commented(source)
            /\ q \notin Breaks(text) /\ q \notin Blank(text) /\ q \notin Splices(text)
        /\ CppBreaks(source) \subseteq Breaks(text)
    BY <1>1, TokensAreInk
  <1>4. /\ p \in Tokens(source) /\ source[p] = Include
        /\ \A q \in Tokens(source) : q < p => p \notin Operand(source, q)
        /\ Operand(source, p) # {} /\ source[Min(Operand(source, p))] \notin allowed
    BY DEF Violations, CppDirectives
  <1>5. \A q : \A r \in Tokens(source) :
            r \in Operand(source, q) <=> q < r /\ \A b \in CppBreaks(source) : q < b => r < b
    BY DEF Operand
  <1>6. \A b \in Breaks(text) : b \in 1 .. n /\ text[b] = "\n" /\ source[b] = "\n" /\ b - 1 \notin Splices(text)
    <2>1. \A b \in Breaks(text) : b \in 1 .. n /\ text[b] = "\n" /\ b - 1 \notin Splices(text)
      BY <1>2 DEF Breaks
    <2>2. \A q \in 1 .. n : text[q] = "\n" <=> source[q] = "\n"
      BY <1>1, UncommentedFacts
    <2> QED
      BY <2>1, <2>2
  <1>7. PICK d : d = Min(Operand(source, p))
    OBVIOUS
  <1>8. d \in Operand(source, p) /\ \A q \in Operand(source, p) : d <= q
    <2>1. Operand(source, p) \subseteq Nat
      BY <1>3 DEF Operand
    <2> QED
      BY <1>4, <1>7, <2>1, LeastOf
  <1>9. /\ p \in 1 .. n /\ d \in 1 .. n /\ d \in Tokens(source) /\ p < d
        /\ \A b \in CppBreaks(source) : p < b => d < b
    BY <1>3, <1>4, <1>5, <1>8 DEF Operand
  <1>10. source[p] # "\n" /\ source[p] # "\\" /\ source[p] # "/"
    BY <1>4, TokensDiffer DEF Include
  <1>11. text[p] = Include
    BY <1>3, <1>4
  <1>12. \A q \in 1 .. p - 1 : q \in Blank(text) \/ ~SameLine(text, q, p)
    <2> SUFFICES ASSUME NEW q \in 1 .. p - 1, q \notin Blank(text), SameLine(text, q, p)
                 PROVE  FALSE
      OBVIOUS
    <2>1. q \in 1 .. n /\ q < p /\ q \notin Breaks(text)
      BY <1>9 DEF SameLine
    <2>2. q \in Tokens(source)
      BY <1>3, <2>1
    <2>3. PICK b \in CppBreaks(source) : q < b /\ ~(p < b)
      BY <1>4, <1>5, <2>1, <2>2
    <2>4. b \in Breaks(text) /\ b \in 1 .. n
      BY <1>3, <1>6
    <2> QED
      BY <1>9, <2>1, <2>3, <2>4 DEF SameLine
  (* A line end that only the program takes for one lies behind a comment. *)
  <1>13. ASSUME NEW b \in Breaks(text), p < b, b <= d
         PROVE  \E c \in 1 .. n : p < c /\ c + 1 < b /\ {source[c], source[c + 1]} \subseteq {"/", "*"}
    <2>1. /\ b \in 1 .. n /\ source[b] = "\n" /\ text[b] = "\n" /\ b - 1 \notin Splices(text)
          /\ b \notin CppBreaks(source)
      BY <1>6, <1>9, <1>13
    <2>2. \E x \in {b - 1, b} : x \in Commented(source) /\ p < x
      <3>1. CASE b \in Kept(source)
        <4>1. b \in CppCommented(source)
          BY <2>1, <3>1 DEF CppBreaks, CppCode
        <4> QED
          BY <1>13, <3>1, <4>1 DEF ReadsCommentsAlike
      <3>2. CASE b \notin Kept(source)
        <4>1. b \notin Splices(source)
          BY <2>1, KeptFacts
        <4>2. b - 1 \in Splices(source)
          BY <1>1, <2>1, <3>2, <4>1, KeptFacts
        <4>3. b - 1 \in Commented(source)
          BY <2>1, <4>2, UncommentedFacts
        <4>4. source[b - 1] = "\\" /\ b - 1 # p
          BY <1>10, <4>2, KeptFacts
        <4> QED
          BY <1>9, <1>13, <2>1, <4>3, <4>4
      <3> QED
        BY <3>1, <3>2
    <2>3. PICK x \in {b - 1, b} : x \in Commented(source) /\ p < x
      BY <2>2
    <2>4. p \in Nat /\ p \notin Commented(source)
      BY <1>3, <1>4, <1>9
    <2>5. PICK c \in 1 .. n : p < c /\ c <= x /\ c + 1 <= n /\ source[c] = "/" /\ source[c + 1] \in {"*", "/"}
      BY <1>1, <2>3, <2>4, CommentBegins
    <2>6. c # b /\ c + 1 # b
      BY <2>1, <2>5
    <2>7. c + 1 < b
      BY <2>1, <2>3, <2>5, <2>6
    <2> QED
      BY <2>5, <2>7
  <1>14. p + 1 \in Blank(text) /\ p + 1 \notin Breaks(text) /\ p + 1 < d
    <2>1. p + 1 \in 1 .. n /\ p + 1 \notin Tokens(source)
      BY <1>9 DEF Glued
    <2>2. p + 1 \notin Breaks(text)
      <3> SUFFICES ASSUME p + 1 \in Breaks(text) PROVE FALSE
        OBVIOUS
      <3>1. PICK c \in 1 .. n : p < c /\ c + 1 < p + 1
        BY <1>9, <1>13
      <3> QED
        BY <1>9, <3>1
    <2> QED
      BY <1>3, <1>9, <2>1, <2>2
  <1>15. \A q \in 1 .. n : q \in Behind(text, p) <=> p < q /\ \A b \in Breaks(text) : p < b => q < b
    <2>1. p \notin Breaks(text)
      BY <1>3, <1>4
    <2> SUFFICES ASSUME NEW q \in 1 .. n
                 PROVE  q \in Behind(text, p) <=> p < q /\ \A b \in Breaks(text) : p < b => q < b
      OBVIOUS
    <2>2. \A b \in Breaks(text) : b \in Nat /\ b # p
      BY <1>6, <2>1
    <2> QED
      BY <1>2, <1>9, <2>2 DEF Behind, SameLine
  <1>16. (\E q, r \in Behind(text, p) \ Splices(text) : q # r) /\ ~Granted(text, allowed, p)
    <2>1. CASE \A b \in Breaks(text) : p < b => d < b
      <3>1. d \in Behind(text, p) /\ d \notin Splices(text) /\ d \notin Blank(text)
        BY <1>3, <1>9, <1>15, <2>1
      <3>2. \E q \in Behind(text, p) \ Splices(text) : q # d
        <4>1. p + 1 \in Behind(text, p)
          BY <1>9, <1>14, <1>15, <2>1, <1>6
        <4>2. CASE p + 1 \notin Splices(text)
          BY <1>9, <1>14, <4>1, <4>2
        <4>3. CASE p + 1 \in Splices(text)
          <5>1. /\ p + 2 \in 1 .. n /\ p + 2 \notin Splices(text)
                /\ p + 2 \in Blank(text) /\ p + 2 \notin Breaks(text)
            <6>1. p + 1 + 1 = p + 2 /\ p + 2 - 1 = p + 1
              BY <1>9
            <6>2. \A q \in Splices(text) :
                    q + 1 \in 1 .. n /\ q + 1 \notin Splices(text) /\ q + 1 \notin Breaks(text)
              BY <1>2, SpliceFacts
            <6>3. p + 2 \in 1 .. n /\ p + 2 \notin Splices(text) /\ p + 2 \notin Breaks(text)
              BY <4>3, <6>1, <6>2
            <6>4. PICK r \in 1 .. n : r = p + 2 /\ r - 1 = p + 1
              BY <1>9, <6>3
            <6>5. r - 1 \in Splices(text)
              BY <4>3, <6>4
            <6>6. r \in Blank(text)
              BY <1>2, <6>5 DEF Blank
            <6> QED
              BY <6>3, <6>4, <6>6
          <5>2. p + 2 # d
            BY <3>1, <5>1
          <5>3. p + 2 < d
            BY <1>9, <1>14, <5>2
          <5>4. p + 2 \in Behind(text, p)
            BY <1>6, <1>9, <1>15, <2>1, <5>1, <5>3
          <5> QED
            BY <5>1, <5>2, <5>4
        <4> QED
          BY <4>2, <4>3
      <3>3. ~Granted(text, allowed, p)
        <4> SUFFICES ASSUME NEW q \in DOMAIN text, Behind(text, p) \ Blank(text) = {q}, text[q] \in allowed
                     PROVE  FALSE
          BY DEF Granted
        <4>1. q = d
          BY <3>1
        <4> QED
          BY <1>3, <1>4, <1>7, <1>9, <4>1
      <3> QED
        BY <3>1, <3>2, <3>3
    <2>2. CASE ~ \A b \in Breaks(text) : p < b => d < b
      <3> DEFINE B == {b \in Breaks(text) : p < b /\ b <= d}
      <3>1. B # {} /\ B \subseteq Nat
        BY <1>6, <1>9, <2>2
      <3>2. PICK b \in B : \A y \in B : b <= y
        <4> HIDE DEF B
        <4> QED
          BY <3>1, LeastNat
      <3>3. /\ b \in Breaks(text) /\ b \in 1 .. n /\ p < b /\ b <= d
            /\ \A y \in Breaks(text) : p < y => b <= y
        BY <1>6, <1>9, <3>2
      <3>4. PICK c \in 1 .. n : p < c /\ c + 1 < b /\ {source[c], source[c + 1]} \subseteq {"/", "*"}
        BY <1>13, <3>3
      <3>5. c \in Behind(text, p) /\ c + 1 \in Behind(text, p)
        <4>1. c + 1 \in 1 .. n
          BY <3>3, <3>4
        <4>2. \A y \in Breaks(text) : y \in Nat /\ (p < y => c < y /\ c + 1 < y)
          BY <1>6, <3>3, <3>4
        <4> QED
          BY <1>9, <1>15, <3>4, <4>1, <4>2
      <3>6. c \notin Splices(text) /\ c + 1 \notin Splices(text) /\ c # c + 1
        <4>1. \A q \in Splices(text) : source[q] = "\\"
          BY KeptFacts, UncommentedFacts
        <4>2. source[c] # "\\" /\ source[c + 1] # "\\"
          BY <3>4
        <4> QED
          BY <4>1, <4>2
      <3>7. Behind(text, p) \ Blank(text) = {}
        <4> SUFFICES ASSUME NEW q \in Behind(text, p), q \notin Blank(text) PROVE FALSE
          OBVIOUS
        <4>1. q \in 1 .. n
          BY <1>2 DEF Behind
        <4>2. p < q /\ q < b /\ q \notin Breaks(text)
          BY <1>15, <3>3, <4>1
        <4>3. q \in Tokens(source)
          BY <1>3, <4>1, <4>2
        <4>4. \A y \in CppBreaks(source) : p < y => q < y
          BY <1>3, <1>15, <4>1
        <4>5. q \in Operand(source, p)
          BY <1>5, <4>2, <4>3, <4>4
        <4>6. d <= q
          BY <1>8, <4>5
        <4> QED
          BY <1>9, <3>3, <4>1, <4>2, <4>6
      <3> QED
        BY <3>5, <3>6, <3>7 DEF Granted
    <2> QED
      BY <2>1, <2>2
  <1> QED
    BY <1>2, <1>9, <1>11, <1>12, <1>14, <1>16 DEF Directives

LEMMA CppLastFacts ==
    ASSUME NEW source \in Seq(Characters), NEW o \in Kept(source)
    PROVE  /\ CppLast(source, o) \in Nat
           /\ source[o] = Quote =>
                \A b \in Kept(source) : o < b /\ source[b] = "\n" => CppLast(source, o) <= b - 1
  <1> DEFINE kept == Kept(source)
             lineEnds == {q - 1 : q \in {r \in kept : o < r /\ source[r] = "\n"}}
             quotes == {q \in kept : o < q /\ source[q] = Quote}
             blockEnds == {q \in kept : \E s, r \in kept : /\ o < s /\ s < r
                                                           /\ Follows(kept, o, s)
                                                           /\ Pair(source, kept, r, q, "*", "/")}
             ends == IF source[o] = Quote THEN lineEnds \cup quotes
                     ELSE IF OpensBlock(source, kept, o) THEN blockEnds ELSE lineEnds
  <1>1. \A q \in kept : q \in 1 .. Len(source)
    BY KeptFacts
  <1>2. Len(source) \in Nat
    OBVIOUS
  <1>3. lineEnds \subseteq Nat /\ quotes \subseteq Nat /\ blockEnds \subseteq Nat
    BY <1>1, <1>2
  <1>4. ends \subseteq Nat
    <2> HIDE DEF lineEnds, quotes, blockEnds
    <2> QED
      BY <1>3
  <1>5. CppLast(source, o) = IF ends = {} THEN Len(source) ELSE Min(ends)
    BY DEF CppLast
  <1>6. ends # {} => Min(ends) \in ends /\ \A y \in ends : Min(ends) <= y
    <2> HIDE DEF ends
    <2> QED
      BY <1>4, LeastOf
  <1>7. CppLast(source, o) \in Nat
    <2> HIDE DEF ends
    <2> QED
      BY <1>2, <1>4, <1>5, <1>6
  <1>8. ASSUME source[o] = Quote, NEW b \in Kept(source), o < b, source[b] = "\n"
        PROVE  CppLast(source, o) <= b - 1
    <2>1. b - 1 \in lineEnds
      BY <1>8
    <2>2. b - 1 \in ends
      <3> HIDE DEF lineEnds, quotes, blockEnds
      <3> QED
        BY <1>8, <2>1
    <2> HIDE DEF ends
    <2> QED
      BY <1>5, <1>6, <2>2
  <1> QED
    BY <1>7, <1>8

(* It refuses nothing else, if no comment looks like the end of a line.    *)
LEMMA UngrantedAreRefusable ==
    ASSUME NEW source \in Seq(Characters), ReadsCommentsAlike(source), NEW text, text = Uncommented(source),
           \A q \in Commented(source) : source[q] \notin {"\n", "\\"},
           NEW allowed, NEW p \in Directives(text), ~Granted(text, allowed, p)
    PROVE  p \in CppDirectives(source) /\ ~IncludesOnly(source, p, allowed)
  <1>1. PICK n \in Nat : n = Len(source) /\ DOMAIN source = 1 .. n
    BY SourceType
  <1>2. /\ text \in Seq(Characters) /\ Len(text) = n /\ DOMAIN text = 1 .. n
        /\ \A q \in 1 .. n : text[q] = "\n" => source[q] = "\n"
    BY <1>1, UncommentedType, UncommentedFacts
  <1>3. /\ \A q \in 1 .. n : q \notin Breaks(text) /\ q \notin Blank(text) => q \in Tokens(source)
        /\ \A q \in Tokens(source) :
            /\ q \in 1 .. n /\ text[q] = source[q] /\ q \notin Commented(source)
            /\ q \notin Breaks(text) /\ q \notin Blank(text) /\ q \notin Splices(text)
        /\ CppBreaks(source) \subseteq Breaks(text)
    BY <1>1, TokensAreInk
  <1>4. /\ p \in 1 .. n /\ text[p] = Include
        /\ \A q \in 1 .. p - 1 : q \in Blank(text) \/ ~SameLine(text, q, p)
    BY <1>2 DEF Directives
  <1>5. \A q : \A r \in Tokens(source) :
            r \in Operand(source, q) <=> q < r /\ \A b \in CppBreaks(source) : q < b => r < b
    BY DEF Operand
  <1>6. CppBreaks(source) = Breaks(text)
    <2> SUFFICES ASSUME NEW b \in Breaks(text) PROVE b \in CppBreaks(source)
      BY <1>3
    <2>1. b \in 1 .. n /\ text[b] = "\n" /\ b - 1 \notin Splices(text)
      BY <1>2 DEF Breaks
    <2>2. source[b] = "\n"
      BY <1>2, <2>1
    <2>3. b \notin Splices(source)
      BY <2>2, KeptFacts
    <2>4. b - 1 \notin Splices(source)
      <3>1. \A q \in Splices(source) : q \in Commented(source) \/ q \in Splices(text)
        BY UncommentedFacts
      <3>2. \A q \in Splices(source) : q \notin Commented(source)
        BY KeptFacts
      <3> QED
        BY <2>1, <3>1, <3>2
    <2>5. b \in Kept(source)
      BY <1>1, <2>1, <2>3, <2>4 DEF Kept
    <2>6. b \notin CppCommented(source)
      BY <2>2, <2>5 DEF ReadsCommentsAlike
    <2> QED
      BY <2>2, <2>5, <2>6 DEF CppBreaks, CppCode
  <1>7. p \in Tokens(source) /\ source[p] = Include
    <2>1. source[p] = Include
      BY <1>1, <1>4, UncommentedFacts
    <2>2. p \notin Breaks(text) /\ p \notin Splices(text) /\ text[p] # " "
      BY <1>2, <1>4, TokensDiffer DEF Breaks, Splices, Starts
    <2>3. p - 1 \notin Splices(text)
      <3>1. \A q \in Splices(text) : text[q + 1] = "\n"
        BY <1>2, SpliceFacts
      <3>2. p - 1 + 1 = p
        BY <1>4
      <3> QED
        BY <1>4, <3>1, <3>2, TokensDiffer
    <2> QED
      BY <1>2, <1>3, <1>4, <2>1, <2>2, <2>3 DEF Blank
  <1>8. ASSUME NEW q \in Tokens(source), q < p PROVE \E b \in CppBreaks(source) : q < b /\ b < p
    <2>1. q \in 1 .. p - 1 /\ q \notin Blank(text)
      BY <1>3, <1>4, <1>8
    <2>2. PICK b \in Breaks(text) : q <= b /\ b <= p
      BY <1>4, <2>1 DEF SameLine
    <2>3. b \in 1 .. n /\ b # q /\ b # p
      BY <1>2, <1>3, <1>7, <2>2 DEF Breaks
    <2> QED
      BY <1>3, <1>4, <1>6, <2>1, <2>2, <2>3
  <1>9. \A q \in Tokens(source) : q < p => p \notin Operand(source, q)
    <2> SUFFICES ASSUME NEW q \in Tokens(source), q < p, p \in Operand(source, q) PROVE FALSE
      OBVIOUS
    <2>1. PICK b \in CppBreaks(source) : q < b /\ b < p
      BY <1>8
    <2>2. p < b /\ b \in 1 .. n
      BY <1>2, <1>5, <1>6, <1>7, <2>1 DEF Breaks
    <2> QED
      BY <1>4, <2>1, <2>2
  <1>10. p \notin CppLiterals(source)
    <2> SUFFICES ASSUME NEW o \in CppRegions(source), source[o] = Quote, p \in o .. CppLast(source, o)
                 PROVE  FALSE
      BY DEF CppLiterals, CppInside
    <2>1. PICK last : last = [c \in CppOpeners(source) |-> CppLast(source, c)]
      OBVIOUS
    <2>2. /\ CppRegions(source) \subseteq CppOpeners(source)
          /\ \A q \in CppOpeners(source) : q \in CppRegions(source) <=>
                ~ \E c \in CppRegions(source) : c < q /\ q <= last[c]
      <3>1. CppOpeners(source) \subseteq 1 .. n
        BY <1>1, KeptFacts DEF CppOpeners
      <3>2. CppRegions(source) = Regions(CppOpeners(source), last)
        BY <2>1 DEF CppRegions
      <3>3. \A openers \in SUBSET (1 .. n) :
                /\ Regions(openers, last) \subseteq openers
                /\ \A q \in openers : q \in Regions(openers, last) <=>
                        ~ \E c \in Regions(openers, last) : c < q /\ q <= last[c]
        BY <1>1, RegionsAreDecided
      <3>4. PICK openers \in SUBSET (1 .. n) : openers = CppOpeners(source)
        BY <3>1
      <3> QED
        BY <3>2, <3>3, <3>4
    <2>3. o \in Kept(source) /\ o \in 1 .. n /\ o < p
      <3>1. o \in Kept(source) /\ o \in 1 .. n
        BY <1>1, <2>2, KeptFacts DEF CppOpeners
      <3>2. CppLast(source, o) \in Nat
        BY <3>1, CppLastFacts
      <3>3. source[o] # source[p]
        BY <1>7, TokensDiffer
      <3> QED
        BY <1>4, <3>1, <3>2, <3>3
    <2>4. o \notin CppCommented(source)
      <3> SUFFICES ASSUME NEW c \in CppRegions(source), source[c] = "/", o \in c .. CppLast(source, c)
                   PROVE  FALSE
        BY DEF CppCommented, CppInside
      <3>1. c # o /\ c \in 1 .. n
        BY <1>1, <2>2, KeptFacts DEF CppOpeners, Quote
      <3>2. c < o /\ o <= last[c]
        BY <2>1, <2>2, <2>3, <3>1
      <3> QED
        BY <2>2, <3>2
    <2>5. o \in Tokens(source)
      BY <2>3, <2>4 DEF Tokens, CppCode, Quote
    <2>6. PICK b \in CppBreaks(source) : o < b /\ b < p
      BY <1>8, <2>3, <2>5
    <2>7. b \in Kept(source) /\ source[b] = "\n" /\ b \in 1 .. n
      BY <1>1, KeptFacts DEF CppBreaks, CppCode
    <2>8. CppLast(source, o) \in Nat /\ CppLast(source, o) <= b - 1
      BY <2>3, <2>6, <2>7, CppLastFacts
    <2> QED
      BY <1>4, <2>6, <2>7, <2>8
  <1>11. ~IncludesOnly(source, p, allowed)
    <2> SUFFICES ASSUME NEW q \in Operand(source, p), Operand(source, p) = {q}, source[q] \in allowed
                 PROVE  Granted(text, allowed, p)
      BY DEF IncludesOnly
    <2>1. \A r \in 1 .. n : r \in Behind(text, p) <=> p < r /\ \A b \in Breaks(text) : p < b => r < b
      <3> SUFFICES ASSUME NEW r \in 1 .. n
                   PROVE  r \in Behind(text, p) <=> p < r /\ \A b \in Breaks(text) : p < b => r < b
        OBVIOUS
      <3>1. \A b \in Breaks(text) : b \in 1 .. n /\ b # p
        BY <1>2, <1>3, <1>7 DEF Breaks
      <3> QED
        BY <1>2, <1>4, <3>1 DEF Behind, SameLine
    <2>2. \A r \in Behind(text, p) \ Blank(text) : r = q
      <3> SUFFICES ASSUME NEW r \in Behind(text, p), r \notin Blank(text) PROVE r \in Operand(source, p)
        OBVIOUS
      <3>1. r \in 1 .. n /\ r \notin Breaks(text)
        <4>1. r \in 1 .. n
          BY <1>2 DEF Behind
        <4> QED
          BY <2>1, <4>1
      <3> QED
        BY <1>3, <1>5, <1>6, <2>1, <3>1
    <2>3. q \in Behind(text, p) \ Blank(text) /\ text[q] \in allowed
      BY <1>3, <1>5, <1>6, <2>1 DEF Operand
    <2> QED
      BY <1>2, <2>2, <2>3 DEF Granted, Behind
  <1> QED
    BY <1>1, <1>4, <1>7, <1>9, <1>10, <1>11 DEF CppDirectives

(* For every source and every set of enabled headers: where the program    *)
(* takes for comments what the compiler does, it refuses every directive   *)
(* that includes anything but an enabled header and has a blank behind the *)
(* word, and no line without a directive that includes more or other than  *)
(* one enabled header (_strip_comments, validate_direct_includes).         *)
THEOREM ParserRefusesViolations ==
    ASSUME NEW source \in Seq(Characters), ReadsCommentsAlike(source),
           NEW allowed, allowed \subseteq Headers
    PROVE  RefusesViolations(source, allowed) /\ RefusesNothingElse(source, allowed)
  <1>1. PICK text : text = Uncommented(source)
    OBVIOUS
  <1>2. ASSUME NEW p \in Violations(source, allowed), ~Glued(source, p)
        PROVE  LineOf(source, p) \in RefusedLines(source, allowed)
    <2>1. p \in Directives(text) /\ ~Granted(text, allowed, p)
      BY <1>1, <1>2, ViolationsAreUngranted
    <2> QED
      BY <1>1, <2>1, RefusedAreUngranted
  <1>3. ASSUME \A q \in Commented(source) : source[q] \notin {"\n", "\\"},
               NEW k \in RefusedLines(source, allowed)
        PROVE  \E p \in CppDirectives(source) : LineOf(source, p) = k /\ ~IncludesOnly(source, p, allowed)
    <2>1. PICK p \in Directives(text) : k = LineOf(source, p) /\ ~Granted(text, allowed, p)
      BY <1>1, <1>3, RefusedAreUngranted
    <2>2. p \in CppDirectives(source) /\ ~IncludesOnly(source, p, allowed)
      BY <1>1, <1>3, <2>1, UngrantedAreRefusable
    <2> QED
      BY <2>1, <2>2
  <1> QED
    BY <1>2, <1>3 DEF RefusesViolations, RefusesNothingElse

LEMMA PlainReading ==
    ASSUME NEW source \in Seq(Characters), Splices(source) = {},
           \A p \in DOMAIN source : source[p] # Quote
    PROVE  /\ Kept(source) = 1 .. Len(source)
           /\ \A p, q \in 1 .. Len(source) : Follows(Kept(source), p, q) <=> q = p + 1
           /\ CppOpeners(source) = Openers(source)
           /\ \A p \in 1 .. Len(source) : OpensBlock(source, Kept(source), p) <=>
                p + 1 <= Len(source) /\ source[p] = "/" /\ source[p + 1] = "*"
  <1>1. PICK n \in Nat : n = Len(source) /\ DOMAIN source = 1 .. n
    BY SourceType
  <1>2. Kept(source) = 1 .. n
    BY <1>1 DEF Kept
  <1>3. ASSUME NEW p \in 1 .. n, NEW q \in 1 .. n
        PROVE  Follows(Kept(source), p, q) <=> q = p + 1
    <2>1. CASE q = p + 1
      BY <1>2, <2>1 DEF Follows
    <2>2. CASE q # p + 1
      <3> SUFFICES ASSUME p < q PROVE \E r \in 1 .. n : ~(r <= p \/ q <= r)
        BY <1>2, <2>2 DEF Follows
      <3>1. p + 1 \in 1 .. n /\ ~(p + 1 <= p \/ q <= p + 1)
        BY <2>2
      <3> QED
        BY <3>1
    <2> QED
      BY <2>1, <2>2
  <1>4. ASSUME NEW p \in 1 .. n, NEW c
        PROVE  (\E q \in Kept(source) : Pair(source, Kept(source), p, q, "/", c)) <=>
                    p + 1 <= n /\ source[p] = "/" /\ source[p + 1] = c
    BY <1>2, <1>3 DEF Pair
  <1>5. CppOpeners(source) = Openers(source)
    <2>1. Openers(source) = {p \in 1 .. n : /\ p + 1 <= n /\ source[p] = "/"
                                            /\ source[p + 1] = "*" \/ source[p + 1] = "/"}
      BY <1>1 DEF Openers, Starts
    <2>2. CppOpeners(source) = {p \in 1 .. n : \/ p + 1 <= n /\ source[p] = "/" /\ source[p + 1] = "*"
                                               \/ p + 1 <= n /\ source[p] = "/" /\ source[p + 1] = "/"}
      BY <1>1, <1>2, <1>4 DEF CppOpeners, OpensBlock, OpensLine
    <2> QED
      BY <2>1, <2>2
  <1>6. \A p \in 1 .. n : OpensBlock(source, Kept(source), p) <=>
            p + 1 <= n /\ source[p] = "/" /\ source[p + 1] = "*"
    BY <1>4 DEF OpensBlock
  <1> QED
    BY <1>1, <1>2, <1>3, <1>5, <1>6

(* The condition of the theorem is met by every source without splices and *)
(* string literals.                                                        *)
THEOREM PlainSourcesReadAlike ==
    ASSUME NEW source \in Seq(Characters), Splices(source) = {},
           \A p \in DOMAIN source : source[p] # Quote
    PROVE  ReadsCommentsAlike(source)
  <1>1. PICK n \in Nat : n = Len(source) /\ DOMAIN source = 1 .. n
    BY SourceType
  <1>2. PICK kept : kept = Kept(source)
    OBVIOUS
  <1>3. /\ kept = 1 .. n
        /\ \A p, q \in 1 .. n : Follows(kept, p, q) <=> q = p + 1
        /\ CppOpeners(source) = Openers(source)
        /\ \A p \in 1 .. n : OpensBlock(source, kept, p) <=>
            p + 1 <= n /\ source[p] = "/" /\ source[p + 1] = "*"
    BY <1>1, <1>2, PlainReading
  <1>4. ASSUME NEW p \in Openers(source)
        PROVE  CppLast(source, p) = Closer(source, p)
    <2>1. p \in 1 .. n /\ p + 1 \in 1 .. n /\ source[p] = "/" /\ source[p + 1] \in {"*", "/"}
      BY <1>1, CloserValue
    <2>2. source[p] # Quote
      BY <1>1, <2>1
    <2>3. PICK lineEnds : lineEnds = {q - 1 : q \in {r \in kept : p < r /\ source[r] = "\n"}}
      OBVIOUS
    <2>4. PICK blockEnds : blockEnds = {q \in kept : \E s, r \in kept : /\ p < s /\ s < r
                                                                       /\ Follows(kept, p, s)
                                                                       /\ Pair(source, kept, r, q, "*", "/")}
      OBVIOUS
    <2>5. CppLast(source, p) = LET ends == IF OpensBlock(source, kept, p) THEN blockEnds ELSE lineEnds
                               IN  IF ends = {} THEN n ELSE Min(ends)
      BY <1>1, <1>2, <2>2, <2>3, <2>4 DEF CppLast
    <2>6. CASE source[p + 1] = "*"
      <3>1. blockEnds = {q \in p + 3 .. n : source[q - 1] = "*" /\ source[q] = "/"}
        <4>1. ASSUME NEW q \in 1 .. n
              PROVE  (\E s, r \in kept : /\ p < s /\ s < r /\ Follows(kept, p, s)
                                         /\ Pair(source, kept, r, q, "*", "/"))
                     <=> p + 3 <= q /\ source[q - 1] = "*" /\ source[q] = "/"
          <5>1. ASSUME NEW s \in kept, NEW r \in kept, p < s, s < r, Follows(kept, p, s),
                       Pair(source, kept, r, q, "*", "/")
                PROVE  p + 3 <= q /\ source[q - 1] = "*" /\ source[q] = "/"
            <6>1. s = p + 1 /\ q = r + 1 /\ source[r] = "*" /\ source[q] = "/"
              BY <1>3, <2>1, <4>1, <5>1 DEF Pair
            <6>2. r = q - 1 /\ r \in 1 .. n
              BY <1>3, <4>1, <5>1, <6>1
            <6> QED
              BY <2>1, <5>1, <6>1, <6>2
          <5>2. ASSUME p + 3 <= q, source[q - 1] = "*", source[q] = "/"
                PROVE  \E s, r \in kept : /\ p < s /\ s < r /\ Follows(kept, p, s)
                                          /\ Pair(source, kept, r, q, "*", "/")
            <6>1. PICK s \in kept, r \in kept : s = p + 1 /\ r = q - 1
              BY <1>3, <2>1, <4>1, <5>2
            <6>2. p < s /\ s < r /\ q = r + 1 /\ source[r] = "*"
              BY <1>3, <2>1, <4>1, <5>2, <6>1
            <6>3. Follows(kept, p, s) /\ Follows(kept, r, q)
              BY <1>3, <2>1, <4>1, <6>1, <6>2
            <6> QED
              BY <5>2, <6>2, <6>3 DEF Pair
          <5> QED
            BY <5>1, <5>2
        <4>2. blockEnds = {q \in 1 .. n : p + 3 <= q /\ source[q - 1] = "*" /\ source[q] = "/"}
          BY <1>3, <2>4, <4>1
        <4> QED
          BY <2>1, <4>2
      <3>2. OpensBlock(source, kept, p)
        BY <1>3, <2>1, <2>6
      <3>3. CppLast(source, p) = IF blockEnds = {} THEN n ELSE Min(blockEnds)
        BY <2>5, <3>2
      <3> QED
        BY <1>1, <2>6, <3>1, <3>3 DEF Closer
    <2>7. CASE source[p + 1] = "/"
      <3>1. lineEnds = {q - 1 : q \in {r \in p .. n : source[r] = "\n"}}
        <4>1. {r \in kept : p < r /\ source[r] = "\n"} = {r \in p .. n : source[r] = "\n"}
          BY <1>3, <2>1
        <4> QED
          BY <2>3, <4>1
      <3>2. ~OpensBlock(source, kept, p)
        BY <1>3, <2>1, <2>7
      <3>3. CppLast(source, p) = IF lineEnds = {} THEN n ELSE Min(lineEnds)
        BY <2>5, <3>2
      <3> QED
        BY <1>1, <2>7, <3>1, <3>3 DEF Closer
    <2> QED
      BY <2>1, <2>6, <2>7
  <1>5. [p \in CppOpeners(source) |-> CppLast(source, p)] = [p \in Openers(source) |-> Closer(source, p)]
    BY <1>3, <1>4
  <1>6. CppRegions(source) = Comments(source)
    BY <1>3, <1>5 DEF CppRegions, Comments
  <1>7. \A p \in Comments(source) : p \in Openers(source) /\ source[p] = "/"
    <2>1. Comments(source) \subseteq Openers(source)
      BY CommentsAreEntered, EnteredIsOpener
    <2> QED
      BY <2>1, CloserValue
  <1>8. CppCommented(source) = UNION {p .. CppLast(source, p) : p \in Comments(source)}
    <2>1. {c \in CppRegions(source) : source[c] = "/"} = Comments(source)
      BY <1>6, <1>7
    <2> QED
      BY <2>1 DEF CppCommented, CppInside
  <1>9. CppCommented(source) = Commented(source)
    BY <1>4, <1>7, <1>8 DEF Commented
  <1> QED
    BY <1>9 DEF ReadsCommentsAlike

-----------------------------------------------------------------------------
(* Types *)

BuiltinStay == \A h \in Builtin : rows[h] # "absent"

PolicyTypes == PolicyTypeOK /\ BuiltinStay

Served == [at : {"checked", "queued"}, source : Sources, policies : SUBSET SUBSET Headers]

LEMMA SubmissionForms ==
    ASSUME NEW v \in Submission
    PROVE  v.at = "idle" \/ v \in Served
  BY DEF Submission, Idle, Served

LEMMA SubmissionTypes ==
    /\ Idle \in Submission /\ Idle.at = "idle"
    /\ Served \subseteq Submission
  BY DEF Submission, Idle, Served

LEMMA RecordTypes ==
    /\ \A h \in Headers, on \in BOOLEAN : HeaderUpdate(h, on) \in Records
    /\ \A e \in Extensions : CatalogAdd(e) \in Records
    /\ \A r \in DOMAIN requests : RequestApprove(r) \in Records
  BY DEF Records, HeaderUpdate, CatalogAdd, RequestApprove

LEMMA RecordsDiffer ==
    /\ \A h, on, r : HeaderUpdate(h, on) # RequestApprove(r)
    /\ \A e, r : CatalogAdd(e) # RequestApprove(r)
    /\ \A r : None # RequestApprove(r)
    /\ \A h, on : None # HeaderUpdate(h, on)
    /\ \A e : None # CatalogAdd(e)
    /\ \A q, r : RequestApprove(q) = RequestApprove(r) => q = r
    /\ \A h, g, on : AboutHeader(h, HeaderUpdate(g, on)) <=> g = h
    /\ \A h, on : HeaderUpdate(h, on).on = on
    /\ \A h, e : ~AboutHeader(h, CatalogAdd(e))
    /\ \A h, r : ~AboutHeader(h, RequestApprove(r))
    /\ \A h : ~AboutHeader(h, None)
  <1>1. /\ \A h, on : HeaderUpdate(h, on).action = "header.update"
        /\ \A h, on : HeaderUpdate(h, on).target = h
        /\ \A h, on : HeaderUpdate(h, on).on = on
    BY DEF HeaderUpdate
  <1>2. \A e : CatalogAdd(e).action = "extension.catalog.add"
    BY DEF CatalogAdd
  <1>3. \A r : RequestApprove(r).action = "extension.request.approve" /\ RequestApprove(r).target = r
    BY DEF RequestApprove
  <1>4. None.action = "none"
    BY DEF None
  <1> QED
    BY <1>1, <1>2, <1>3, <1>4 DEF AboutHeader

(* The records stay records when there are more requests. *)
LEMMA RecordsGrow ==
    ASSUME DOMAIN requests \subseteq DOMAIN requests'
    PROVE  Records \subseteq Records'
  BY DEF Records

LEMMA LogsGrow ==
    ASSUME NEW R, NEW S, R \subseteq S, NEW log \in Seq(R)
    PROVE  log \in Seq(S)
  <1>1. Len(log) \in Nat /\ log \in [1 .. Len(log) -> R]
    BY LenProperties
  <1>2. log \in [1 .. Len(log) -> S]
    BY <1>1
  <1> QED
    BY <1>1, <1>2

(* The records that a restart loses, in some order. *)
LEMMA SetToSeqFacts ==
    ASSUME NEW S, IsFiniteSet(S)
    PROVE  /\ SetToSeq(S) \in Seq(S)
           /\ Len(SetToSeq(S)) = Cardinality(S)
           /\ \A x \in S : \E i \in 1 .. Cardinality(S) :
                SetToSeq(S)[i] = x /\ \A j \in 1 .. Cardinality(S) : SetToSeq(S)[j] = x => j = i
  <1>1. Cardinality(S) \in Nat
    BY FS_CardinalityType
  <1>2. PICK n \in Nat : n = Cardinality(S)
    BY <1>1
  <1>3. PICK g : g \in Bijection(1 .. n, S)
    BY <1>2, FS_CardinalityType DEF ExistsBijection
  <1>4. PICK f : f = SetToSeq(S)
    OBVIOUS
  <1>5. f \in [1 .. n -> S] /\ IsInjective(f)
    <2>1. g \in [1 .. n -> S] /\ IsInjective(g)
      BY <1>3 DEF Bijection, Injection, IsInjective
    <2> QED
      BY <1>2, <1>4, <2>1, Zenon DEF SetToSeq
  <1>6. \A x \in S : \E i \in 1 .. n : f[i] = x
    <2>1. f \in Injection(1 .. n, S)
      BY <1>5 DEF IsInjective, Injection
    <2>2. IsFiniteSet(1 .. n) /\ Cardinality(1 .. n) = n
      BY FS_Interval
    <2>3. f \in Surjection(1 .. n, S)
      BY <1>2, <2>1, <2>2, FS_Injection
    <2> QED
      BY <2>3 DEF Surjection
  <1>7. \A i, j \in 1 .. n : f[i] = f[j] => i = j
    BY <1>5 DEF IsInjective
  <1>8. f \in Seq(S) /\ Len(f) = n
    BY <1>5
  <1> QED
    BY <1>2, <1>4, <1>6, <1>7, <1>8

LEMMA InFlightIsFinite ==
    /\ IsFiniteSet({admins[a] : a \in InFlight})
    /\ \A x : x \in {admins[a] : a \in InFlight} <=> \E a \in Admins : admins[a] = x /\ x # None
  <1>1. IsFiniteSet(InFlight)
    BY PolicyAssumption, FS_Subset DEF InFlight
  <1>2. IsFiniteSet({admins[a] : a \in InFlight})
    <2>1. PICK T : T = {admins[a] : a \in InFlight}
      OBVIOUS
    <2>2. [a \in InFlight |-> admins[a]] \in Surjection(InFlight, T)
      BY <2>1 DEF Surjection
    <2>3. IsFiniteSet(T)
      BY <1>1, <2>2, FS_Surjection
    <2> QED
      BY <2>1, <2>3
  <1> QED
    BY <1>2 DEF InFlight

LEMMA PolicyTypesInit ==
    ASSUME PolicyInit
    PROVE  PolicyTypes
  <1>1. rows \in [Headers -> {"enabled", "disabled", "absent"}] /\ BuiltinStay
    BY PolicyAssumption DEF PolicyInit, BuiltinStay
  <1>2. DOMAIN requests = {} /\ requests \in Seq(Request) /\ audit \in Seq(Records) /\ lost \in Seq(Records)
    BY DEF PolicyInit
  <1>3. devs \in [Developers -> Submission]
    BY SubmissionTypes DEF PolicyInit
  <1> QED
    BY <1>1, <1>2, <1>3 DEF PolicyTypes, PolicyTypeOK, PolicyInit

(* The conjuncts that a step with the same requests and logs must show. *)
LEMMA PolicyTypesAside ==
    ASSUME PolicyTypes, UNCHANGED requests,
           rows' \in [Headers -> {"enabled", "disabled", "absent"}], BuiltinStay',
           (catalog \subseteq Extensions)', (raced \subseteq Headers)',
           audit' \in Seq(Records), lost' \in Seq(Records),
           admins' \in [Admins -> Records \cup {None}],
           devs' \in [Developers -> Submission]
    PROVE  PolicyTypes'
  <1>1. Records' = Records
    BY DEF Records
  <1>2. requests' \in Seq(Request) /\ \A q, r \in DOMAIN requests' : q # r => requests'[q] # requests'[r]
    BY DEF PolicyTypes, PolicyTypeOK
  <1>3. audit' \in Seq(Records') /\ lost' \in Seq(Records') /\ admins' \in [Admins -> Records' \cup {None}]
    BY <1>1
  <1> QED
    BY <1>2, <1>3 DEF PolicyTypes, PolicyTypeOK

LEMMA PolicyTypesKept ==
    ASSUME PolicyTypes, [PolicyNext]_policyVars
    PROVE  PolicyTypes'
  <1>1. /\ rows \in [Headers -> {"enabled", "disabled", "absent"}] /\ BuiltinStay
        /\ catalog \subseteq Extensions /\ raced \subseteq Headers
        /\ requests \in Seq(Request) /\ audit \in Seq(Records) /\ lost \in Seq(Records)
        /\ admins \in [Admins -> Records \cup {None}] /\ devs \in [Developers -> Submission]
        /\ \A q, r \in DOMAIN requests : q # r => requests[q] # requests[r]
    BY DEF PolicyTypes, PolicyTypeOK
  <1>2. ASSUME NEW a \in Admins, NEW h \in Headers, NEW on \in BOOLEAN, SetHeader(a, h, on)
        PROVE  PolicyTypes'
    <2>1. rows' \in [Headers -> {"enabled", "disabled", "absent"}] /\ BuiltinStay'
      BY <1>1, <1>2, PolicyAssumption DEF SetHeader, HeaderSet, BuiltinStay
    <2>2. admins' \in [Admins -> Records \cup {None}]
      BY <1>1, <1>2, RecordTypes DEF SetHeader
    <2>3. devs' \in [Developers -> Submission]
      <3>1. ASSUME NEW d \in Developers
            PROVE  (IF devs[d].at = "checked"
                     THEN [devs[d] EXCEPT !.policies = @ \cup {Enabled(rows')}] ELSE devs[d]) \in Submission
        <4>1. devs[d] \in Submission
          BY <1>1
        <4>2. CASE devs[d].at = "checked"
          <5>1. devs[d] \in Served
            BY <4>1, <4>2, SubmissionForms
          <5>2. [devs[d] EXCEPT !.policies = @ \cup {Enabled(rows')}] \in Served
            BY <5>1 DEF Served, Enabled
          <5> QED
            BY <4>2, <5>2, SubmissionTypes
        <4> QED
          BY <4>1, <4>2
      <3> QED
        BY <1>2, <3>1 DEF SetHeader
    <2>4. (raced \subseteq Headers)'
      BY <1>1, <1>2 DEF SetHeader
    <2> QED
      BY <1>1, <1>2, <2>1, <2>2, <2>3, <2>4, PolicyTypesAside DEF SetHeader
  <1>3. ASSUME NEW d \in Developers, NEW source \in Sources, CheckIncludes(d, source)
        PROVE  PolicyTypes'
    <2>1. devs' \in [Developers -> Submission]
      <3>1. [at |-> "checked", source |-> source, policies |-> {EnabledHeaders}] \in Served
        BY DEF Served, EnabledHeaders, Enabled
      <3> QED
        BY <1>1, <1>3, <3>1, SubmissionTypes DEF CheckIncludes
    <2>2. BuiltinStay'
      BY <1>1, <1>3 DEF CheckIncludes, BuiltinStay
    <2> QED
      BY <1>1, <1>3, <2>1, <2>2, PolicyTypesAside DEF CheckIncludes
  <1>4. ASSUME NEW d \in Developers, CreateJob(d) \/ AnswerJob(d)
        PROVE  PolicyTypes'
    <2>1. CASE CreateJob(d)
      <3>1. [devs[d] EXCEPT !.at = "queued"] \in Served
        <4>1. devs[d] \in Served
          BY <1>1, <2>1, SubmissionForms DEF CreateJob
        <4> QED
          BY <4>1 DEF Served
      <3>2. devs' \in [Developers -> Submission]
        BY <1>1, <2>1, <3>1, SubmissionTypes DEF CreateJob
      <3>3. BuiltinStay'
        BY <1>1, <2>1 DEF CreateJob, BuiltinStay
      <3> QED
        BY <1>1, <2>1, <3>2, <3>3, PolicyTypesAside DEF CreateJob
    <2>2. CASE AnswerJob(d)
      <3>1. devs' \in [Developers -> Submission] /\ BuiltinStay'
        BY <1>1, <2>2, SubmissionTypes DEF AnswerJob, BuiltinStay
      <3> QED
        BY <1>1, <2>2, <3>1, PolicyTypesAside DEF AnswerJob
    <2> QED
      BY <1>4, <2>1, <2>2
  <1>5. ASSUME NEW a \in Admins, NEW e \in Extensions, AddExtension(a, e)
        PROVE  PolicyTypes'
    <2>1. admins' \in [Admins -> Records \cup {None}] /\ (catalog \subseteq Extensions)'
      BY <1>1, <1>5, RecordTypes DEF AddExtension
    <2>2. BuiltinStay'
      BY <1>1, <1>5 DEF AddExtension, BuiltinStay
    <2> QED
      BY <1>1, <1>5, <2>1, <2>2, PolicyTypesAside DEF AddExtension
  <1>6. ASSUME NEW a \in Admins, Audit(a)
        PROVE  PolicyTypes'
    <2>1. admins[a] \in Records
      BY <1>1, <1>6 DEF Audit
    <2>2. audit' \in Seq(Records) /\ admins' \in [Admins -> Records \cup {None}]
      BY <1>1, <1>6, <2>1 DEF Audit
    <2>3. BuiltinStay'
      BY <1>1, <1>6 DEF Audit, BuiltinStay
    <2> QED
      BY <1>1, <1>6, <2>2, <2>3, PolicyTypesAside DEF Audit
  <1>7. ASSUME NEW a \in Admins, AuditFails(a)
         PROVE  PolicyTypes'
    <2>1. admins[a] \in Records
      BY <1>1, <1>7 DEF AuditFails
    <2>2. lost' \in Seq(Records) /\ admins' \in [Admins -> Records \cup {None}]
      BY <1>1, <1>7, <2>1 DEF AuditFails
    <2>3. BuiltinStay' /\ (raced \subseteq Headers)'
      BY <1>1, <1>7 DEF AuditFails, BuiltinStay
    <2> QED
      BY <1>1, <1>7, <2>2, <2>3, PolicyTypesAside DEF AuditFails
  <1>8. ASSUME Restart
        PROVE  PolicyTypes'
    <2>1. rows' \in [Headers -> {"enabled", "disabled", "absent"}] /\ BuiltinStay'
      BY <1>1, <1>8, PolicyAssumption DEF Restart, Initialized, BuiltinStay
    <2>2. lost' \in Seq(Records)
      <3>1. PICK S : S = {admins[a] : a \in InFlight}
        OBVIOUS
      <3>2. IsFiniteSet(S) /\ S \subseteq Records
        <4>1. IsFiniteSet(S)
          BY <3>1, InFlightIsFinite
        <4>2. \A x \in S : \E a \in Admins : admins[a] = x /\ x # None
          BY <3>1, InFlightIsFinite
        <4>3. \A a \in Admins : admins[a] # None => admins[a] \in Records
          BY <1>1
        <4> QED
          BY <4>1, <4>2, <4>3
      <3>3. SetToSeq(S) \in Seq(S)
        BY <3>2, SetToSeqFacts
      <3>4. SetToSeq(S) \in Seq(Records)
        BY <3>2, <3>3, LogsGrow
      <3>5. lost' = lost \o SetToSeq(S)
        BY <1>8, <3>1 DEF Restart
      <3> QED
        BY <1>1, <3>4, <3>5
    <2>3. admins' \in [Admins -> Records \cup {None}] /\ devs' \in [Developers -> Submission]
      BY <1>8, SubmissionTypes DEF Restart
    <2>4. (raced \subseteq Headers)'
      BY <1>1, <1>8 DEF Restart
    <2> QED
      BY <1>1, <1>8, <2>1, <2>2, <2>3, <2>4, PolicyTypesAside DEF Restart
  <1>9. ASSUME NEW d \in Developers, NEW e \in Extensions, RequestExtension(d, e)
        PROVE  PolicyTypes'
    <2>1. PICK new \in Request : new = [user |-> d, item |-> e, status |-> "pending"]
      BY DEF Request
    <2>2. requests' = Append(requests, new) /\ \A r \in DOMAIN requests : requests[r] # new
      BY <1>9, <2>1 DEF RequestExtension, IsUnique
    <2>3. requests' \in Seq(Request) /\ DOMAIN requests \subseteq DOMAIN requests'
      BY <1>1, <2>2
    <2>4. \A q, r \in DOMAIN requests' : q # r => requests'[q] # requests'[r]
      <3>1. PICK n \in Nat : n = Len(requests) /\ DOMAIN requests = 1 .. n
        BY <1>1
      <3>2. /\ DOMAIN requests' = 1 .. n + 1 /\ requests'[n + 1] = new
            /\ \A r \in 1 .. n : requests'[r] = requests[r]
        BY <1>1, <2>2, <3>1
      <3>3. \A r \in 1 .. n + 1 : r \in 1 .. n \/ r = n + 1
        OBVIOUS
      <3> QED
        BY <1>1, <2>2, <3>1, <3>2, <3>3
    <2>5. Records \subseteq Records'
      BY <2>3, RecordsGrow
    <2>6. audit' \in Seq(Records') /\ lost' \in Seq(Records')
      BY <1>1, <1>9, <2>5, LogsGrow DEF RequestExtension
    <2>7. admins' \in [Admins -> Records' \cup {None}] /\ BuiltinStay'
      BY <1>1, <1>9, <2>5 DEF RequestExtension, BuiltinStay
    <2>8. UNCHANGED <<rows, catalog, devs, raced>>
      BY <1>9 DEF RequestExtension
    <2> QED
      BY <1>1, <2>3, <2>4, <2>6, <2>7, <2>8 DEF PolicyTypes, PolicyTypeOK
  <1>10. ASSUME NEW a \in Admins, NEW r \in DOMAIN requests, ApproveExtension(a, r)
        PROVE  PolicyTypes'
    <2>1. requests[r] \in Request
      BY <1>1
    <2>2. PICK new \in Request : new = [user |-> requests[r].user, item |-> requests[r].item, status |-> "approved"]
      BY <2>1 DEF Request
    <2>3. /\ requests' = [requests EXCEPT ![r] = new]
          /\ \A q \in DOMAIN requests : requests[q] # new
      <3>1. [requests[r] EXCEPT !.status = "approved"] = new
        BY <2>1, <2>2 DEF Request
      <3> QED
        BY <1>10, <2>2, <3>1 DEF ApproveExtension, Decidable, IsUnique
    <2>4. requests' \in Seq(Request) /\ DOMAIN requests' = DOMAIN requests
      BY <1>1, <2>3
    <2>5. \A p, q \in DOMAIN requests' : p # q => requests'[p] # requests'[q]
      BY <1>1, <2>3, <2>4
    <2>6. Records' = Records
      BY <2>4 DEF Records
    <2>7. admins' \in [Admins -> Records \cup {None}] /\ BuiltinStay'
      BY <1>1, <1>10, RecordTypes DEF ApproveExtension, BuiltinStay
    <2>8. UNCHANGED <<rows, catalog, devs, raced, audit, lost>>
      BY <1>10 DEF ApproveExtension
    <2> QED
      BY <1>1, <2>4, <2>5, <2>6, <2>7, <2>8 DEF PolicyTypes, PolicyTypeOK
  <1>11. CASE UNCHANGED policyVars
    <2>1. UNCHANGED <<rows, catalog, requests, audit, admins, devs, raced, lost>> /\ BuiltinStay'
      BY <1>1, <1>11 DEF policyVars, BuiltinStay
    <2> QED
      BY <1>1, <2>1, PolicyTypesAside
  <1> QED
    BY <1>2, <1>3, <1>4, <1>5, <1>6, <1>7, <1>8, <1>9, <1>10, <1>11 DEF PolicyNext, Approve

LEMMA PolicyTypesHold == PolicySpec => []PolicyTypes
  BY PolicyTypesInit, PolicyTypesKept, PTL DEF PolicySpec

-----------------------------------------------------------------------------
(* Jobs *)

(* Whatever the samples are, validate_direct_includes agrees with its      *)
(* reference on them, under the policy that a control plane starts with.   *)
THEOREM ParserAlwaysMeetsReference == PolicySpec => []ParserMeetsReference
  <1>1. ParserMeetsReference
    <2>1. EnabledHeaders \subseteq Headers
      BY DEF EnabledHeaders, Enabled
    <2>2. \A source \in Samples : source \in Seq(Characters)
      BY PolicyAssumption
    <2>3. \A source \in Samples : StripComments(source) = Uncommented(source)
      BY <2>2, CommentsAreStripped
    <2>4. \A source \in Samples : ReadsCommentsAlike(source) =>
            RefusesViolations(source, EnabledHeaders) /\ RefusesNothingElse(source, EnabledHeaders)
      BY <2>1, <2>2, ParserRefusesViolations
    <2> QED
      BY <2>3, <2>4 DEF ParserMeetsReference
  <1> QED
    BY <1>1, PTL

(* What the program accepts, the policy allows. *)
LEMMA AcceptedSources ==
    ASSUME NEW source \in Sources, NEW policy, policy \subseteq Headers,
           ValidateDirectIncludes(source, policy) = {}
    PROVE  <<source, policy>> \in Allowing
  <1>1. RefusedLines(source, policy) = {}
    BY DEF RefusedLines
  <1>2. ASSUME ReadsCommentsAlike(source), NEW p \in Violations(source, policy)
        PROVE  Glued(source, p)
    <2>1. source \in Seq(Characters)
      BY PolicyAssumption
    <2>2. RefusesViolations(source, policy)
      BY <1>2, <2>1, ParserRefusesViolations
    <2> QED
      BY <1>1, <1>2, <2>2 DEF RefusesViolations
  <1>3. policy \in Allows(source)
    BY <1>2 DEF Allows
  <1> QED
    BY <1>3 DEF Allowing

(* A request that has passed the check passed it under a policy in force   *)
(* since then.                                                             *)
Accepted(v) == \E policy \in v.policies : ValidateDirectIncludes(v.source, policy) = {}

ChecksHold == \A d \in Developers : devs[d].at # "idle" => Accepted(devs[d])

LEMMA ChecksInit ==
    ASSUME PolicyInit
    PROVE  ChecksHold
  BY SubmissionTypes DEF PolicyInit, ChecksHold

(* A submission may end, or see more policies. *)
LEMMA ChecksAside ==
    ASSUME ChecksHold,
           \A d \in Developers :
                \/ devs'[d].at = "idle" \/ Accepted(devs'[d])
                \/ /\ devs[d].at # "idle" /\ devs'[d].source = devs[d].source
                   /\ devs[d].policies \subseteq devs'[d].policies
                \/ devs'[d] = devs[d]
    PROVE  ChecksHold'
  <1> SUFFICES ASSUME NEW d \in Developers, devs'[d].at # "idle"
               PROVE  Accepted(devs'[d])
    BY DEF ChecksHold, Accepted
  <1> QED
    BY DEF ChecksHold, Accepted

LEMMA ChecksKept ==
    ASSUME PolicyTypes, ChecksHold, [PolicyNext]_policyVars
    PROVE  ChecksHold'
  <1>1. devs \in [Developers -> Submission]
    BY DEF PolicyTypes, PolicyTypeOK
  <1>2. ASSUME NEW a \in Admins, NEW h \in Headers, NEW on \in BOOLEAN, SetHeader(a, h, on)
        PROVE  ChecksHold'
    <2>1. ASSUME NEW d \in Developers, devs'[d] # devs[d]
          PROVE  /\ devs[d].at # "idle" /\ devs'[d].source = devs[d].source
                 /\ devs[d].policies \subseteq devs'[d].policies
      <3>1. devs[d].at = "checked" /\ devs'[d] = [devs[d] EXCEPT !.policies = @ \cup {Enabled(rows')}]
        BY <1>2, <2>1 DEF SetHeader
      <3>2. devs[d] \in Served
        BY <1>1, <3>1, SubmissionForms
      <3> QED
        BY <3>1, <3>2 DEF Served
    <2> QED
      BY <2>1, ChecksAside
  <1>3. ASSUME NEW d \in Developers, NEW source \in Sources, CheckIncludes(d, source)
        PROVE  ChecksHold'
    <2>1. devs'[d] = [at |-> "checked", source |-> source, policies |-> {EnabledHeaders}]
          /\ \A e \in Developers : e # d => devs'[e] = devs[e]
      BY <1>1, <1>3 DEF CheckIncludes
    <2>2. ValidateDirectIncludes(source, EnabledHeaders) = {}
      BY <1>3 DEF CheckIncludes
    <2>3. Accepted(devs'[d])
      BY <2>1, <2>2 DEF Accepted
    <2> QED
      BY <2>1, <2>3, ChecksAside
  <1>4. ASSUME NEW d \in Developers, CreateJob(d)
        PROVE  ChecksHold'
    <2>1. devs[d] \in Served
      BY <1>1, <1>4, SubmissionForms DEF CreateJob
    <2>2. /\ devs'[d] = [devs[d] EXCEPT !.at = "queued"]
          /\ \A e \in Developers : e # d => devs'[e] = devs[e]
      BY <1>1, <1>4 DEF CreateJob
    <2>3. devs[d].at # "idle" /\ devs'[d].source = devs[d].source /\ devs'[d].policies = devs[d].policies
      BY <2>1, <2>2 DEF Served
    <2> QED
      BY <2>2, <2>3, ChecksAside
  <1>5. ASSUME NEW d \in Developers, AnswerJob(d)
        PROVE  ChecksHold'
    <2>1. devs'[d] = Idle /\ \A e \in Developers : e # d => devs'[e] = devs[e]
      BY <1>1, <1>5 DEF AnswerJob
    <2> QED
      BY <2>1, ChecksAside, SubmissionTypes
  <1>6. ASSUME Restart
        PROVE  ChecksHold'
    BY <1>6, ChecksAside, SubmissionTypes DEF Restart
  <1>7. ASSUME UNCHANGED devs
        PROVE  ChecksHold'
    BY <1>7, ChecksAside
  <1>8. \A a \in Admins, e \in Extensions : AddExtension(a, e) => UNCHANGED devs
    BY DEF AddExtension
  <1>9. \A a \in Admins : Audit(a) \/ AuditFails(a) => UNCHANGED devs
    BY DEF Audit, AuditFails
  <1>10. \A d \in Developers, e \in Extensions : RequestExtension(d, e) => UNCHANGED devs
    BY DEF RequestExtension
  <1>11. Approve => UNCHANGED devs
    BY DEF Approve, ApproveExtension
  <1>12. UNCHANGED policyVars => UNCHANGED devs
    BY DEF policyVars
  <1> QED
    BY <1>2, <1>3, <1>4, <1>5, <1>6, <1>7, <1>8, <1>9, <1>10, <1>11, <1>12 DEF PolicyNext

LEMMA ChecksMeetThePolicy ==
    ASSUME PolicyTypes, ChecksHold
    PROVE  JobsMeetThePolicy
  <1> SUFFICES ASSUME NEW d \in Developers, devs[d].at = "queued"
               PROVE  \E policy \in devs[d].policies : <<devs[d].source, policy>> \in Allowing
    BY DEF JobsMeetThePolicy
  <1>1. devs[d] \in Served
    BY SubmissionForms DEF PolicyTypes, PolicyTypeOK
  <1>2. PICK policy \in devs[d].policies : ValidateDirectIncludes(devs[d].source, policy) = {}
    BY DEF ChecksHold, Accepted
  <1>3. devs[d].source \in Sources /\ policy \subseteq Headers
    BY <1>1, <1>2 DEF Served
  <1> QED
    BY <1>2, <1>3, AcceptedSources

(* create_job of app.py inserts a source only if it includes enabled       *)
(* headers under one of the policies in force while it served the request, *)
(* but for what the parser does not see.                                   *)
THEOREM JobsAlwaysMeetThePolicy == PolicySpec => []JobsMeetThePolicy
  <1>1. PolicySpec => [](PolicyTypes /\ ChecksHold)
    BY PolicyTypesHold, ChecksInit, ChecksKept, PTL DEF PolicySpec
  <1> QED
    BY <1>1, ChecksMeetThePolicy, PTL

-----------------------------------------------------------------------------
(* The audit log and the policy *)

(* One record at most is on its way for such a header, and it is true. *)
InFlightTells ==
    \A h \in Headers \ raced : \A a \in Admins : AboutHeader(h, admins[a]) =>
        /\ (rows[h] = "enabled") = admins[a].on
        /\ \A b \in Admins : AboutHeader(h, admins[b]) => b = a

AuditInv == InFlightTells /\ AuditTellsThePolicy

LEMMA AuditInit ==
    ASSUME PolicyInit
    PROVE  AuditInv
  <1>1. \A a \in Admins : admins[a] = None
    BY DEF PolicyInit
  <1>2. \A h : \A a \in Admins : ~AboutHeader(h, admins[a])
    BY <1>1, RecordsDiffer
  <1>3. DOMAIN audit = {}
    BY DEF PolicyInit
  <1> QED
    BY <1>2, <1>3 DEF AuditInv, InFlightTells, AuditTellsThePolicy

(* A step that leaves the log alone keeps what it tells of a header, when  *)
(* it leaves alone the header and the records on their way about it.       *)
LEMMA AuditAside ==
    ASSUME AuditInv, UNCHANGED audit, raced \subseteq raced',
           \A h \in Headers \ raced' : rows'[h] = rows[h],
           \A h \in Headers \ raced' : \A a \in Admins :
                \/ admins'[a] = admins[a]
                \/ ~AboutHeader(h, admins[a]) /\ ~AboutHeader(h, admins'[a])
    PROVE  AuditInv'
  <1>1. ASSUME NEW h \in Headers \ raced'
        PROVE  /\ h \in Headers \ raced /\ rows'[h] = rows[h]
               /\ \A a \in Admins : AboutHeader(h, admins'[a]) <=> AboutHeader(h, admins[a])
               /\ \A a \in Admins : AboutHeader(h, admins[a]) => admins'[a] = admins[a]
    <2>1. ASSUME NEW a \in Admins
          PROVE  /\ AboutHeader(h, admins'[a]) <=> AboutHeader(h, admins[a])
                 /\ AboutHeader(h, admins[a]) => admins'[a] = admins[a]
      <3>1. CASE admins'[a] = admins[a]
        BY <3>1
      <3>2. CASE ~AboutHeader(h, admins[a]) /\ ~AboutHeader(h, admins'[a])
        BY <3>2
      <3> QED
        BY <3>1, <3>2
    <2> QED
      BY <2>1
  <1>2. InFlightTells'
    BY <1>1 DEF AuditInv, InFlightTells
  <1>3. AuditTellsThePolicy'
    BY <1>1 DEF AuditInv, AuditTellsThePolicy
  <1> QED
    BY <1>2, <1>3 DEF AuditInv

LEMMA AuditKept ==
    ASSUME PolicyTypes, AuditInv, [PolicyNext]_policyVars
    PROVE  AuditInv'
  <1>1. /\ rows \in [Headers -> {"enabled", "disabled", "absent"}] /\ BuiltinStay
        /\ audit \in Seq(Records) /\ admins \in [Admins -> Records \cup {None}]
    BY DEF PolicyTypes, PolicyTypeOK
  <1>2. ASSUME NEW a \in Admins, NEW h \in Headers, NEW on \in BOOLEAN, SetHeader(a, h, on)
        PROVE  AuditInv'
    <2>1. /\ admins[a] = None /\ admins'[a] = HeaderUpdate(h, on)
          /\ \A b \in Admins : b # a => admins'[b] = admins[b]
          /\ audit' = audit /\ raced \subseteq raced'
          /\ \A g \in Headers : g # h => rows'[g] = rows[g]
          /\ rows'[h] = IF on THEN "enabled" ELSE "disabled"
      BY <1>1, <1>2 DEF SetHeader, MayUpdate, HeaderSet
    <2>2. AboutHeader(h, admins'[a]) /\ admins'[a].on = on
          /\ \A g : g # h => ~AboutHeader(g, admins'[a])
      BY <2>1, RecordsDiffer
    <2>3. \A g : ~AboutHeader(g, admins[a])
      BY <2>1, RecordsDiffer
    (* Nobody else was changing the header, unless it is raced now. *)
    <2>4. ASSUME NEW b \in Admins, AboutHeader(h, admins[b])
          PROVE  h \in raced'
      <3>1. admins[b] \in Records /\ admins[b] # None
        BY <1>1, <2>4, RecordsDiffer
      <3>2. PICK x \in BOOLEAN : admins[b] = HeaderUpdate(h, x)
        BY <2>4, <3>1 DEF AboutHeader, Records, HeaderUpdate
      <3>3. b \in InFlight
        BY <3>1 DEF InFlight
      <3> QED
        BY <1>2, <3>2, <3>3 DEF SetHeader
    <2>5. ASSUME NEW g \in Headers \ raced'
          PROVE  /\ \A b \in Admins : AboutHeader(g, admins'[b]) =>
                        /\ (rows'[g] = "enabled") = admins'[b].on
                        /\ \A c \in Admins : AboutHeader(g, admins'[c]) => c = b
                 /\ g # h => rows'[g] = rows[g]
                             /\ \A b \in Admins : AboutHeader(g, admins'[b]) <=> AboutHeader(g, admins[b])
      <3>1. CASE g = h
        <4>1. \A b \in Admins : AboutHeader(h, admins'[b]) => b = a
          BY <2>1, <2>4, <2>5, <3>1
        <4>2. (rows'[h] = "enabled") = on
          BY <2>1
        <4> QED
          BY <2>2, <3>1, <4>1, <4>2
      <3>2. CASE g # h
        <4>1. \A b \in Admins : AboutHeader(g, admins'[b]) <=> AboutHeader(g, admins[b])
          BY <2>1, <2>2, <2>3, <3>2
        <4>2. rows'[g] = rows[g] /\ g \in Headers \ raced
          BY <2>1, <2>5, <3>2
        <4>3. \A b \in Admins : AboutHeader(g, admins'[b]) => admins'[b] = admins[b]
          BY <2>1, <2>2, <3>2
        <4> QED
          BY <4>1, <4>2, <4>3 DEF AuditInv, InFlightTells
      <3> QED
        BY <3>1, <3>2
    <2>6. InFlightTells'
      BY <2>5 DEF InFlightTells
    <2>7. AuditTellsThePolicy'
      BY <2>1, <2>2, <2>5 DEF AuditInv, AuditTellsThePolicy
    <2> QED
      BY <2>6, <2>7 DEF AuditInv
  <1>3. ASSUME NEW a \in Admins, Audit(a)
        PROVE  AuditInv'
    <2>1. PICK n \in Nat : n = Len(audit) /\ DOMAIN audit = 1 .. n
      BY <1>1
    <2>2. /\ admins[a] # None /\ admins'[a] = None
          /\ \A b \in Admins : b # a => admins'[b] = admins[b]
          /\ DOMAIN audit' = 1 .. n + 1 /\ audit'[n + 1] = admins[a]
          /\ \A m \in 1 .. n : audit'[m] = audit[m]
          /\ UNCHANGED <<rows, raced>>
      <3>1. admins[a] \in Records
        BY <1>1, <1>3 DEF Audit
      <3> QED
        BY <1>1, <1>3, <2>1, <3>1 DEF Audit
    <2>3. \A g : ~AboutHeader(g, admins'[a])
      BY <2>2, RecordsDiffer
    <2>4. InFlightTells'
      BY <2>2, <2>3 DEF AuditInv, InFlightTells
    <2>5. ASSUME NEW h \in Headers \ raced, NEW k \in 1 .. n + 1, AboutHeader(h, audit'[k]),
                 \A m \in 1 .. n + 1 : m > k => ~AboutHeader(h, audit'[m]),
                 \A b \in Admins : ~AboutHeader(h, admins'[b])
          PROVE  (rows[h] = "enabled") = audit'[k].on
      <3>1. CASE k = n + 1
        BY <2>2, <2>5, <3>1 DEF AuditInv, InFlightTells
      <3>2. CASE k \in 1 .. n
        <4>1. n + 1 \in 1 .. n + 1 /\ n + 1 > k
          BY <3>2
        <4>2. ~AboutHeader(h, admins[a])
          BY <2>2, <2>5, <4>1
        <4>3. \A b \in Admins : ~AboutHeader(h, admins[b])
          BY <2>2, <2>5, <4>2
        <4>4. \A m \in 1 .. n : m \in 1 .. n + 1
          OBVIOUS
        <4>5. \A m \in 1 .. n : m > k => ~AboutHeader(h, audit[m])
          BY <2>2, <2>5, <4>4
        <4>6. AboutHeader(h, audit[k]) /\ audit'[k] = audit[k]
          BY <2>2, <2>5, <3>2
        <4> QED
          BY <2>1, <3>2, <4>3, <4>5, <4>6 DEF AuditInv, AuditTellsThePolicy
      <3> QED
        BY <3>1, <3>2
    <2>6. AuditTellsThePolicy'
      BY <2>2, <2>5 DEF AuditTellsThePolicy
    <2> QED
      BY <2>4, <2>6 DEF AuditInv
  (* A record that is lost may be the only one about its header. *)
  <1>4. ASSUME NEW h \in Headers, NEW a \in Admins, AboutHeader(h, admins[a])
         PROVE  a \in InFlight /\ \E x \in BOOLEAN : admins[a] = HeaderUpdate(h, x)
    <2>1. admins[a] \in Records /\ admins[a] # None
      BY <1>1, <1>4, RecordsDiffer
    <2> QED
      BY <1>4, <2>1 DEF AboutHeader, Records, HeaderUpdate, InFlight
  <1>5. ASSUME NEW a \in Admins, AuditFails(a)
         PROVE  AuditInv'
    <2>1. /\ UNCHANGED <<audit, rows>> /\ raced \subseteq raced' /\ admins'[a] = None
          /\ \A b \in Admins : b # a => admins'[b] = admins[b]
      BY <1>1, <1>5 DEF AuditFails
    <2>2. ASSUME NEW h \in Headers \ raced'
          PROVE  ~AboutHeader(h, admins[a]) /\ ~AboutHeader(h, admins'[a])
      <3>1. ~AboutHeader(h, admins'[a])
        BY <2>1, RecordsDiffer
      <3>2. ~AboutHeader(h, admins[a])
        BY <1>4, <1>5, <2>2 DEF AuditFails
      <3> QED
        BY <3>1, <3>2
    <2> QED
      BY <2>1, <2>2, AuditAside
  <1>6. ASSUME Restart
        PROVE  AuditInv'
    <2>1. UNCHANGED audit /\ raced \subseteq raced' /\ \A a \in Admins : admins'[a] = None
      BY <1>6 DEF Restart
    <2>2. \A h \in Headers : rows'[h] = rows[h]
      BY <1>1, <1>6 DEF Restart, Initialized, BuiltinStay
    <2>3. ASSUME NEW h \in Headers \ raced', NEW a \in Admins
          PROVE  ~AboutHeader(h, admins[a]) /\ ~AboutHeader(h, admins'[a])
      <3>1. ~AboutHeader(h, admins'[a])
        BY <2>1, RecordsDiffer
      <3>2. ~AboutHeader(h, admins[a])
        BY <1>6, <1>4, <2>3 DEF Restart
      <3> QED
        BY <3>1, <3>2
    <2> QED
      BY <2>1, <2>2, <2>3, AuditAside
  <1>7. ASSUME NEW a \in Admins, NEW e \in Extensions, AddExtension(a, e)
        PROVE  AuditInv'
    <2>1. /\ UNCHANGED <<audit, rows, raced>> /\ admins[a] = None /\ admins'[a] = CatalogAdd(e)
          /\ \A b \in Admins : b # a => admins'[b] = admins[b]
      BY <1>1, <1>7 DEF AddExtension, MayUpdate
    <2>2. \A h : ~AboutHeader(h, admins[a]) /\ ~AboutHeader(h, admins'[a])
      BY <2>1, RecordsDiffer
    <2> QED
      BY <2>1, <2>2, AuditAside
  <1>8. ASSUME NEW a \in Admins, NEW r \in DOMAIN requests, ApproveExtension(a, r)
        PROVE  AuditInv'
    <2>1. /\ UNCHANGED <<audit, rows, raced>> /\ admins[a] = None /\ admins'[a] = RequestApprove(r)
          /\ \A b \in Admins : b # a => admins'[b] = admins[b]
      BY <1>1, <1>8 DEF ApproveExtension, MayUpdate
    <2>2. \A h : ~AboutHeader(h, admins[a]) /\ ~AboutHeader(h, admins'[a])
      BY <2>1, RecordsDiffer
    <2> QED
      BY <2>1, <2>2, AuditAside
  <1>9. ASSUME UNCHANGED <<audit, rows, raced, admins>>
        PROVE  AuditInv'
    BY <1>9, AuditAside
  <1>10. \A d \in Developers, source \in Sources : CheckIncludes(d, source) => UNCHANGED <<audit, rows, raced, admins>>
    BY DEF CheckIncludes
  <1>11. \A d \in Developers : CreateJob(d) \/ AnswerJob(d) => UNCHANGED <<audit, rows, raced, admins>>
    BY DEF CreateJob, AnswerJob
  <1>12. \A d \in Developers, e \in Extensions : RequestExtension(d, e) => UNCHANGED <<audit, rows, raced, admins>>
    BY DEF RequestExtension
  <1>13. UNCHANGED policyVars => UNCHANGED <<audit, rows, raced, admins>>
    BY DEF policyVars
  <1> QED
    BY <1>2, <1>3, <1>5, <1>6, <1>7, <1>8, <1>9, <1>10, <1>11, <1>12, <1>13 DEF PolicyNext, Approve

(* The last record of a header that no two threads changed at once, and of *)
(* which no record was lost, is what header_policy says.                   *)
THEOREM AuditAlwaysTellsThePolicy == PolicySpec => []AuditTellsThePolicy
  <1>1. PolicySpec => []AuditInv
    BY PolicyTypesHold, AuditInit, AuditKept, PTL DEF PolicySpec
  <1>2. AuditInv => AuditTellsThePolicy
    BY DEF AuditInv
  <1> QED
    BY <1>1, <1>2, PTL

-----------------------------------------------------------------------------
(* Requests and approvals *)

(* Of two requests of a developer for an extension, the first is approved. *)
RequestsInTurn ==
    \A q, r \in DOMAIN requests :
        q < r /\ requests[q].user = requests[r].user /\ requests[q].item = requests[r].item
            => requests[q].status = "approved"

LEMMA TurnsInit ==
    ASSUME PolicyInit
    PROVE  RequestsInTurn
  <1>1. DOMAIN requests = {}
    BY DEF PolicyInit
  <1> QED
    BY <1>1 DEF RequestsInTurn

LEMMA TurnsKept ==
    ASSUME PolicyTypes, RequestsInTurn, [PolicyNext]_policyVars
    PROVE  RequestsInTurn'
  <1>1. requests \in Seq(Request)
    BY DEF PolicyTypes, PolicyTypeOK
  <1>2. PICK n \in Nat : n = Len(requests) /\ DOMAIN requests = 1 .. n
    BY <1>1
  <1>3. ASSUME NEW d \in Developers, NEW e \in Extensions, RequestExtension(d, e)
        PROVE  RequestsInTurn'
    <2>1. PICK new : new = [user |-> d, item |-> e, status |-> "pending"]
      OBVIOUS
    <2>2. new \in Request /\ new.user = d /\ new.item = e
      BY <2>1 DEF Request
    <2>3. /\ DOMAIN requests' = 1 .. n + 1 /\ requests'[n + 1] = new
          /\ \A r \in 1 .. n : requests'[r] = requests[r]
      BY <1>1, <1>2, <1>3, <2>1, <2>2 DEF RequestExtension
    <2>4. ASSUME NEW q \in 1 .. n, requests[q].user = d, requests[q].item = e
          PROVE  requests[q].status = "approved"
      <3>1. requests[q] \in Request
        BY <1>1, <1>2
      <3>2. requests[q] # new
        BY <1>2, <1>3, <2>1 DEF RequestExtension, IsUnique
      <3> QED
        BY <2>1, <2>4, <3>1, <3>2 DEF Request
    <2>5. ASSUME NEW q \in 1 .. n + 1, NEW r \in 1 .. n + 1, q < r,
                 requests'[q].user = requests'[r].user, requests'[q].item = requests'[r].item
          PROVE  requests'[q].status = "approved"
      <3>1. q \in 1 .. n /\ requests'[q] = requests[q]
        BY <2>3, <2>5
      <3>2. CASE r = n + 1
        BY <2>2, <2>3, <2>4, <2>5, <3>1, <3>2
      <3>3. CASE r \in 1 .. n
        BY <1>2, <2>3, <2>5, <3>1, <3>3 DEF RequestsInTurn
      <3> QED
        BY <3>2, <3>3
    <2> QED
      BY <2>3, <2>5 DEF RequestsInTurn
  <1>4. ASSUME NEW a \in Admins, NEW s \in DOMAIN requests, ApproveExtension(a, s)
        PROVE  RequestsInTurn'
    <2>1. DOMAIN requests' = DOMAIN requests
          /\ \A r \in DOMAIN requests :
                /\ requests'[r].user = requests[r].user /\ requests'[r].item = requests[r].item
                /\ requests[r].status = "approved" => requests'[r].status = "approved"
      <3>1. requests' = [requests EXCEPT ![s].status = "approved"]
        BY <1>4 DEF ApproveExtension
      <3>2. \A r \in DOMAIN requests : requests[r] \in Request
        BY <1>1, <1>2
      <3> QED
        BY <3>1, <3>2 DEF Request
    <2> QED
      BY <2>1 DEF RequestsInTurn
  <1>5. ASSUME UNCHANGED requests
        PROVE  RequestsInTurn'
    BY <1>5 DEF RequestsInTurn
  <1>6. \A a \in Admins, h \in Headers, on \in BOOLEAN : SetHeader(a, h, on) => UNCHANGED requests
    BY DEF SetHeader
  <1>7. \A a \in Admins, e \in Extensions : AddExtension(a, e) => UNCHANGED requests
    BY DEF AddExtension
  <1>8. \A a \in Admins : Audit(a) \/ AuditFails(a) => UNCHANGED requests
    BY DEF Audit, AuditFails
  <1>9. \A d \in Developers, source \in Sources : CheckIncludes(d, source) => UNCHANGED requests
    BY DEF CheckIncludes
  <1>10. \A d \in Developers : CreateJob(d) \/ AnswerJob(d) => UNCHANGED requests
    BY DEF CreateJob, AnswerJob
  <1>11. Restart => UNCHANGED requests
    BY DEF Restart
  <1>12. UNCHANGED policyVars => UNCHANGED requests
    BY DEF policyVars
  <1> QED
    BY <1>3, <1>4, <1>5, <1>6, <1>7, <1>8, <1>9, <1>10, <1>11, <1>12 DEF PolicyNext, Approve

LEMMA TurnsMakeDecidable ==
    ASSUME PolicyTypes, RequestsInTurn
    PROVE  FirstRequestsCanBeApproved
  <1>1. PICK n \in Nat : DOMAIN requests = 1 .. n /\ \A r \in 1 .. n : requests[r] \in Request
    BY DEF PolicyTypes, PolicyTypeOK
  <1> SUFFICES ASSUME NEW r \in 1 .. n, requests[r].status = "pending", ~Decidable(r)
               PROVE  \E q \in 1 .. r - 1 : requests[q] = [requests[r] EXCEPT !.status = "approved"]
    BY <1>1 DEF FirstRequestsCanBeApproved
  <1>2. PICK q \in 1 .. n : requests[q] = [user |-> requests[r].user, item |-> requests[r].item, status |-> "approved"]
    BY <1>1 DEF Decidable, IsUnique
  <1>3. requests[q] = [requests[r] EXCEPT !.status = "approved"]
    BY <1>1, <1>2 DEF Request
  <1>4. /\ requests[q].status = "approved" /\ requests[q].user = requests[r].user
        /\ requests[q].item = requests[r].item
    BY <1>2
  <1>5. ~(r < q)
    BY <1>1, <1>4 DEF RequestsInTurn
  <1>6. q # r
    BY <1>4
  <1>7. q \in 1 .. r - 1
    BY <1>5, <1>6
  <1> QED
    BY <1>3, <1>7

(* How often a record stands in a log that has grown. *)
LEMMA TimesExtended ==
    ASSUME NEW R, NEW log \in Seq(R), NEW longer \in Seq(R), Len(log) <= Len(longer),
           \A i \in 1 .. Len(log) : longer[i] = log[i],
           NEW x, NEW K, K = {i \in Len(log) + 1 .. Len(longer) : longer[i] = x}
    PROVE  /\ Times(x, log) \in Nat
           /\ K = {} => Times(x, longer) = Times(x, log)
           /\ (\E k : K = {k}) => Times(x, longer) = Times(x, log) + 1
  <1>1. PICK n \in Nat : n = Len(log) /\ DOMAIN log = 1 .. n
    OBVIOUS
  <1>2. PICK m \in Nat : m = Len(longer) /\ DOMAIN longer = 1 .. m /\ n <= m
    BY <1>1
  <1>3. PICK P : P = {i \in 1 .. n : log[i] = x}
    OBVIOUS
  <1>4. PICK Q : Q = {i \in 1 .. m : longer[i] = x}
    OBVIOUS
  <1>5. Times(x, log) = Cardinality(P) /\ Times(x, longer) = Cardinality(Q)
    BY <1>1, <1>2, <1>3, <1>4 DEF Times
  <1>6. IsFiniteSet(P) /\ Cardinality(P) \in Nat
    <2>1. IsFiniteSet(1 .. n) /\ P \in SUBSET (1 .. n)
      BY <1>3, FS_Interval
    <2>2. IsFiniteSet(P)
      BY <2>1, FS_Subset
    <2> QED
      BY <2>2, FS_CardinalityType
  <1>7. Q = P \cup K
    <2>1. \A i \in 1 .. m : i \in 1 .. n \/ i \in n + 1 .. m
      BY <1>2
    <2>2. \A i : i \in 1 .. n \/ i \in n + 1 .. m => i \in 1 .. m
      BY <1>2
    <2> QED
      BY <1>1, <1>2, <1>3, <1>4, <2>1, <2>2
  <1>8. P \cap K = {}
    BY <1>1, <1>2, <1>3
  <1>9. ASSUME NEW k, K = {k}
        PROVE  Cardinality(Q) = Cardinality(P) + 1
    <2>1. k \notin P /\ Q = P \cup {k}
      BY <1>7, <1>8, <1>9
    <2> QED
      BY <1>6, <2>1, FS_AddElement
  <1>10. K = {} => Q = P
    BY <1>7
  <1> QED
    BY <1>5, <1>6, <1>9, <1>10

LEMMA TimesAppend ==
    ASSUME NEW R, NEW log \in Seq(R), NEW y \in R, NEW x
    PROVE  /\ Times(x, log) \in Nat
           /\ y = x => Times(x, Append(log, y)) = Times(x, log) + 1
           /\ y # x => Times(x, Append(log, y)) = Times(x, log)
  <1>1. PICK n \in Nat : n = Len(log)
    OBVIOUS
  <1>2. PICK longer \in Seq(R) :
            /\ longer = Append(log, y) /\ Len(longer) = n + 1 /\ longer[n + 1] = y
            /\ \A i \in 1 .. n : longer[i] = log[i]
    <2>1. Append(log, y) \in Seq(R) /\ Len(Append(log, y)) = n + 1
      BY <1>1
    <2>2. Append(log, y)[n + 1] = y
      BY <1>1
    <2>3. \A i \in 1 .. n : Append(log, y)[i] = log[i]
      BY <1>1
    <2> QED
      BY <2>1, <2>2, <2>3, Zenon
  <1>3. PICK K : K = {i \in n + 1 .. n + 1 : longer[i] = x}
    OBVIOUS
  <1>4. n + 1 .. n + 1 = {n + 1}
    OBVIOUS
  <1>5. (y # x => K = {}) /\ (y = x => K = {n + 1})
    BY <1>2, <1>3, <1>4
  <1>6. Len(log) <= Len(longer) /\ \A i \in 1 .. Len(log) : longer[i] = log[i]
    BY <1>1, <1>2
  <1>7. K = {i \in Len(log) + 1 .. Len(longer) : longer[i] = x}
    BY <1>1, <1>2, <1>3
  <1>8. /\ Times(x, log) \in Nat
        /\ K = {} => Times(x, longer) = Times(x, log)
        /\ (\E k : K = {k}) => Times(x, longer) = Times(x, log) + 1
    BY <1>6, <1>7, TimesExtended
  <1> QED
    BY <1>2, <1>5, <1>8

LEMMA TimesLost ==
    ASSUME NEW R, NEW log \in Seq(R), NEW S, IsFiniteSet(S), S \subseteq R, NEW x
    PROVE  /\ Times(x, log) \in Nat
           /\ x \in S => Times(x, log \o SetToSeq(S)) = Times(x, log) + 1
           /\ x \notin S => Times(x, log \o SetToSeq(S)) = Times(x, log)
  <1>1. PICK n \in Nat : n = Len(log)
    OBVIOUS
  <1>2. PICK c \in Nat : c = Cardinality(S)
    BY FS_CardinalityType
  <1>3. PICK f \in Seq(R) :
            /\ f = SetToSeq(S) /\ Len(f) = c /\ \A i \in 1 .. c : f[i] \in S
            /\ \A y \in S : \E i \in 1 .. c : f[i] = y /\ \A j \in 1 .. c : f[j] = y => j = i
    <2>1. /\ SetToSeq(S) \in Seq(S) /\ Len(SetToSeq(S)) = c
          /\ \A y \in S : \E i \in 1 .. c :
                SetToSeq(S)[i] = y /\ \A j \in 1 .. c : SetToSeq(S)[j] = y => j = i
      BY <1>2, SetToSeqFacts
    <2>2. SetToSeq(S) \in Seq(R)
      BY <2>1, LogsGrow
    <2>3. \A i \in 1 .. c : SetToSeq(S)[i] \in S
      BY <2>1
    <2> QED
      BY <2>1, <2>2, <2>3
  <1>4. PICK longer \in Seq(R) :
            /\ longer = log \o f /\ Len(longer) = n + c
            /\ \A i \in 1 .. n : longer[i] = log[i]
            /\ \A i \in 1 .. c : longer[n + i] = f[i]
    <2>1. log \o f \in Seq(R) /\ Len(log \o f) = n + c
      BY <1>1, <1>3
    <2>2. \A i \in 1 .. n : (log \o f)[i] = log[i]
      BY <1>1, <1>3
    <2>3. \A i \in 1 .. c : (log \o f)[n + i] = f[i]
      BY <1>1, <1>3
    <2> QED
      BY <2>1, <2>2, <2>3, Zenon
  <1>5. PICK K : K = {i \in n + 1 .. n + c : longer[i] = x}
    OBVIOUS
  <1>6. \A k \in K : k - n \in 1 .. c /\ f[k - n] = x
    <2>1. \A k \in n + 1 .. n + c : k - n \in 1 .. c /\ n + (k - n) = k
      OBVIOUS
    <2> QED
      BY <1>4, <1>5, <2>1
  <1>7. x \notin S => K = {}
    BY <1>3, <1>6
  <1>8. ASSUME x \in S PROVE \E k : K = {k}
    <2>1. PICK i \in 1 .. c : f[i] = x /\ \A j \in 1 .. c : f[j] = x => j = i
      BY <1>3, <1>8
    <2>2. n + i \in K
      <3>1. n + i \in n + 1 .. n + c
        OBVIOUS
      <3> QED
        BY <1>4, <1>5, <2>1, <3>1
    <2>3. ASSUME NEW k \in K PROVE k = n + i
      <3>1. PICK j \in n + 1 .. n + c : j = k
        BY <1>5
      <3>2. j - n \in 1 .. c /\ f[j - n] = x
        BY <1>6, <3>1
      <3>3. j - n = i
        BY <2>1, <3>2
      <3> QED
        BY <3>1, <3>3
    <2>4. K = {n + i}
      BY <2>2, <2>3
    <2> QED
      BY <2>4
  <1>9. Len(log) <= Len(longer) /\ \A i \in 1 .. Len(log) : longer[i] = log[i]
    BY <1>1, <1>4
  <1>10. K = {i \in Len(log) + 1 .. Len(longer) : longer[i] = x}
    BY <1>1, <1>4, <1>5
  <1>11. /\ Times(x, log) \in Nat
         /\ K = {} => Times(x, longer) = Times(x, log)
         /\ (\E k : K = {k}) => Times(x, longer) = Times(x, log) + 1
    BY <1>9, <1>10, TimesExtended
  <1> QED
    BY <1>3, <1>4, <1>7, <1>8, <1>11

(* The threads that have approved a request and not written it down yet. *)
InHand(r) == {a \in Admins : admins[a] = RequestApprove(r)}

LEMMA ApprovalNumbers ==
    ASSUME PolicyTypes, NEW r
    PROVE  /\ Times(RequestApprove(r), audit) \in Nat /\ Times(RequestApprove(r), lost) \in Nat
           /\ IsFiniteSet(InHand(r)) /\ Cardinality(InHand(r)) \in Nat
           /\ (InHand(r) = {} <=> Cardinality(InHand(r)) = 0)
  <1>1. Times(RequestApprove(r), audit) \in Nat
    <2>1. audit \in Seq(Records) /\ Len(audit) <= Len(audit)
      BY DEF PolicyTypes, PolicyTypeOK
    <2> QED
      BY <2>1, TimesExtended
  <1>2. Times(RequestApprove(r), lost) \in Nat
    <2>1. lost \in Seq(Records) /\ Len(lost) <= Len(lost)
      BY DEF PolicyTypes, PolicyTypeOK
    <2> QED
      BY <2>1, TimesExtended
  <1>3. IsFiniteSet(InHand(r))
    <2>1. IsFiniteSet(Admins) /\ InHand(r) \in SUBSET Admins
      BY PolicyAssumption DEF InHand
    <2> QED
      BY <2>1, FS_Subset
  <1> QED
    BY <1>1, <1>2, <1>3, FS_CardinalityType, FS_EmptySet

LEMMA ApprovalsInit ==
    ASSUME PolicyInit
    PROVE  ApprovalsAreAudited
  <1>1. DOMAIN requests = {}
    BY DEF PolicyInit
  <1> QED
    BY <1>1 DEF ApprovalsAreAudited

(* What the invariant says of one request. *)
ApprovalIsAudited(r) ==
    Times(RequestApprove(r), audit) + Times(RequestApprove(r), lost) + Cardinality(InHand(r))
        = IF requests[r].status = "approved" THEN 1 ELSE 0

LEMMA ApprovalByRequest == ApprovalsAreAudited <=> \A r \in DOMAIN requests : ApprovalIsAudited(r)
  BY DEF ApprovalsAreAudited, ApprovalIsAudited, InHand

LEMMA ApprovalsAside ==
    ASSUME ApprovalsAreAudited, UNCHANGED <<requests, audit, lost>>,
           \A a \in Admins : \A r \in DOMAIN requests :
                admins'[a] = RequestApprove(r) <=> admins[a] = RequestApprove(r)
    PROVE  ApprovalsAreAudited'
  <1>1. \A r \in DOMAIN requests :
            {a \in Admins : admins'[a] = RequestApprove(r)} = {a \in Admins : admins[a] = RequestApprove(r)}
    OBVIOUS
  <1> QED
    BY <1>1 DEF ApprovalsAreAudited

LEMMA ApprovalsKept ==
    ASSUME PolicyTypes, ApprovalsAreAudited, [PolicyNext]_policyVars
    PROVE  ApprovalsAreAudited'
  <1>1. /\ requests \in Seq(Request) /\ audit \in Seq(Records) /\ lost \in Seq(Records)
        /\ admins \in [Admins -> Records \cup {None}]
    BY DEF PolicyTypes, PolicyTypeOK
  <1>2. PICK n \in Nat : n = Len(requests) /\ DOMAIN requests = 1 .. n
    BY <1>1
  <1>3. \A r \in 1 .. n : ApprovalIsAudited(r)
    BY <1>2, ApprovalByRequest
  <1>4. ASSUME UNCHANGED <<requests, audit, lost>>,
               NEW a \in Admins, \A r : admins[a] # RequestApprove(r) /\ admins'[a] # RequestApprove(r),
               \A b \in Admins : b # a => admins'[b] = admins[b]
        PROVE  ApprovalsAreAudited'
    <2>1. \A b \in Admins : \A r \in DOMAIN requests :
            admins'[b] = RequestApprove(r) <=> admins[b] = RequestApprove(r)
      BY <1>4
    <2> QED
      BY <1>4, <2>1, ApprovalsAside
  <1>5. ASSUME NEW a \in Admins, NEW h \in Headers, NEW on \in BOOLEAN, SetHeader(a, h, on)
        PROVE  ApprovalsAreAudited'
    <2>1. /\ UNCHANGED <<requests, audit, lost>> /\ admins[a] = None /\ admins'[a] = HeaderUpdate(h, on)
          /\ \A b \in Admins : b # a => admins'[b] = admins[b]
      BY <1>1, <1>5 DEF SetHeader, MayUpdate
    <2>2. \A r : admins[a] # RequestApprove(r) /\ admins'[a] # RequestApprove(r)
      BY <2>1, RecordsDiffer
    <2> QED
      BY <1>4, <2>1, <2>2
  <1>6. ASSUME NEW a \in Admins, NEW e \in Extensions, AddExtension(a, e)
        PROVE  ApprovalsAreAudited'
    <2>1. /\ UNCHANGED <<requests, audit, lost>> /\ admins[a] = None /\ admins'[a] = CatalogAdd(e)
          /\ \A b \in Admins : b # a => admins'[b] = admins[b]
      BY <1>1, <1>6 DEF AddExtension, MayUpdate
    <2>2. \A r : admins[a] # RequestApprove(r) /\ admins'[a] # RequestApprove(r)
      BY <2>1, RecordsDiffer
    <2> QED
      BY <1>4, <2>1, <2>2
  (* The record moves from the thread to the log. *)
  <1>7. ASSUME NEW a \in Admins, Audit(a)
        PROVE  ApprovalsAreAudited'
    <2>1. /\ admins[a] \in Records /\ audit' = Append(audit, admins[a]) /\ admins'[a] = None
          /\ \A b \in Admins : b # a => admins'[b] = admins[b]
          /\ UNCHANGED <<requests, lost>>
      BY <1>1, <1>7 DEF Audit
    <2>2. ASSUME NEW r \in 1 .. n
          PROVE  ApprovalIsAudited(r)'
      <3>1. \A q : None # RequestApprove(q)
        BY RecordsDiffer
      <3>2. PICK H : H = InHand(r)
        OBVIOUS
      <3>3. PICK G : G = {b \in Admins : admins'[b] = RequestApprove(r)}
        OBVIOUS
      <3>4. G = H \ {a}
        BY <2>1, <3>1, <3>2, <3>3 DEF InHand
      <3>5. IsFiniteSet(H) /\ Cardinality(H) \in Nat /\ Times(RequestApprove(r), audit) \in Nat
        BY <3>2, ApprovalNumbers
      <3>6. Times(RequestApprove(r), lost) \in Nat
        BY ApprovalNumbers
      <3>7. CASE admins[a] = RequestApprove(r)
        <4>1. a \in H
          BY <3>2, <3>7 DEF InHand
        <4>2. Cardinality(G) = Cardinality(H) - 1
          BY <3>4, <3>5, <4>1, FS_RemoveElement
        <4>3. Times(RequestApprove(r), audit') = Times(RequestApprove(r), audit) + 1
          BY <1>1, <2>1, <3>7, TimesAppend
        <4>4. Times(RequestApprove(r), audit') + Times(RequestApprove(r), lost) + Cardinality(G)
              = Times(RequestApprove(r), audit) + Times(RequestApprove(r), lost) + Cardinality(H)
          BY <3>5, <3>6, <4>2, <4>3
        <4> QED
          BY <1>3, <2>1, <3>2, <3>3, <4>4 DEF ApprovalIsAudited, InHand
      <3>8. CASE admins[a] # RequestApprove(r)
        <4>1. G = H
          BY <3>2, <3>4, <3>8 DEF InHand
        <4>2. Times(RequestApprove(r), audit') = Times(RequestApprove(r), audit)
          BY <1>1, <2>1, <3>8, TimesAppend
        <4> QED
          BY <1>3, <2>1, <3>2, <3>3, <4>1, <4>2 DEF ApprovalIsAudited, InHand
      <3> QED
        BY <3>7, <3>8
    <2>3. DOMAIN requests' = 1 .. n
      BY <1>2, <2>1
    <2>4. \A r \in DOMAIN requests' : ApprovalIsAudited(r)'
      BY <2>2, <2>3
    <2> QED
      BY <2>4 DEF ApprovalsAreAudited, ApprovalIsAudited, InHand
  (* Or it is lost when the log cannot be written. *)
  <1>8. ASSUME NEW a \in Admins, AuditFails(a)
         PROVE  ApprovalsAreAudited'
    <2>1. /\ admins[a] \in Records /\ lost' = Append(lost, admins[a]) /\ admins'[a] = None
          /\ \A b \in Admins : b # a => admins'[b] = admins[b]
          /\ UNCHANGED <<requests, audit>>
      BY <1>1, <1>8 DEF AuditFails
    <2>2. ASSUME NEW r \in 1 .. n
          PROVE  ApprovalIsAudited(r)'
      <3>1. \A q : None # RequestApprove(q)
        BY RecordsDiffer
      <3>2. PICK H : H = InHand(r)
        OBVIOUS
      <3>3. PICK G : G = {b \in Admins : admins'[b] = RequestApprove(r)}
        OBVIOUS
      <3>4. G = H \ {a}
        BY <2>1, <3>1, <3>2, <3>3 DEF InHand
      <3>5. IsFiniteSet(H) /\ Cardinality(H) \in Nat /\ Times(RequestApprove(r), lost) \in Nat
        BY <3>2, ApprovalNumbers
      <3>6. Times(RequestApprove(r), audit) \in Nat
        BY ApprovalNumbers
      <3>7. CASE admins[a] = RequestApprove(r)
        <4>1. a \in H
          BY <3>2, <3>7 DEF InHand
        <4>2. Cardinality(G) = Cardinality(H) - 1
          BY <3>4, <3>5, <4>1, FS_RemoveElement
        <4>3. Times(RequestApprove(r), lost') = Times(RequestApprove(r), lost) + 1
          BY <1>1, <2>1, <3>7, TimesAppend
        <4>4. Times(RequestApprove(r), audit) + Times(RequestApprove(r), lost') + Cardinality(G)
              = Times(RequestApprove(r), audit) + Times(RequestApprove(r), lost) + Cardinality(H)
          BY <3>5, <3>6, <4>2, <4>3
        <4> QED
          BY <1>3, <2>1, <3>2, <3>3, <4>4 DEF ApprovalIsAudited, InHand
      <3>8. CASE admins[a] # RequestApprove(r)
        <4>1. G = H
          BY <3>2, <3>4, <3>8 DEF InHand
        <4>2. Times(RequestApprove(r), lost') = Times(RequestApprove(r), lost)
          BY <1>1, <2>1, <3>8, TimesAppend
        <4> QED
          BY <1>3, <2>1, <3>2, <3>3, <4>1, <4>2 DEF ApprovalIsAudited, InHand
      <3> QED
        BY <3>7, <3>8
    <2>3. DOMAIN requests' = 1 .. n
      BY <1>2, <2>1
    <2>4. \A r \in DOMAIN requests' : ApprovalIsAudited(r)'
      BY <2>2, <2>3
    <2> QED
      BY <2>4 DEF ApprovalsAreAudited, ApprovalIsAudited, InHand
  (* Or with the thread. *)
  <1>9. ASSUME Restart
        PROVE  ApprovalsAreAudited'
    <2>1. PICK S : S = {admins[a] : a \in InFlight}
      OBVIOUS
    <2>2. /\ IsFiniteSet(S) /\ \A x : x \in S <=> \E a \in Admins : admins[a] = x /\ x # None
      BY <2>1, InFlightIsFinite
    <2>3. S \subseteq Records
      <3>1. \A a \in Admins : admins[a] # None => admins[a] \in Records
        BY <1>1
      <3> QED
        BY <2>2, <3>1
    <2>4. /\ lost' = lost \o SetToSeq(S) /\ UNCHANGED <<requests, audit>>
          /\ \A a \in Admins : admins'[a] = None
      BY <1>9, <2>1 DEF Restart
    <2>5. ASSUME NEW r \in 1 .. n
          PROVE  ApprovalIsAudited(r)'
      <3>1. RequestApprove(r) # None
        BY RecordsDiffer
      <3>2. PICK x : x = RequestApprove(r)
        OBVIOUS
      <3>3. Cardinality({a \in Admins : admins'[a] = x}) = 0
        <4>1. {a \in Admins : admins'[a] = x} = {}
          BY <2>4, <3>1, <3>2
        <4> QED
          BY <4>1, FS_EmptySet
      <3>4. PICK A, L, I \in Nat :
                A = Times(x, audit) /\ L = Times(x, lost) /\ I = Cardinality(InHand(r))
        BY <3>2, ApprovalNumbers
      <3>5. A + L + I = IF requests[r].status = "approved" THEN 1 ELSE 0
        BY <1>3, <3>2, <3>4 DEF ApprovalIsAudited
      <3>6. x \in S <=> I # 0
        <4>1. I = 0 <=> InHand(r) = {}
          BY <3>4, ApprovalNumbers
        <4>2. x \in S <=> InHand(r) # {}
          BY <2>2, <3>1, <3>2 DEF InHand
        <4> QED
          BY <4>1, <4>2
      <3>7. Times(x, lost') = L + I
        <4>1. CASE x \in S
          <5>1. I = 1
            BY <3>5, <3>6, <4>1
          <5>2. Times(x, lost \o SetToSeq(S)) = Times(x, lost) + 1
            BY <1>1, <2>2, <2>3, <4>1, TimesLost
          <5>3. Times(x, lost') = L + 1
            BY <2>4, <3>4, <5>2
          <5> QED
            BY <5>1, <5>3
        <4>2. CASE x \notin S
          <5>1. Times(x, lost') = L
            BY <1>1, <2>2, <2>3, <2>4, <3>4, <4>2, TimesLost
          <5> QED
            BY <3>6, <4>2, <5>1
        <4> QED
          BY <4>1, <4>2
      <3>8. Times(x, audit') = A /\ requests' = requests
        BY <2>4, <3>4
      <3>9. Times(x, audit') + Times(x, lost') + Cardinality({a \in Admins : admins'[a] = x})
            = IF requests'[r].status = "approved" THEN 1 ELSE 0
        BY <3>3, <3>5, <3>7, <3>8
      <3> QED
        BY <3>2, <3>9 DEF ApprovalIsAudited, InHand
    <2>6. DOMAIN requests' = 1 .. n
      BY <1>2, <2>4
    <2>7. \A r \in DOMAIN requests' : ApprovalIsAudited(r)'
      BY <2>5, <2>6
    <2> QED
      BY <2>7 DEF ApprovalsAreAudited, ApprovalIsAudited, InHand
  (* A new request is in no record. *)
  <1>10. ASSUME NEW d \in Developers, NEW e \in Extensions, RequestExtension(d, e)
        PROVE  ApprovalsAreAudited'
    <2>1. PICK new \in Request : new = [user |-> d, item |-> e, status |-> "pending"]
      BY DEF Request
    <2>2. /\ DOMAIN requests' = 1 .. n + 1 /\ requests'[n + 1] = new
          /\ \A r \in 1 .. n : requests'[r] = requests[r]
          /\ UNCHANGED <<audit, lost, admins>>
      BY <1>1, <1>2, <1>10, <2>1 DEF RequestExtension
    <2>3. \A r \in 1 .. n : ApprovalIsAudited(r)'
      BY <1>3, <2>2 DEF ApprovalIsAudited, InHand
    <2>4. RequestApprove(n + 1) \notin Records
      BY <1>2 DEF Records, RequestApprove
    <2>5. PICK x : x = RequestApprove(n + 1)
      OBVIOUS
    <2>6. Times(x, audit) = 0
      <3>1. {i \in DOMAIN audit : audit[i] = x} = {}
        BY <1>1, <2>4, <2>5
      <3> QED
        BY <3>1, FS_EmptySet DEF Times
    <2>7. Times(x, lost) = 0
      <3>1. {i \in DOMAIN lost : lost[i] = x} = {}
        BY <1>1, <2>4, <2>5
      <3> QED
        BY <3>1, FS_EmptySet DEF Times
    <2>8. Cardinality({a \in Admins : admins[a] = x}) = 0
      <3>1. {a \in Admins : admins[a] = x} = {}
        BY <1>1, <2>4, <2>5, RecordsDiffer
      <3> QED
        BY <3>1, FS_EmptySet
    <2>9. ApprovalIsAudited(n + 1)'
      <3>1. requests'[n + 1].status # "approved"
        BY <2>1, <2>2
      <3>2. Times(x, audit') + Times(x, lost') + Cardinality({a \in Admins : admins'[a] = x}) = 0
        BY <2>2, <2>6, <2>7, <2>8
      <3> QED
        BY <2>5, <3>1, <3>2 DEF ApprovalIsAudited, InHand
    <2>10. \A r \in 1 .. n + 1 : r \in 1 .. n \/ r = n + 1
      OBVIOUS
    <2>11. \A r \in DOMAIN requests' : ApprovalIsAudited(r)'
      BY <2>2, <2>3, <2>9, <2>10
    <2> QED
      BY <2>11 DEF ApprovalsAreAudited, ApprovalIsAudited, InHand
  (* An approval is in no record yet: the request was pending. *)
  <1>11. ASSUME NEW a \in Admins, NEW s \in 1 .. n, ApproveExtension(a, s)
         PROVE  ApprovalsAreAudited'
    <2>1. /\ admins[a] = None /\ admins'[a] = RequestApprove(s)
          /\ \A b \in Admins : b # a => admins'[b] = admins[b]
          /\ UNCHANGED <<audit, lost>> /\ requests[s].status = "pending"
          /\ requests' = [requests EXCEPT ![s].status = "approved"]
      BY <1>1, <1>11 DEF ApproveExtension, MayUpdate, Decidable
    <2>2. DOMAIN requests' = 1 .. n /\ \A r \in 1 .. n : r # s => requests'[r] = requests[r]
      BY <1>2, <2>1
    <2>3. requests'[s].status = "approved"
      <3>1. requests[s] \in Request
        BY <1>1, <1>2
      <3> QED
        BY <1>2, <2>1, <3>1 DEF Request
    <2>4. \A q, r : RequestApprove(q) = RequestApprove(r) => q = r
      BY RecordsDiffer
    <2>5. \A r : None # RequestApprove(r)
      BY RecordsDiffer
    <2>6. ASSUME NEW r \in 1 .. n, r # s
          PROVE  ApprovalIsAudited(r)'
      <3>1. {b \in Admins : admins'[b] = RequestApprove(r)} = InHand(r)
        BY <2>1, <2>4, <2>5, <2>6 DEF InHand
      <3> QED
        BY <1>3, <2>1, <2>2, <2>6, <3>1 DEF ApprovalIsAudited, InHand
    <2>7. ApprovalIsAudited(s)'
      <3>1. PICK x : x = RequestApprove(s)
        OBVIOUS
      <3>2. PICK A, L, I \in Nat :
                A = Times(x, audit) /\ L = Times(x, lost) /\ I = Cardinality(InHand(s))
        BY <3>1, ApprovalNumbers
      <3>3. A + L + I = 0
        BY <1>3, <2>1, <3>1, <3>2 DEF ApprovalIsAudited
      <3>4. InHand(s) = {}
        BY <3>2, <3>3, ApprovalNumbers
      <3>5. {b \in Admins : admins'[b] = x} = {a}
        BY <2>1, <3>1, <3>4 DEF InHand
      <3>6. Cardinality({b \in Admins : admins'[b] = x}) = 1
        BY <3>5, FS_Singleton
      <3>7. Times(x, audit') = 0 /\ Times(x, lost') = 0
        BY <2>1, <3>2, <3>3
      <3>8. Times(x, audit') + Times(x, lost') + Cardinality({b \in Admins : admins'[b] = x}) = 1
        BY <3>6, <3>7
      <3> QED
        BY <2>3, <3>1, <3>8 DEF ApprovalIsAudited, InHand
    <2>8. \A r \in DOMAIN requests' : ApprovalIsAudited(r)'
      BY <2>2, <2>6, <2>7
    <2> QED
      BY <2>8 DEF ApprovalsAreAudited, ApprovalIsAudited, InHand
  <1>12. ASSUME UNCHANGED <<requests, audit, lost, admins>>
         PROVE  ApprovalsAreAudited'
    BY <1>12, ApprovalsAside
  <1>13. \A d \in Developers, source \in Sources :
            CheckIncludes(d, source) => UNCHANGED <<requests, audit, lost, admins>>
    BY DEF CheckIncludes
  <1>14. \A d \in Developers : CreateJob(d) \/ AnswerJob(d) => UNCHANGED <<requests, audit, lost, admins>>
    BY DEF CreateJob, AnswerJob
  <1>15. UNCHANGED policyVars => UNCHANGED <<requests, audit, lost, admins>>
    BY DEF policyVars
  <1> QED
    BY <1>2, <1>5, <1>6, <1>7, <1>8, <1>9, <1>10, <1>11, <1>12, <1>13, <1>14, <1>15 DEF PolicyNext, Approve

(* The tables keep their types and no two requests are alike, every        *)
(* approval is recorded once, and a developer's first request can be       *)
(* approved: decide_extension_request, audit and the unique constraints.   *)
THEOREM CatalogStaysConsistent == PolicySpec => []CatalogConsistent
  <1>1. PolicySpec => [](PolicyTypes /\ RequestsInTurn /\ ApprovalsAreAudited)
    BY PolicyTypesHold, TurnsInit, TurnsKept, ApprovalsInit, ApprovalsKept, PTL DEF PolicySpec
  <1>2. PolicyTypes /\ RequestsInTurn /\ ApprovalsAreAudited => CatalogConsistent
    BY TurnsMakeDecidable DEF CatalogConsistent, PolicyTypes
  <1> QED
    BY <1>1, <1>2, PTL
=============================================================================
