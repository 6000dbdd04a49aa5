---------------------------- MODULE TreeWalk_proofs ----------------------------
(* What the steps of a walk over the statement lists keep, whatever the pass does *)
(* with the calls on its way; for the proofs about both replacement passes.       *)
EXTENDS TreeWalk, TLAPS

Statuses == {"walk", "done", "error", "unsupported", "crash"}

Frames == [l : DOMAIN list, i : Nat]

LEMMA ElementIn ==
  ASSUME NEW S, NEW s \in Seq(S), NEW k \in DOMAIN s PROVE s[k] \in S
OBVIOUS

\* The innermost walk of one under way.
LEMMA Innermost ==
  ASSUME WalkInv, stack # <<>>
  PROVE  /\ 1 \in DOMAIN stack /\ DOMAIN stack = 1 .. Len(stack) /\ Len(stack) \in Nat \ {0}
         /\ stack[1] = [l |-> L, i |-> I] /\ L = stack[1].l /\ I = stack[1].i
         /\ L \in DOMAIN list /\ I \in 0 .. Len(list[L])
         /\ list[L] \in Seq(ToSet(list[L])) /\ Len(list[L]) \in Nat
         /\ DOMAIN list[L] = 1 .. Len(list[L])
<1>1. stack \in Seq([l : DOMAIN list, i : Nat])
  BY DEF WalkInv
<1>2. 1 \in DOMAIN stack /\ DOMAIN stack = 1 .. Len(stack) /\ Len(stack) \in Nat \ {0}
  <2>1. DOMAIN stack = 1 .. Len(stack) /\ Len(stack) \in Nat
    BY <1>1
  <2>2. Len(stack) # 0
    BY <1>1
  <2> QED
    BY <2>1, <2>2
<1>3. Head(stack) = stack[1] /\ stack[1] \in [l : DOMAIN list, i : Nat]
  <2>1. Head(stack) = stack[1]
    BY <1>1, <1>2
  <2>2. stack[1] \in [l : DOMAIN list, i : Nat]
    BY <1>1, <1>2, ElementIn
  <2> QED
    BY <2>1, <2>2
<1>4. L = stack[1].l /\ I = stack[1].i /\ stack[1] = [l |-> L, i |-> I]
  BY <1>3 DEF L, I
<1>5. L \in DOMAIN list
  BY <1>3, <1>4
<1>6. I \in 0 .. Len(list[L])
  BY <1>2, <1>4 DEF WalkInv, WalkTypeOK
<1>7. list[L] \in Seq(ToSet(list[L]))
  BY <1>5 DEF WalkInv, ListsKept
<1>8. Len(list[L]) \in Nat /\ DOMAIN list[L] = 1 .. Len(list[L])
  BY <1>7
<1> QED
  BY <1>2, <1>4, <1>5, <1>6, <1>7, <1>8

\* A statement that has others nested in it is one of the program.
LEMMA NestsKept ==
  ASSUME WalkInv, NEW l \in DOMAIN list, NEW m \in DOMAIN list[l], Nested(list[l][m]) # {}
  PROVE  /\ list[l][m] \in StatementsOf(program) /\ list[l][m].kind = "nest"
         /\ list[l][m].lists \in Seq(DOMAIN list) /\ IsInjective(list[l][m].lists)
         /\ Nested(list[l][m]) \subseteq DOMAIN list
         /\ \A f \in DOMAIN program.roots : program.roots[f] \notin Nested(list[l][m])
<1>1. list[l][m].kind = "nest"
  BY DEF Nested
<1>2. list[l][m] \in ToSet(list[l])
  BY DEF ToSet
<1>3. list[l][m] \in StatementsOf(program)
  BY <1>1, <1>2 DEF WalkInv, ListsKept
<1>4. WellFormed(program) /\ DOMAIN list = DOMAIN program.lists
  BY ProgramsAssumption DEF WalkInv, WalkTypeOK
<1>5. list[l][m].lists \in Seq(DOMAIN list) /\ IsInjective(list[l][m].lists)
  BY <1>1, <1>3, <1>4 DEF WellFormed
<1>6. Nested(list[l][m]) \subseteq DOMAIN list
  BY <1>1, <1>5 DEF Nested, ToSet
<1>7. \A f \in DOMAIN program.roots : program.roots[f] \notin Nested(list[l][m])
  BY <1>3, <1>4 DEF WellFormed
<1> QED
  BY <1>1, <1>3, <1>5, <1>6, <1>7

\* A call the walk is at is one of the program.
LEMMA CallOfProgram ==
  ASSUME WalkInv, At("call")
  PROVE  /\ Stmt \in StatementsOf(program) /\ Stmt.kind = "call" /\ Stmt = list[L][I]
         /\ program \in Programs /\ stack # <<>> /\ I # 0 /\ status = "walk"
         /\ Stmt.args \in Seq(ToSet(Stmt.args))
<1>1. stack # <<>> /\ I # 0 /\ status = "walk" /\ Stmt.kind = "call" /\ Stmt = list[L][I]
  BY DEF At, Stmt
<1>2. L \in DOMAIN list /\ I \in DOMAIN list[L]
  BY <1>1, Innermost
<1>3. Stmt \in ToSet(list[L])
  BY <1>1, <1>2 DEF ToSet
<1>4. Stmt \in StatementsOf(program) /\ program \in Programs
  BY <1>1, <1>2, <1>3 DEF WalkInv, ListsKept
<1>5. Stmt.args \in Seq(ToSet(Stmt.args))
  BY <1>1, <1>4, ProgramsAssumption DEF WellFormed
<1> QED
  BY <1>1, <1>4, <1>5

\* Only the innermost walk goes on.
LEMMA Continued ==
  ASSUME NEW S, NEW s \in Seq(S), s # <<>>, NEW e \in S
  PROVE  /\ <<e>> \o Tail(s) \in Seq(S) /\ Len(<<e>> \o Tail(s)) = Len(s)
         /\ (<<e>> \o Tail(s))[1] = e
         /\ \A k \in 2 .. Len(s) : (<<e>> \o Tail(s))[k] = s[k]
OBVIOUS

\* Where a loop starts and goes on.
LEMMA StartIn ==
  ASSUME NEW s, s \in Seq(ToSet(s)) PROVE Start(s) \in 0 .. Len(s)
BY DEF Start

LEMMA NextIn ==
  ASSUME NEW s, s \in Seq(ToSet(s)), NEW i \in Nat
  PROVE  Next(s, i) \in 0 .. Len(s) /\ (Next(s, i) = 0 \/ Next(s, i) = i + 1)
BY DEF Next

--------------------------------------------------------------------------------
(* The steps that change no list.                                                 *)

LEMMA InitKeeps == WalkInit => WalkInv
<1> SUFFICES ASSUME WalkInit PROVE WalkInv
  OBVIOUS
<1> USE DEF WalkInit
<1>1. WellFormed(program)
  BY ProgramsAssumption
<1>2. program.lists \in Seq(Seq(StatementsOf(program))) /\ program.roots \in Seq(DOMAIN program.lists)
  BY <1>1 DEF WellFormed
<1>3. WalkTypeOK
  BY <1>2 DEF WalkTypeOK
<1>4. ASSUME NEW l \in DOMAIN list PROVE list[l] \in Seq(ToSet(list[l]))
  <2>1. list[l] \in Seq(StatementsOf(program))
    BY <1>2, <1>4
  <2> QED
    BY <2>1 DEF ToSet
<1>5. ASSUME NEW l \in DOMAIN list, NEW st \in ToSet(list[l]) PROVE st \in StatementsOf(program)
  BY <1>5 DEF StatementsOf
<1>6. ListsKept
  BY <1>4, <1>5 DEF ListsKept
<1>7. NestedOnce(list)
  BY <1>1 DEF WellFormed
<1>8. stack \in Seq([l : DOMAIN list, i : Nat]) /\ DOMAIN stack = {}
  OBVIOUS
<1>9. WalkedOnce /\ NotAhead /\ WalkedWithin
  BY <1>8 DEF WalkedOnce, NotAhead, WalkedWithin
<1> QED
  BY <1>3, <1>6, <1>7, <1>8, <1>9 DEF WalkInv

LEMMA ListsStay ==
  ASSUME WalkInv, UNCHANGED <<program, list>> PROVE ListsKept' /\ NestedOnce(list)'
<1>1. ListsKept'
  BY DEF WalkInv, ListsKept
<1>2. NestedOnce(list)'
  BY DEF WalkInv, NestedOnce
<1> QED
  BY <1>1, <1>2

\* The walk stays where it is, whatever the status.
LEMMA StopKeeps ==
  ASSUME WalkInv, UNCHANGED <<program, list, func, stack>>, status' \in Statuses
  PROVE  WalkInv'
<1>1. WalkTypeOK'
  BY DEF WalkInv, WalkTypeOK, Statuses
<1>2. ListsKept' /\ NestedOnce(list)'
  BY ListsStay
<1>3. WalkedOnce' /\ NotAhead' /\ WalkedWithin'
  BY DEF WalkInv, WalkedOnce, NotAhead, WalkedWithin, Nested
<1> QED
  BY <1>1, <1>2, <1>3 DEF WalkInv

LEMMA ExecuteKeeps == ASSUME WalkInv, Execute PROVE WalkInv'
<1> USE DEF Execute
<1> DEFINE root == program.roots[func + 1]
           frame == [l |-> root, i |-> Start(list[root])]
<1>1. WellFormed(program) /\ func \in 0 .. Len(program.roots) /\ DOMAIN list = DOMAIN program.lists
  BY ProgramsAssumption DEF WalkInv, WalkTypeOK
<1>2. program.roots \in Seq(DOMAIN list)
  BY <1>1 DEF WellFormed
<1>3. func + 1 \in DOMAIN program.roots /\ root \in DOMAIN list
  BY <1>1, <1>2
<1>4. list[root] \in Seq(ToSet(list[root]))
  BY <1>3 DEF WalkInv, ListsKept
<1>5. Start(list[root]) \in 0 .. Len(list[root]) /\ Len(list[root]) \in Nat
  BY <1>4, StartIn
<1>6. stack' = <<frame>> /\ frame \in [l : DOMAIN list, i : Nat]
  BY <1>3, <1>5
<1>7. Len(stack') = 1 /\ DOMAIN stack' = {1} /\ stack'[1] = frame
      /\ stack' \in Seq([l : DOMAIN list, i : Nat])
  BY <1>6
<1>8. \A l \in DOMAIN list : \A m \in DOMAIN list[l] : root \notin Nested(list[l][m])
  BY <1>3, NestsKept
<1>9. WalkTypeOK'
  <2>1. func' \in 0 .. Len(program.roots)
    BY <1>1, <1>3
  <2>2. stack'[1].l \in DOMAIN list /\ stack'[1].i \in 0 .. Len(list[stack'[1].l])
    BY <1>3, <1>5, <1>7
  <2>3. \A k \in 1 .. Len(stack') : k = 1
    BY <1>7
  <2> QED
    BY <1>1, <2>1, <2>2, <2>3 DEF WalkTypeOK
<1>10. WalkedOnce' /\ NotAhead' /\ WalkedWithin'
  <2>1. WalkedOnce'
    BY <1>7 DEF WalkedOnce
  <2>2. NotAhead'
    BY <1>3, <1>7, <1>8 DEF NotAhead, Nested
  <2>3. WalkedWithin'
    BY <1>7, <1>8 DEF WalkedWithin, Nested
  <2> QED
    BY <2>1, <2>2, <2>3
<1>11. ListsKept' /\ NestedOnce(list)'
  BY ListsStay
<1> QED
  BY <1>7, <1>9, <1>10, <1>11 DEF WalkInv

LEMMA FinishKeeps == ASSUME WalkInv, Finish PROVE WalkInv'
BY StopKeeps DEF Finish, Statuses

LEMMA LeaveKeeps == ASSUME WalkInv, Leave PROVE WalkInv'
<1> USE DEF Leave
<1>1. stack \in Seq([l : DOMAIN list, i : Nat])
  BY DEF WalkInv
<1>2. /\ Len(stack') = Len(stack) - 1 /\ DOMAIN stack' = 1 .. Len(stack')
      /\ DOMAIN stack = 1 .. Len(stack) /\ Len(stack) \in Nat
      /\ stack' \in Seq([l : DOMAIN list, i : Nat])
      /\ \A k \in 1 .. Len(stack') : k + 1 \in 1 .. Len(stack) /\ stack'[k] = stack[k + 1]
  BY <1>1
<1>3. WalkTypeOK'
  BY <1>2 DEF WalkInv, WalkTypeOK
<1>4. WalkedOnce'
  <2> SUFFICES ASSUME NEW j \in 1 .. Len(stack'), NEW k \in 1 .. Len(stack'),
                      stack'[j].l = stack'[k].l
               PROVE  j = k
    BY <1>2 DEF WalkedOnce
  <2>1. stack[j + 1].l = stack[k + 1].l /\ j + 1 \in DOMAIN stack /\ k + 1 \in DOMAIN stack
    BY <1>2
  <2>2. j + 1 = k + 1
    BY <2>1 DEF WalkInv, WalkedOnce
  <2> QED
    BY <1>2, <2>2
<1>5. NotAhead'
  BY <1>2 DEF WalkInv, NotAhead, Nested
<1>6. WalkedWithin'
  <2> SUFFICES ASSUME NEW k \in DOMAIN stack', NEW l \in DOMAIN list, NEW m \in DOMAIN list[l],
                      stack'[k].l \in Nested(list[l][m])
               PROVE  \E j \in DOMAIN stack' : j > k /\ stack'[j].l = l
    BY DEF WalkedWithin, Nested
  <2>1. PICK j \in DOMAIN stack : j > k + 1 /\ stack[j].l = l
    BY <1>2 DEF WalkInv, WalkedWithin
  <2>2. j - 1 \in DOMAIN stack' /\ j - 1 > k /\ stack'[j - 1] = stack[j]
    BY <1>2, <2>1
  <2> QED
    BY <2>1, <2>2
<1>7. ListsKept' /\ NestedOnce(list)'
  BY ListsStay
<1> QED
  BY <1>2, <1>3, <1>4, <1>5, <1>6, <1>7 DEF WalkInv

LEMMA Concatenated ==
  ASSUME NEW S, NEW s \in Seq(S), NEW t \in Seq(S)
  PROVE  /\ s \o t \in Seq(S) /\ Len(s \o t) = Len(s) + Len(t)
         /\ Len(s) \in Nat /\ Len(t) \in Nat
         /\ \A k \in 1 .. Len(s) : (s \o t)[k] = s[k]
         /\ \A k \in 1 .. Len(t) : (s \o t)[Len(s) + k] = t[k]
OBVIOUS

\* The stack s with the N frames f put above it, its own top moved on to e.
Topped(S, s, N, f, e, t) ==
  /\ t \in Seq(S) /\ Len(t) = N + Len(s) /\ DOMAIN t = 1 .. N + Len(s)
  /\ \A c \in 1 .. N : t[c] = f[c]
  /\ t[N + 1] = e
  /\ \A k \in 2 .. Len(s) : t[N + k] = s[k]

\* The lists of a nested statement are walked before the rest of its list.
LEMMA Entered ==
  ASSUME NEW S, NEW s \in Seq(S), s # <<>>, NEW N \in Nat, NEW f \in [1 .. N -> S], NEW e \in S,
         NEW t, t = f \o <<e>> \o Tail(s)
  PROVE  Topped(S, s, N, f, e, t)
<1>1. f \in Seq(S) /\ Len(f) = N
  OBVIOUS
<1>2. Tail(s) \in Seq(S) /\ Len(Tail(s)) = Len(s) - 1 /\ Len(s) \in Nat \ {0}
      /\ \A k \in 1 .. Len(s) - 1 : Tail(s)[k] = s[k + 1]
  OBVIOUS
<1>3. <<e>> \in Seq(S) /\ Len(<<e>>) = 1 /\ <<e>>[1] = e
  OBVIOUS
<1> DEFINE r == f \o <<e>>
<1>4. /\ r \in Seq(S) /\ Len(r) = N + 1 /\ \A c \in 1 .. N : r[c] = f[c]
      /\ r[N + 1] = e
  BY <1>1, <1>3, Concatenated
<1> HIDE DEF r
<1> DEFINE q == Tail(s)
<1>5. q \in Seq(S) /\ Len(q) = Len(s) - 1 /\ \A k \in 1 .. Len(s) - 1 : q[k] = s[k + 1]
  BY <1>2
<1> HIDE DEF q
<1>6. t = r \o q
  BY DEF r, q
<1>7. /\ t \in Seq(S) /\ Len(t) = N + Len(s) /\ DOMAIN t = 1 .. N + Len(s)
      /\ \A c \in 1 .. N + 1 : t[c] = r[c]
      /\ \A c \in 1 .. Len(s) - 1 : t[N + 1 + c] = q[c]
  <2>1. /\ t \in Seq(S) /\ Len(t) = Len(r) + Len(q)
        /\ \A c \in 1 .. Len(r) : t[c] = r[c]
        /\ \A c \in 1 .. Len(q) : t[Len(r) + c] = q[c]
    <3>1. r \in Seq(S) /\ q \in Seq(S)
      BY <1>4, <1>5
    <3>2. /\ r \o q \in Seq(S) /\ Len(r \o q) = Len(r) + Len(q)
          /\ \A c \in 1 .. Len(r) : (r \o q)[c] = r[c]
          /\ \A c \in 1 .. Len(q) : (r \o q)[Len(r) + c] = q[c]
      BY <3>1, Concatenated
    <3> QED
      BY <3>2, <1>6, Zenon
  <2>2. DOMAIN t = 1 .. Len(t)
    BY <2>1
  <2>3. Len(r) + Len(q) = N + Len(s)
    BY <1>2, <1>4, <1>5
  <2> QED
    BY <1>4, <1>5, <2>1, <2>2, <2>3, Zenon
<1>8. (\A c \in 1 .. N : t[c] = f[c]) /\ t[N + 1] = e
  <2>1. N + 1 \in 1 .. N + 1 /\ \A c \in 1 .. N : c \in 1 .. N + 1
    OBVIOUS
  <2> QED
    BY <1>4, <1>7, <2>1
<1>9. ASSUME NEW k \in 2 .. Len(s) PROVE t[N + k] = s[k]
  <2>1. k - 1 \in 1 .. Len(s) - 1 /\ N + 1 + (k - 1) = N + k /\ (k - 1) + 1 = k
    BY <1>2
  <2>2. t[N + 1 + (k - 1)] = q[k - 1]
    BY <1>7, <2>1
  <2>3. q[k - 1] = s[(k - 1) + 1]
    BY <1>5, <2>1
  <2> QED
    BY <2>1, <2>2, <2>3
<1> QED
  BY <1>7, <1>8, <1>9 DEF Topped

\* The walk stands at a statement with N lists nested in it, and these are put in
\* front of the other walks.
EnteredAs(N) ==
  /\ Stmt.kind = "nest" /\ Stmt = list[L][I] /\ Len(Stmt.lists) = N /\ N \in Nat
  /\ Stmt.lists \in Seq(DOMAIN list) /\ IsInjective(Stmt.lists)
  /\ stack' \in Seq(Frames) /\ Len(stack') = N + Len(stack)
  /\ DOMAIN stack' = 1 .. N + Len(stack)
  /\ \A c \in 1 .. N : /\ stack'[c].l = Stmt.lists[c]
                       /\ stack'[c].i = Start(list[Stmt.lists[c]])
  /\ stack'[N + 1].l = L /\ stack'[N + 1].i = Next(list[L], I)
  /\ \A k \in 2 .. Len(stack) : stack'[N + k] = stack[k]

LEMMA EnterFrames == ASSUME WalkInv, Enter PROVE EnteredAs(Len(Stmt.lists))
<1> DEFINE ls == Stmt.lists
           N == Len(ls)
           e == [l |-> L, i |-> Next(list[L], I)]
           f == [c \in 1 .. N |-> [l |-> ls[c], i |-> Start(list[ls[c]])]]
<1>1. /\ status = "walk" /\ stack # <<>> /\ I # 0 /\ Stmt.kind = "nest"
      /\ stack' = f \o <<e>> \o Tail(stack)
      /\ UNCHANGED <<program, list, func, status>>
  BY DEF Enter, At, Stmt
<1>2. /\ DOMAIN stack = 1 .. Len(stack) /\ Len(stack) \in Nat \ {0}
      /\ L = stack[1].l /\ I = stack[1].i
      /\ L \in DOMAIN list /\ I \in 1 .. Len(list[L]) /\ I \in DOMAIN list[L]
      /\ list[L] \in Seq(ToSet(list[L])) /\ Len(list[L]) \in Nat
  BY <1>1, Innermost
<1>3. Stmt = list[L][I] /\ Nested(Stmt) = ToSet(ls)
  BY <1>1 DEF Stmt, Nested
<1>4. ls \in Seq(DOMAIN list) /\ IsInjective(ls)
  <2>1. Stmt \in StatementsOf(program)
    <3>1. Stmt \in ToSet(list[L])
      BY <1>2, <1>3 DEF ToSet
    <3> QED
      BY <1>1, <1>2, <3>1 DEF WalkInv, ListsKept
  <2>2. WellFormed(program) /\ DOMAIN list = DOMAIN program.lists
    BY ProgramsAssumption DEF WalkInv, WalkTypeOK
  <2> QED
    BY <1>1, <2>1, <2>2 DEF WellFormed
<1>5. N \in Nat /\ DOMAIN ls = 1 .. N /\ \A c \in 1 .. N : ls[c] \in DOMAIN list
  BY <1>4
<1> HIDE DEF ls, N
<1>7. ASSUME NEW c \in 1 .. N
      PROVE  Start(list[ls[c]]) \in 0 .. Len(list[ls[c]]) /\ Len(list[ls[c]]) \in Nat
  <2>1. list[ls[c]] \in Seq(ToSet(list[ls[c]]))
    BY <1>5 DEF WalkInv, ListsKept
  <2> QED
    BY <2>1, StartIn
<1>8. Next(list[L], I) \in 0 .. Len(list[L])
      /\ (Next(list[L], I) = 0 \/ Next(list[L], I) = I + 1)
  <2>1. I \in Nat
    BY <1>2
  <2> QED
    BY <1>2, <2>1, NextIn
<1>9. f \in [1 .. N -> Frames] /\ e \in Frames
  <2>1. \A c \in 1 .. N : [l |-> ls[c], i |-> Start(list[ls[c]])] \in Frames
    BY <1>5, <1>7 DEF Frames
  <2>2. Next(list[L], I) \in Nat /\ L \in DOMAIN list
    BY <1>2, <1>8
  <2> QED
    BY <2>1, <2>2 DEF Frames
<1>10. stack \in Seq(Frames)
  BY DEF WalkInv, Frames
<1>11. /\ stack' \in Seq(Frames) /\ Len(stack') = N + Len(stack)
       /\ DOMAIN stack' = 1 .. N + Len(stack)
       /\ \A c \in 1 .. N : stack'[c] = f[c]
       /\ stack'[N + 1] = e
       /\ \A k \in 2 .. Len(stack) : stack'[N + k] = stack[k]
  <2>1. N \in Nat /\ f \in [1 .. N -> Frames] /\ e \in Frames
    BY <1>5, <1>9
  <2>2. stack # <<>> /\ stack' = f \o <<e>> \o Tail(stack)
    BY <1>1
  <2> HIDE DEF f, e, N
  <2>3. Topped(Frames, stack, N, f, e, stack')
    BY <1>10, <2>1, <2>2, Entered, Zenon
  <2> QED
    BY <2>3 DEF Topped
<1>12. \A c \in 1 .. N : stack'[c].l = ls[c] /\ stack'[c].i = Start(list[ls[c]])
  <2> SUFFICES ASSUME NEW c \in 1 .. N
               PROVE  stack'[c].l = ls[c] /\ stack'[c].i = Start(list[ls[c]])
    OBVIOUS
  <2>1. stack'[c] = f[c]
    BY <1>11
  <2>2. f[c] = [l |-> ls[c], i |-> Start(list[ls[c]])]
    OBVIOUS
  <2> QED
    BY <2>1, <2>2
<1>13. stack'[N + 1].l = L /\ stack'[N + 1].i = Next(list[L], I)
  BY <1>11
<1> QED
  BY <1>1, <1>3, <1>4, <1>5, <1>11, <1>12, <1>13 DEF EnteredAs, ls, N

LEMMA EnterKeeps == ASSUME WalkInv, Enter PROVE WalkInv'
<1> DEFINE ls == Stmt.lists
           N == Len(ls)
<1>1. /\ status = "walk" /\ stack # <<>> /\ I # 0 /\ Stmt.kind = "nest"
      /\ UNCHANGED <<program, list, func, status>>
  BY DEF Enter, At, Stmt
<1>2. /\ DOMAIN stack = 1 .. Len(stack) /\ Len(stack) \in Nat \ {0}
      /\ L = stack[1].l /\ I = stack[1].i
      /\ L \in DOMAIN list /\ I \in 1 .. Len(list[L]) /\ I \in DOMAIN list[L]
      /\ list[L] \in Seq(ToSet(list[L])) /\ Len(list[L]) \in Nat
  BY <1>1, Innermost
<1>3. Stmt = list[L][I] /\ Nested(Stmt) = ToSet(ls)
  BY <1>1 DEF Stmt, Nested
<1>4. EnteredAs(N) /\ ls \in Seq(DOMAIN list) /\ IsInjective(ls)
  BY EnterFrames DEF EnteredAs
<1>5. N \in Nat /\ DOMAIN ls = 1 .. N /\ \A c \in 1 .. N : ls[c] \in DOMAIN list
  BY <1>4
<1> HIDE DEF ls, N
<1>6. \A c \in 1 .. N : ls[c] \in Nested(list[L][I])
  BY <1>3, <1>5 DEF ToSet
<1>7. ASSUME NEW c \in 1 .. N
      PROVE  Start(list[ls[c]]) \in 0 .. Len(list[ls[c]]) /\ Len(list[ls[c]]) \in Nat
  <2>1. list[ls[c]] \in Seq(ToSet(list[ls[c]]))
    BY <1>5 DEF WalkInv, ListsKept
  <2> QED
    BY <2>1, StartIn
<1>8. Next(list[L], I) \in 0 .. Len(list[L])
      /\ (Next(list[L], I) = 0 \/ Next(list[L], I) = I + 1)
  <2>1. I \in Nat
    BY <1>2
  <2> QED
    BY <1>2, <2>1, NextIn
<1>11. /\ stack' \in Seq(Frames) /\ Len(stack') = N + Len(stack)
       /\ DOMAIN stack' = 1 .. N + Len(stack)
       /\ \A k \in 2 .. Len(stack) : stack'[N + k] = stack[k]
  BY <1>4 DEF EnteredAs
<1>12. \A c \in 1 .. N : stack'[c].l = ls[c] /\ stack'[c].i = Start(list[ls[c]])
  BY <1>4 DEF EnteredAs, ls
<1>13. stack'[N + 1].l = L /\ stack'[N + 1].i = Next(list[L], I)
  BY <1>4 DEF EnteredAs
\* A frame of the new stack is that of a nested list or one of before.
<1>14. \A k \in 1 .. Len(stack) : N + k \in DOMAIN stack' /\ stack'[N + k].l = stack[k].l
  <2>1. \A k \in 1 .. Len(stack) : N + k \in DOMAIN stack'
    BY <1>2, <1>5, <1>11
  <2>2. \A k \in 1 .. Len(stack) : k = 1 \/ k \in 2 .. Len(stack)
    BY <1>2
  <2> QED
    BY <1>2, <1>11, <1>13, <2>1, <2>2
<1>15. \A k \in DOMAIN stack' : k \in 1 .. N \/ (k - N \in 1 .. Len(stack) /\ k = N + (k - N))
  BY <1>2, <1>5, <1>11
\* No list nested in the statement is walked yet.
<1>16. \A c \in 1 .. N, k \in DOMAIN stack : ls[c] # stack[k].l
  <2>1. 1 \in DOMAIN stack /\ stack[1].i # 0 /\ I >= stack[1].i /\ I \in DOMAIN list[stack[1].l]
    BY <1>1, <1>2
  <2>2. \A k \in DOMAIN stack : stack[k].l \notin Nested(list[stack[1].l][I])
    BY <2>1 DEF WalkInv, NotAhead
  <2> QED
    BY <1>2, <1>6, <2>2
\* They are nested nowhere else.
<1>17. ASSUME NEW c \in 1 .. N, NEW l \in DOMAIN list, NEW m \in DOMAIN list[l],
              ls[c] \in Nested(list[l][m])
       PROVE  l = L /\ m = I
  <2>1. Nested(list[l][m]) \cap Nested(list[L][I]) # {}
    BY <1>6, <1>17
  <2> QED
    BY <1>2, <2>1 DEF WalkInv, NestedOnce
<1>18. WalkTypeOK'
  <2>1. ASSUME NEW k \in 1 .. Len(stack')
        PROVE  stack'[k].l \in DOMAIN list /\ stack'[k].i \in 0 .. Len(list[stack'[k].l])
    <3>1. CASE k \in 1 .. N
      BY <1>5, <1>7, <1>12, <3>1
    <3>2. CASE k = N + 1
      BY <1>2, <1>8, <1>13, <3>2
    <3>3. CASE k \notin 1 .. N /\ k # N + 1
      <4>1. k - N \in 2 .. Len(stack) /\ k = N + (k - N)
        BY <1>2, <1>5, <1>11, <3>3
      <4>2. stack'[k] = stack[k - N]
        BY <1>11, <4>1
      <4> QED
        BY <4>1, <4>2 DEF WalkInv, WalkTypeOK
    <3> QED
      BY <3>1, <3>2, <3>3
  <2> QED
    BY <1>1, <2>1 DEF WalkInv, WalkTypeOK
<1>19. WalkedOnce'
  <2> SUFFICES ASSUME NEW j \in DOMAIN stack', NEW k \in DOMAIN stack', stack'[j].l = stack'[k].l
               PROVE  j = k
    BY DEF WalkedOnce
  <2>1. CASE j \in 1 .. N /\ k \in 1 .. N
    BY <1>4, <1>5, <1>12, <2>1 DEF IsInjective
  <2>2. CASE j \in 1 .. N /\ k \notin 1 .. N
    BY <1>2, <1>12, <1>14, <1>15, <1>16, <2>2
  <2>3. CASE j \notin 1 .. N /\ k \in 1 .. N
    BY <1>2, <1>12, <1>14, <1>15, <1>16, <2>3
  <2>4. CASE j \notin 1 .. N /\ k \notin 1 .. N
    <3>1. j - N = k - N
      BY <1>2, <1>14, <1>15, <2>4 DEF WalkInv, WalkedOnce
    <3> QED
      BY <1>5, <1>11, <3>1
  <2> QED
    BY <2>1, <2>2, <2>3, <2>4
<1>20. NotAhead'
  <2> SUFFICES ASSUME NEW j \in DOMAIN stack', NEW k \in DOMAIN stack',
                      NEW m \in DOMAIN list[stack'[j].l], stack'[j].i # 0, m >= stack'[j].i,
                      stack'[k].l \in Nested(list[stack'[j].l][m])
               PROVE  FALSE
    BY <1>1 DEF NotAhead
  <2>1. CASE j \in 1 .. N /\ k \in 1 .. N
    <3>1. ls[j] = L
      BY <1>5, <1>12, <1>17, <2>1
    <3> QED
      BY <1>2, <1>16, <2>1, <3>1
  <2>2. CASE j \in 1 .. N /\ k \notin 1 .. N
    <3>1. stack[k - N].l \in Nested(list[ls[j]][m]) /\ k - N \in DOMAIN stack
      BY <1>2, <1>12, <1>14, <1>15, <2>2
    <3>2. \E h \in DOMAIN stack : stack[h].l = ls[j]
      BY <1>5, <1>12, <2>2, <3>1 DEF WalkInv, WalkedWithin
    <3> QED
      BY <1>16, <2>2, <3>2
  <2>3. CASE j \notin 1 .. N /\ k \in 1 .. N
    <3>1. j - N \in DOMAIN stack /\ stack'[j].l = stack[j - N].l /\ stack'[j].l \in DOMAIN list
      BY <1>2, <1>5, <1>14, <1>15, <2>3 DEF WalkInv, WalkTypeOK
    <3>2. stack'[j].l = L /\ m = I
      BY <1>12, <1>17, <2>3, <3>1
    <3>3. j - N = 1
      <4>1. 1 \in DOMAIN stack /\ stack[j - N].l = stack[1].l
        BY <1>2, <3>1, <3>2
      <4> QED
        BY <3>1, <4>1 DEF WalkInv, WalkedOnce
    <3>4. j = N + 1
      BY <1>5, <1>11, <3>3
    <3> QED
      BY <1>2, <1>8, <1>13, <3>2, <3>4
  <2>4. CASE j \notin 1 .. N /\ k \notin 1 .. N
    <3>1. /\ j - N \in DOMAIN stack /\ stack'[j].l = stack[j - N].l
          /\ k - N \in DOMAIN stack /\ stack'[k].l = stack[k - N].l
      BY <1>2, <1>14, <1>15, <2>4
    <3>2. stack[j - N].i # 0 /\ m >= stack[j - N].i
      <4>1. CASE j = N + 1
        <5>1. j - N = 1 /\ m >= I + 1
          BY <1>5, <1>8, <1>13, <4>1
        <5>2. m \in Nat
          BY <1>2, <1>13, <4>1
        <5> QED
          BY <1>1, <1>2, <5>1, <5>2, SMTT(30)
      <4>2. CASE j # N + 1
        <5>1. j - N \in 2 .. Len(stack) /\ j = N + (j - N)
          BY <1>2, <1>5, <1>11, <3>1, <4>2
        <5> QED
          BY <1>11, <5>1
      <4> QED
        BY <4>1, <4>2
    <3> QED
      BY <3>1, <3>2 DEF WalkInv, NotAhead
  <2> QED
    BY <2>1, <2>2, <2>3, <2>4
<1>21. WalkedWithin'
  <2> SUFFICES ASSUME NEW k \in DOMAIN stack', NEW l \in DOMAIN list, NEW m \in DOMAIN list[l],
                      stack'[k].l \in Nested(list[l][m])
               PROVE  \E j \in DOMAIN stack' : j > k /\ stack'[j].l = l
    BY <1>1 DEF WalkedWithin
  <2>1. CASE k \in 1 .. N
    <3>1. l = L
      BY <1>12, <1>17, <2>1
    <3>2. N + 1 \in DOMAIN stack' /\ N + 1 > k
      BY <1>2, <1>5, <1>11, <2>1
    <3> QED
      BY <1>13, <3>1, <3>2
  <2>2. CASE k \notin 1 .. N
    <3>1. k - N \in DOMAIN stack /\ stack[k - N].l \in Nested(list[l][m])
      BY <1>2, <1>14, <1>15, <2>2
    <3>2. PICK j \in DOMAIN stack : j > k - N /\ stack[j].l = l
      BY <3>1 DEF WalkInv, WalkedWithin
    <3>3. N + j \in DOMAIN stack' /\ stack'[N + j].l = l /\ N + j > k
      BY <1>2, <1>5, <1>11, <1>14, <3>2
    <3> QED
      BY <3>3
  <2> QED
    BY <2>1, <2>2
<1>22. ListsKept' /\ NestedOnce(list)'
  BY <1>1, ListsStay
<1>23. (stack \in Seq([l : DOMAIN list, i : Nat]))'
  BY <1>1, <1>11 DEF Frames
<1> QED
  BY <1>1, <1>18, <1>19, <1>20, <1>21, <1>22, <1>23 DEF WalkInv

--------------------------------------------------------------------------------
(* The steps of the innermost walk.                                               *)

\* No walk under way is nested in the list of the innermost one.
LEMMA InnermostFree ==
  ASSUME WalkInv, stack # <<>>, NEW k \in DOMAIN stack, NEW m \in DOMAIN list[L]
  PROVE  stack[k].l \notin Nested(list[L][m])
<1> SUFFICES ASSUME stack[k].l \in Nested(list[L][m]) PROVE FALSE
  OBVIOUS
<1>1. /\ DOMAIN stack = 1 .. Len(stack) /\ 1 \in DOMAIN stack /\ L = stack[1].l
      /\ L \in DOMAIN list
  BY Innermost
<1>2. PICK j \in DOMAIN stack : j > k /\ stack[j].l = L
  BY <1>1 DEF WalkInv, WalkedWithin
<1>3. j = 1
  BY <1>1, <1>2 DEF WalkInv, WalkedOnce
<1> QED
  BY <1>1, <1>2, <1>3

\* The frames of a walk that is moved.
LEMMA Moved ==
  ASSUME WalkInv, stack # <<>>, NEW i \in Nat, MoveTo(i)
  PROVE  /\ stack' \in Seq(Frames) /\ Len(stack') = Len(stack) /\ DOMAIN stack' = DOMAIN stack
         /\ DOMAIN stack = 1 .. Len(stack) /\ Len(stack) \in Nat
         /\ stack'[1].l = L /\ stack'[1].i = i
         /\ \A k \in DOMAIN stack : stack'[k].l = stack[k].l
         /\ \A k \in DOMAIN stack : k # 1 => stack'[k].i = stack[k].i /\ stack[k].l # L
<1> DEFINE e == [l |-> L, i |-> i]
<1>1. /\ stack \in Seq(Frames) /\ e \in Frames /\ stack' = <<e>> \o Tail(stack)
      /\ 1 \in DOMAIN stack /\ DOMAIN stack = 1 .. Len(stack) /\ Len(stack) \in Nat
      /\ L = stack[1].l
  BY Innermost DEF WalkInv, Frames, MoveTo
<1>2. e.l = L /\ e.i = i
  OBVIOUS
<1> HIDE DEF e
<1>3. /\ stack' \in Seq(Frames) /\ Len(stack') = Len(stack) /\ stack'[1] = e
      /\ \A k \in 2 .. Len(stack) : stack'[k] = stack[k]
  BY <1>1, Continued
<1>4. DOMAIN stack' = DOMAIN stack
  BY <1>1, <1>3
<1>5. ASSUME NEW k \in DOMAIN stack, k # 1
      PROVE  stack'[k] = stack[k] /\ stack[k].l # L
  <2>1. k \in 2 .. Len(stack)
    BY <1>1, <1>5
  <2>2. stack[k].l # L
    BY <1>1, <1>5 DEF WalkInv, WalkedOnce
  <2> QED
    BY <1>3, <2>1, <2>2
<1> QED
  BY <1>1, <1>2, <1>3, <1>4, <1>5

\* The innermost walk may go on anywhere in its list.
LEMMA MoveKeeps ==
  ASSUME WalkInv, stack # <<>>, NEW i \in 0 .. Len(list[L]), MoveTo(i),
         UNCHANGED <<program, list, func>>, status' \in Statuses
  PROVE  WalkInv'
<1>1. /\ stack' \in Seq(Frames) /\ Len(stack') = Len(stack) /\ DOMAIN stack' = DOMAIN stack
      /\ DOMAIN stack = 1 .. Len(stack) /\ Len(stack) \in Nat
      /\ stack'[1].l = L /\ stack'[1].i = i
      /\ \A k \in DOMAIN stack : stack'[k].l = stack[k].l
      /\ \A k \in DOMAIN stack : k # 1 => stack'[k].i = stack[k].i /\ stack[k].l # L
  BY Innermost, Moved
<1>2. WalkTypeOK'
  <2>1. ASSUME NEW k \in 1 .. Len(stack')
        PROVE  stack'[k].l \in DOMAIN list /\ stack'[k].i \in 0 .. Len(list[stack'[k].l])
    BY <1>1, Innermost DEF WalkInv, WalkTypeOK
  <2> QED
    BY <2>1 DEF WalkInv, WalkTypeOK, Statuses
<1>3. ListsKept' /\ NestedOnce(list)'
  BY ListsStay
<1>4. WalkedOnce'
  BY <1>1 DEF WalkInv, WalkedOnce
<1>5. WalkedWithin'
  <2> SUFFICES ASSUME NEW k \in DOMAIN stack, NEW l \in DOMAIN list, NEW m \in DOMAIN list[l],
                      stack[k].l \in Nested(list[l][m])
               PROVE  \E j \in DOMAIN stack : j > k /\ stack[j].l = l
    BY <1>1 DEF WalkedWithin
  <2> QED
    BY DEF WalkInv, WalkedWithin
<1>6. NotAhead'
  <2> SUFFICES ASSUME NEW j \in DOMAIN stack, NEW k \in DOMAIN stack,
                      NEW m \in DOMAIN list[stack'[j].l], stack'[j].i # 0, m >= stack'[j].i,
                      stack'[k].l \in Nested(list[stack'[j].l][m])
               PROVE  FALSE
    BY <1>1 DEF NotAhead
  <2>1. CASE j = 1
    BY <1>1, <2>1, InnermostFree
  <2>2. CASE j # 1
    BY <1>1, <2>2 DEF WalkInv, NotAhead
  <2> QED
    BY <2>1, <2>2
<1> QED
  BY <1>1, <1>2, <1>3, <1>4, <1>5, <1>6 DEF WalkInv, Frames

\* Where a statement of the edited list has stood; n statements take the place of one.
Before(n, k) == IF k < I THEN k ELSE k - n + 1

\* The innermost list with n statements for the one the walk is at, none of which
\* nests another.
Edited(s, n) ==
  /\ s \in Seq(ToSet(s)) /\ Len(s) = Len(list[L]) - 1 + n
  /\ \A k \in 1 .. Len(s) : k < I \/ k >= I + n => s[k] = list[L][Before(n, k)]
  /\ \A k \in I .. I + n - 1 :
       /\ s[k].kind # "nest"
       /\ s[k].kind \in {"builtin", "assigned"} \/ s[k] \in StatementsOf(program)

LEMMA EditKeeps ==
  ASSUME WalkInv, stack # <<>>, I # 0, NEW n \in Nat, NEW s, Edited(s, n),
         NEW i \in 0 .. Len(s), MoveTo(i), list' = [list EXCEPT ![L] = s],
         UNCHANGED <<program, func>>, status' \in Statuses
  PROVE  WalkInv'
<1>1. /\ stack' \in Seq(Frames) /\ Len(stack') = Len(stack) /\ DOMAIN stack' = DOMAIN stack
      /\ DOMAIN stack = 1 .. Len(stack) /\ Len(stack) \in Nat
      /\ stack'[1].l = L /\ stack'[1].i = i
      /\ \A k \in DOMAIN stack : stack'[k].l = stack[k].l
      /\ \A k \in DOMAIN stack : k # 1 => stack'[k].i = stack[k].i /\ stack[k].l # L
  <2>1. Len(s) \in Nat /\ i \in Nat
    BY DEF Edited
  <2> QED
    BY <2>1, Moved
<1>2. /\ L \in DOMAIN list /\ I \in 1 .. Len(list[L]) /\ Len(list[L]) \in Nat
      /\ DOMAIN list[L] = 1 .. Len(list[L]) /\ list[L] \in Seq(ToSet(list[L]))
  BY Innermost
<1>3. /\ DOMAIN list' = DOMAIN list /\ list'[L] = s
      /\ \A l \in DOMAIN list : l # L => list'[l] = list[l]
  BY <1>2
<1>4. Len(s) \in Nat /\ DOMAIN s = 1 .. Len(s)
  BY DEF Edited
\* What has others nested in it has stood in the list before.
<1>5. ASSUME NEW k \in DOMAIN s, Nested(s[k]) # {}
      PROVE  /\ Before(n, k) \in DOMAIN list[L] /\ s[k] = list[L][Before(n, k)]
             /\ k < I \/ k >= I + n
  <2>1. s[k].kind = "nest"
    BY <1>5 DEF Nested
  <2>2. k < I \/ k >= I + n
    BY <1>2, <1>4, <2>1 DEF Edited
  <2>3. Before(n, k) \in DOMAIN list[L]
    BY <1>2, <1>4, <2>2 DEF Before, Edited
  <2> QED
    BY <1>4, <2>2, <2>3 DEF Edited
<1>6. WalkTypeOK'
  <2>1. ASSUME NEW k \in 1 .. Len(stack')
        PROVE  stack'[k].l \in DOMAIN list /\ stack'[k].i \in 0 .. Len(list'[stack'[k].l])
    <3>1. CASE k = 1
      BY <1>1, <1>2, <1>3, <3>1
    <3>2. CASE k # 1
      <4>1. /\ stack'[k].l = stack[k].l /\ stack'[k].i = stack[k].i
            /\ stack[k].l # L /\ k \in 1 .. Len(stack)
        BY <1>1, <3>2
      <4>2. stack[k].l \in DOMAIN list /\ stack[k].i \in 0 .. Len(list[stack[k].l])
        BY <4>1 DEF WalkInv, WalkTypeOK
      <4> QED
        BY <1>3, <4>1, <4>2
    <3> QED
      BY <3>1, <3>2
  <2> QED
    BY <1>3, <2>1 DEF WalkInv, WalkTypeOK, Statuses
<1>7. ListsKept'
  <2> SUFFICES ASSUME NEW l \in DOMAIN list
               PROVE  /\ list'[l] \in Seq(ToSet(list'[l]))
                      /\ \A st \in ToSet(list'[l]) :
                           st.kind \in {"builtin", "assigned"} \/ st \in StatementsOf(program)
    BY <1>3 DEF ListsKept
  <2>1. CASE l # L
    BY <1>3, <2>1 DEF WalkInv, ListsKept
  <2>2. CASE l = L
    <3>1. list'[l] = s /\ s \in Seq(ToSet(s))
      BY <1>3, <2>2 DEF Edited
    <3>2. ASSUME NEW k \in DOMAIN s
          PROVE  s[k].kind \in {"builtin", "assigned"} \/ s[k] \in StatementsOf(program)
      <4>1. CASE k < I \/ k >= I + n
        <5>1. s[k] = list[L][Before(n, k)] /\ Before(n, k) \in DOMAIN list[L]
          BY <1>2, <1>4, <4>1 DEF Before, Edited
        <5>2. s[k] \in ToSet(list[L])
          BY <5>1 DEF ToSet
        <5> QED
          BY <1>2, <5>2 DEF WalkInv, ListsKept
      <4>2. CASE ~(k < I \/ k >= I + n)
        <5>1. k \in I .. I + n - 1
          BY <1>2, <1>4, <4>2
        <5> QED
          BY <5>1 DEF Edited
      <4> QED
        BY <4>1, <4>2
    <3> QED
      BY <3>1, <3>2 DEF ToSet
  <2> QED
    BY <2>1, <2>2
<1>8. NestedOnce(list')
  <2> SUFFICES ASSUME NEW l \in DOMAIN list, NEW m \in DOMAIN list,
                      NEW j \in DOMAIN list'[l], NEW k \in DOMAIN list'[m],
                      Nested(list'[l][j]) \cap Nested(list'[m][k]) # {}
               PROVE  l = m /\ j = k
    BY <1>3 DEF NestedOnce
  <2> DEFINE was(a, b) == IF a = L THEN Before(n, b) ELSE b
  <2>1. was(l, j) \in DOMAIN list[l] /\ list'[l][j] = list[l][was(l, j)]
    BY <1>3, <1>5
  <2>2. was(m, k) \in DOMAIN list[m] /\ list'[m][k] = list[m][was(m, k)]
    BY <1>3, <1>5
  <2>3. l = m /\ was(l, j) = was(m, k)
    BY <2>1, <2>2 DEF WalkInv, NestedOnce
  <2>4. CASE l # L
    BY <2>3, <2>4
  <2>5. CASE l = L
    <3>1. /\ j \in DOMAIN s /\ k \in DOMAIN s /\ Before(n, j) = Before(n, k)
          /\ Nested(s[j]) # {} /\ Nested(s[k]) # {}
      BY <1>3, <2>3, <2>5
    <3>2. (j < I \/ j >= I + n) /\ (k < I \/ k >= I + n)
      BY <1>5, <3>1
    <3>3. j = k
      BY <1>2, <1>4, <3>1, <3>2 DEF Before
    <3> QED
      BY <2>3, <3>3
  <2> QED
    BY <2>4, <2>5
<1>9. WalkedOnce'
  BY <1>1 DEF WalkInv, WalkedOnce
<1>10. NotAhead'
  <2> SUFFICES ASSUME NEW j \in DOMAIN stack, NEW k \in DOMAIN stack,
                      NEW m \in DOMAIN list'[stack'[j].l], stack'[j].i # 0, m >= stack'[j].i,
                      stack'[k].l \in Nested(list'[stack'[j].l][m])
               PROVE  FALSE
    BY <1>1 DEF NotAhead
  <2>1. CASE j = 1
    <3>1. m \in DOMAIN s /\ stack[k].l \in Nested(s[m])
      BY <1>1, <1>3, <2>1
    <3>2. Before(n, m) \in DOMAIN list[L] /\ s[m] = list[L][Before(n, m)]
      BY <1>5, <3>1
    <3> QED
      BY <3>1, <3>2, InnermostFree
  <2>2. CASE j # 1
    <3>1. /\ stack'[j].l = stack[j].l /\ stack'[j].i = stack[j].i /\ stack[j].l # L
          /\ stack[j].l \in DOMAIN list
      BY <1>1, <2>2 DEF WalkInv, WalkTypeOK
    <3>2. list'[stack'[j].l] = list[stack[j].l]
      BY <1>3, <3>1
    <3> QED
      BY <1>1, <3>1, <3>2 DEF WalkInv, NotAhead
  <2> QED
    BY <2>1, <2>2
<1>11. WalkedWithin'
  <2> SUFFICES ASSUME NEW k \in DOMAIN stack, NEW l \in DOMAIN list, NEW m \in DOMAIN list'[l],
                      stack[k].l \in Nested(list'[l][m])
               PROVE  \E j \in DOMAIN stack : j > k /\ stack[j].l = l
    BY <1>1, <1>3 DEF WalkedWithin
  <2>1. \E h \in DOMAIN list[l] : list'[l][m] = list[l][h]
    BY <1>3, <1>5
  <2> QED
    BY <2>1 DEF WalkInv, WalkedWithin
<1>12. (stack \in Seq([l : DOMAIN list, i : Nat]))'
  BY <1>1, <1>3 DEF Frames
<1> QED
  BY <1>1, <1>3, <1>6, <1>7, <1>8, <1>9, <1>10, <1>11, <1>12 DEF WalkInv

LEMMA PassKeeps == ASSUME WalkInv, NEW kind, Pass(kind) PROVE WalkInv'
<1>1. stack # <<>> /\ I # 0 /\ status = "walk" /\ UNCHANGED <<program, list, func, status>>
      /\ MoveTo(Next(list[L], I))
  BY DEF Pass, At, Continue
<1>2. Next(list[L], I) \in 0 .. Len(list[L])
  BY <1>1, Innermost, NextIn
<1> QED
  BY <1>1, <1>2, MoveKeeps DEF Statuses

--------------------------------------------------------------------------------
(* Linking in and taking out.                                                     *)

LEMMA OwnElements == ASSUME NEW T, NEW s \in Seq(T) PROVE s \in Seq(ToSet(s))
BY DEF ToSet

LEMMA Part ==
  ASSUME NEW T, NEW s \in Seq(T), NEW a \in Nat \ {0}, NEW b \in Nat, a <= b + 1, b <= Len(s)
  PROVE  /\ SubSeq(s, a, b) \in Seq(T) /\ Len(SubSeq(s, a, b)) = b - a + 1
         /\ \A k \in 1 .. b - a + 1 : SubSeq(s, a, b)[k] = s[a + k - 1]
OBVIOUS

\* The sequence t is s with new linked in before place i.
LinkedAs(T, t, s, i, new) ==
  /\ t \in Seq(T) /\ Len(t) = Len(s) + Len(new) /\ Len(s) \in Nat /\ Len(new) \in Nat
  /\ \A k \in 1 .. i - 1 : t[k] = s[k]
  /\ \A k \in i .. i + Len(new) - 1 : t[k] = new[k - i + 1]
  /\ \A k \in i + Len(new) .. Len(t) : t[k] = s[k - Len(new)]

LEMMA Linked ==
  ASSUME NEW T, NEW s \in Seq(T), NEW new \in Seq(T), NEW i \in 1 .. Len(s) + 1
  PROVE  LinkedAs(T, LinkedBefore(s, i, new), s, i, new)
<1> DEFINE t == LinkedBefore(s, i, new)
<1> DEFINE a == SubSeq(s, 1, i - 1)
           b == SubSeq(s, i, Len(s))
<1>1. a \in Seq(T) /\ Len(a) = i - 1 /\ \A k \in 1 .. i - 1 : a[k] = s[k]
  BY Part
<1>2. b \in Seq(T) /\ Len(b) = Len(s) - i + 1 /\ \A k \in 1 .. Len(s) - i + 1 : b[k] = s[i + k - 1]
  BY Part
<1>3. t = (a \o new) \o b
  BY DEF LinkedBefore
<1> HIDE DEF a, b, t
<1> DEFINE r == a \o new
<1>4. /\ r \in Seq(T) /\ Len(r) = i - 1 + Len(new)
      /\ \A k \in 1 .. i - 1 : r[k] = a[k]
      /\ \A k \in 1 .. Len(new) : r[i - 1 + k] = new[k]
  <2>1. a \in Seq(T) /\ new \in Seq(T)
    BY <1>1
  <2>2. /\ a \o new \in Seq(T) /\ Len(a \o new) = Len(a) + Len(new)
        /\ \A k \in 1 .. Len(a) : (a \o new)[k] = a[k]
        /\ \A k \in 1 .. Len(new) : (a \o new)[Len(a) + k] = new[k]
    BY <2>1, Concatenated
  <2> QED
    BY <1>1, <2>2
<1>5. t = r \o b
  BY <1>3
<1> HIDE DEF r
<1>6. Len(s) \in Nat /\ Len(new) \in Nat
  OBVIOUS
<1>7. /\ r \o b \in Seq(T) /\ Len(r \o b) = Len(r) + Len(b)
      /\ \A k \in 1 .. Len(r) : (r \o b)[k] = r[k]
      /\ \A k \in 1 .. Len(b) : (r \o b)[Len(r) + k] = b[k]
  <2>1. r \in Seq(T) /\ b \in Seq(T)
    BY <1>2, <1>4
  <2> QED
    BY <2>1, Concatenated
<1>8. /\ t \in Seq(T) /\ Len(t) = Len(s) + Len(new)
      /\ \A k \in 1 .. i - 1 + Len(new) : t[k] = r[k]
      /\ \A k \in 1 .. Len(s) - i + 1 : t[i - 1 + Len(new) + k] = b[k]
  <2>1. Len(r) = i - 1 + Len(new) /\ Len(b) = Len(s) - i + 1
    BY <1>2, <1>4
  <2>2. /\ t \in Seq(T) /\ Len(t) = Len(r) + Len(b)
        /\ \A k \in 1 .. Len(r) : t[k] = r[k]
        /\ \A k \in 1 .. Len(b) : t[Len(r) + k] = b[k]
    BY <1>5, <1>7, Zenon
  <2>3. Len(r) + Len(b) = Len(s) + Len(new)
    BY <1>6, <2>1
  <2> QED
    BY <2>1, <2>2, <2>3
<1>9. \A k \in 1 .. i - 1 : t[k] = s[k]
  BY <1>1, <1>4, <1>6, <1>8
<1>10. ASSUME NEW k \in i .. i + Len(new) - 1 PROVE t[k] = new[k - i + 1]
  <2>1. k - i + 1 \in 1 .. Len(new) /\ i - 1 + (k - i + 1) = k /\ k \in 1 .. i - 1 + Len(new)
    BY <1>6
  <2> QED
    BY <1>4, <1>8, <2>1
<1>11. ASSUME NEW k \in i + Len(new) .. Len(t) PROVE t[k] = s[k - Len(new)]
  <2> DEFINE h == k - Len(new) - i + 1
  <2>1. h \in 1 .. Len(s) - i + 1 /\ i - 1 + Len(new) + h = k /\ i + h - 1 = k - Len(new)
    BY <1>6, <1>8
  <2> HIDE DEF h
  <2>2. t[i - 1 + Len(new) + h] = b[h]
    BY <1>8, <2>1
  <2>3. b[h] = s[i + h - 1]
    BY <1>2, <2>1
  <2> QED
    BY <2>1, <2>2, <2>3
<1>12. /\ \A k \in i .. i + Len(new) - 1 : t[k] = new[k - i + 1]
       /\ \A k \in i + Len(new) .. Len(t) : t[k] = s[k - Len(new)]
  BY <1>10, <1>11
<1>13. LinkedAs(T, t, s, i, new)
  BY <1>6, <1>8, <1>9, <1>12, Zenon DEF LinkedAs
<1> QED
  BY <1>13 DEF t

LEMMA LinkedOne ==
  ASSUME NEW S, NEW q \in Seq(S), NEW e \in S, NEW j \in 1 .. Len(q) + 1,
         NEW r, r = LinkedBefore(q, j, <<e>>)
  PROVE  /\ r \in Seq(S) /\ Len(r) = Len(q) + 1 /\ Len(q) \in Nat
         /\ \A k \in 1 .. j - 1 : r[k] = q[k]
         /\ r[j] = e
         /\ \A k \in j + 1 .. Len(r) : r[k] = q[k - 1]
<1>1. <<e>> \in Seq(S) /\ Len(<<e>>) = 1 /\ <<e>>[1] = e /\ j \in Nat
  OBVIOUS
<1>2. LinkedAs(S, r, q, j, <<e>>)
  BY <1>1, Linked
<1>3. /\ r \in Seq(S) /\ Len(r) = Len(q) + 1 /\ Len(q) \in Nat
      /\ \A k \in 1 .. j - 1 : r[k] = q[k]
      /\ \A k \in j + 1 .. Len(r) : r[k] = q[k - 1]
  BY <1>1, <1>2 DEF LinkedAs
<1>4. r[j] = e
  <2>1. j \in j .. j + Len(<<e>>) - 1 /\ j - j + 1 = 1
    BY <1>1
  <2>2. r[j] = <<e>>[j - j + 1]
    BY <1>2, <2>1 DEF LinkedAs
  <2> QED
    BY <1>1, <2>1, <2>2
<1> QED
  BY <1>3, <1>4

LEMMA TakenOut ==
  ASSUME NEW T, NEW s \in Seq(T), NEW i \in 1 .. Len(s), NEW t, t = RemoveAt(s, i)
  PROVE  /\ t \in Seq(T) /\ Len(t) = Len(s) - 1 /\ Len(s) \in Nat
         /\ \A k \in 1 .. i - 1 : t[k] = s[k]
         /\ \A k \in i .. Len(t) : t[k] = s[k + 1]
<1> DEFINE a == SubSeq(s, 1, i - 1)
           b == SubSeq(s, i + 1, Len(s))
<1>1. a \in Seq(T) /\ Len(a) = i - 1 /\ \A k \in 1 .. i - 1 : a[k] = s[k]
  BY Part
<1>2. b \in Seq(T) /\ Len(b) = Len(s) - i /\ \A k \in 1 .. Len(s) - i : b[k] = s[i + k]
  BY Part
<1>3. t = a \o b
  BY DEF RemoveAt
<1> HIDE DEF a, b
<1>4. Len(s) \in Nat
  OBVIOUS
<1>5. /\ a \o b \in Seq(T) /\ Len(a \o b) = Len(a) + Len(b)
      /\ \A k \in 1 .. Len(a) : (a \o b)[k] = a[k]
      /\ \A k \in 1 .. Len(b) : (a \o b)[Len(a) + k] = b[k]
  <2>1. a \in Seq(T) /\ b \in Seq(T)
    BY <1>1, <1>2
  <2> QED
    BY <2>1, Concatenated
<1>6. /\ t \in Seq(T) /\ Len(t) = Len(s) - 1
      /\ \A k \in 1 .. i - 1 : t[k] = a[k]
      /\ \A k \in 1 .. Len(s) - i : t[i - 1 + k] = b[k]
  BY <1>1, <1>2, <1>3, <1>4, <1>5
<1>7. ASSUME NEW k \in i .. Len(t) PROVE t[k] = s[k + 1]
  <2> DEFINE h == k - i + 1
  <2>1. h \in 1 .. Len(s) - i /\ i - 1 + h = k /\ i + h = k + 1
    BY <1>4, <1>6
  <2> HIDE DEF h
  <2>2. t[i - 1 + h] = b[h] /\ b[h] = s[i + h]
    BY <1>2, <1>6, <2>1
  <2> QED
    BY <2>1, <2>2
<1> QED
  BY <1>1, <1>4, <1>6, <1>7

\* The statement the walk is at is taken out.
LEMMA RemovedEdit ==
  ASSUME WalkInv, stack # <<>>, I # 0 PROVE Edited(RemoveAt(list[L], I), 0)
<1> DEFINE s == RemoveAt(list[L], I)
<1>1. I \in 1 .. Len(list[L]) /\ list[L] \in Seq(ToSet(list[L])) /\ Len(list[L]) \in Nat
  BY Innermost
<1>2. /\ s \in Seq(ToSet(list[L])) /\ Len(s) = Len(list[L]) - 1
      /\ \A k \in 1 .. I - 1 : s[k] = list[L][k]
      /\ \A k \in I .. Len(s) : s[k] = list[L][k + 1]
  BY <1>1, TakenOut
<1>3. s \in Seq(ToSet(s))
  BY <1>2, OwnElements
<1> HIDE DEF s
<1>4. Edited(s, 0)
  BY <1>1, <1>2, <1>3 DEF Edited, Before
<1> QED
  BY <1>4 DEF s

\* The builtins new, and of a GIMPLE_MODIFY_STMT what it has become, stand for the
\* statement the walk is at; n statements in all.
PutFor(s, new, n) ==
  /\ n \in {Len(new), Len(new) + 1} /\ Edited(s, n)
  /\ \A k \in I .. I + n - 1 :
       s[k] = IF k < I + Len(new) THEN new[k - I + 1] ELSE Assigned

Builtins(new) == new \in Seq(ToSet(new)) /\ \A st \in ToSet(new) : st.kind = "builtin"

LEMMA ReplacedExpr ==
  ASSUME WalkInv, stack # <<>>, I # 0, NEW new, Builtins(new), ReplaceExpr(new)
  PROVE  \E s, i : /\ PutFor(s, new, Len(new)) /\ i \in 0 .. Len(s) /\ i \in {0, I + Len(new)}
                   /\ MoveTo(i) /\ list' = [list EXCEPT ![L] = s]
<1> DEFINE Elems == ToSet(list[L]) \cup ToSet(new)
           n == Len(new)
           linked == LinkedBefore(list[L], I, new)
           s == RemoveAt(linked, I + n)
<1>1. I \in 1 .. Len(list[L]) /\ list[L] \in Seq(ToSet(list[L])) /\ Len(list[L]) \in Nat
  BY Innermost
<1>2. list[L] \in Seq(Elems) /\ new \in Seq(Elems) /\ n \in Nat
  BY <1>1 DEF Builtins
<1> HIDE DEF Elems
<1>3. /\ linked \in Seq(Elems) /\ Len(linked) = Len(list[L]) + n
      /\ \A k \in 1 .. I - 1 : linked[k] = list[L][k]
      /\ \A k \in I .. I + n - 1 : linked[k] = new[k - I + 1]
      /\ \A k \in I + n .. Len(linked) : linked[k] = list[L][k - n]
  <2>1. I \in 1 .. Len(list[L]) + 1
    BY <1>1
  <2>2. LinkedAs(Elems, linked, list[L], I, new)
    BY <1>2, <2>1, Linked
  <2> HIDE DEF linked
  <2> QED
    BY <2>2 DEF LinkedAs, n
<1>4. linked \in Seq(Elems) /\ I + n \in 1 .. Len(linked)
  BY <1>1, <1>2, <1>3
<1>5. /\ s \in Seq(Elems) /\ Len(s) = Len(linked) - 1
      /\ \A k \in 1 .. I + n - 1 : s[k] = linked[k]
      /\ \A k \in I + n .. Len(s) : s[k] = linked[k + 1]
  <2>1. s = RemoveAt(linked, I + n) /\ I + n \in Nat /\ Len(linked) \in Nat
    BY <1>1, <1>2, <1>3
  <2> HIDE DEF linked, s, n
  <2>2. /\ s \in Seq(Elems) /\ Len(s) = Len(linked) - 1
        /\ \A k \in 1 .. (I + n) - 1 : s[k] = linked[k]
        /\ \A k \in I + n .. Len(s) : s[k] = linked[k + 1]
    BY <1>4, <2>1, TakenOut
  <2> QED
    BY <1>1, <1>2, <2>2
<1> DEFINE j == Delinked(linked, I + n)
           x == IF j = 0 THEN 0 ELSE Prev(j)
           i == IF x = 0 THEN 0 ELSE Next(s, x)
<1>6. list' = [list EXCEPT ![L] = s] /\ MoveTo(i)
  BY DEF ReplaceExpr, Continue
<1>7. x \in Nat /\ x \in {0, I + n - 1}
  BY <1>1, <1>2 DEF Delinked, Prev
<1> HIDE DEF linked, s, x
<1>8. s \in Seq(ToSet(s)) /\ Len(s) = Len(list[L]) - 1 + n
  BY <1>1, <1>2, <1>3, <1>5, OwnElements
<1>9. i \in 0 .. Len(s) /\ i \in {0, I + Len(new)}
  <2>1. s \in Seq(ToSet(s))
    BY <1>8
  <2>2. Len(s) \in Nat /\ Next(s, x) \in 0 .. Len(s) /\ Next(s, x) \in {0, x + 1}
    BY <1>7, <2>1, NextIn
  <2>3. x # 0 => x + 1 = I + n
    BY <1>1, <1>2, <1>7
  <2> QED
    BY <2>2, <2>3
<1>10. ASSUME NEW k \in I .. I + n - 1
       PROVE  s[k] = new[k - I + 1] /\ s[k].kind = "builtin"
  <2>1. k \in 1 .. I + n - 1 /\ k - I + 1 \in DOMAIN new
    BY <1>1, <1>2
  <2>2. s[k] = new[k - I + 1]
    BY <1>3, <1>5, <2>1
  <2>3. new[k - I + 1] \in ToSet(new)
    BY <2>1 DEF ToSet
  <2> QED
    BY <2>2, <2>3 DEF Builtins
<1>11. ASSUME NEW k \in 1 .. Len(s), k < I \/ k >= I + n
       PROVE  s[k] = list[L][Before(n, k)]
  <2>1. CASE k < I
    BY <1>1, <1>2, <1>3, <1>5, <2>1 DEF Before
  <2>2. CASE k >= I + n
    <3>1. k \in I + n .. Len(s) /\ k + 1 \in I + n .. Len(linked) /\ ~(k < I)
      BY <1>1, <1>2, <1>3, <1>8, <2>2
    <3>2. s[k] = list[L][k + 1 - n] /\ k + 1 - n = k - n + 1
      BY <1>2, <1>3, <1>5, <3>1
    <3> QED
      BY <3>1, <3>2 DEF Before
  <2> QED
    BY <1>11, <2>1, <2>2
<1>12. Edited(s, n)
  BY <1>8, <1>10, <1>11 DEF Edited
<1>13. PutFor(s, new, n)
  BY <1>1, <1>2, <1>10, <1>12 DEF PutFor
<1> QED
  BY <1>6, <1>9, <1>13

LEMMA ReplacedModify ==
  ASSUME WalkInv, stack # <<>>, I # 0, NEW new, Builtins(new), ReplaceModify(new)
  PROVE  \E s, i : /\ PutFor(s, new, Len(new) + 1) /\ i \in 0 .. Len(s)
                   /\ i \in {0, I + (Len(new) + 1)} /\ MoveTo(i) /\ list' = [list EXCEPT ![L] = s]
<1> DEFINE Elems == ToSet(list[L]) \cup ToSet(new) \cup {Assigned}
           n == Len(new)
           before == LinkedBefore(list[L], I, new)
           s == [before EXCEPT ![I + n] = Assigned]
<1>1. I \in 1 .. Len(list[L]) /\ list[L] \in Seq(ToSet(list[L])) /\ Len(list[L]) \in Nat
  BY Innermost
<1>2. list[L] \in Seq(Elems) /\ new \in Seq(Elems) /\ n \in Nat /\ Assigned \in Elems
  BY <1>1 DEF Builtins
<1> HIDE DEF Elems
<1>3. /\ before \in Seq(Elems) /\ Len(before) = Len(list[L]) + n
      /\ \A k \in 1 .. I - 1 : before[k] = list[L][k]
      /\ \A k \in I .. I + n - 1 : before[k] = new[k - I + 1]
      /\ \A k \in I + n .. Len(before) : before[k] = list[L][k - n]
  <2>1. I \in 1 .. Len(list[L]) + 1
    BY <1>1
  <2>2. LinkedAs(Elems, before, list[L], I, new)
    BY <1>2, <2>1, Linked
  <2> HIDE DEF before
  <2> QED
    BY <2>2 DEF LinkedAs, n
<1>4. list' = [list EXCEPT ![L] = s] /\ MoveTo(IF I + n = 0 THEN 0 ELSE Next(s, I + n))
  BY DEF ReplaceModify, Continue
<1> HIDE DEF before
<1>5. /\ s \in Seq(Elems) /\ Len(s) = Len(before) /\ s[I + n] = Assigned
      /\ \A k \in 1 .. Len(before) : k # I + n => s[k] = before[k]
  BY <1>1, <1>2, <1>3
<1> HIDE DEF s
<1>6. s \in Seq(ToSet(s)) /\ Len(s) = Len(list[L]) - 1 + (n + 1)
  <2> HIDE DEF n
  <2>1. s \in Seq(ToSet(s))
    BY <1>5, OwnElements
  <2>2. Len(s) = Len(list[L]) + n
    BY <1>3, <1>5
  <2>3. Len(list[L]) + n = Len(list[L]) - 1 + (n + 1)
    <3>1. \A x, y \in Nat : x + y = x - 1 + (y + 1)
      OBVIOUS
    <3>2. Len(list[L]) \in Nat /\ n \in Nat
      BY <1>1, <1>2
    <3> QED
      BY <3>1, <3>2, Zenon
  <2> QED
    BY <2>1, <2>2, <2>3
<1>7. /\ I + n \in Nat \ {0} /\ Next(s, I + n) \in 0 .. Len(s)
      /\ Next(s, I + n) \in {0, I + (Len(new) + 1)}
  <2>1. I + n \in Nat \ {0} /\ (I + n) + 1 = I + (n + 1)
    BY <1>1, <1>2
  <2>2. Next(s, I + n) \in 0 .. Len(s) /\ Next(s, I + n) \in {0, (I + n) + 1}
    BY <1>6, <2>1, NextIn
  <2> QED
    BY <2>1, <2>2
<1>8. ASSUME NEW k \in I .. I + n
      PROVE  /\ s[k] = IF k < I + n THEN new[k - I + 1] ELSE Assigned
             /\ s[k].kind \in {"builtin", "assigned"}
  <2>1. CASE k < I + n
    <3>1. k \in I .. I + n - 1 /\ k \in 1 .. Len(before) /\ k # I + n /\ k - I + 1 \in DOMAIN new
      BY <1>1, <1>2, <1>3, <2>1
    <3>2. s[k] = new[k - I + 1]
      BY <1>3, <1>5, <3>1
    <3>3. new[k - I + 1] \in ToSet(new)
      BY <3>1 DEF ToSet
    <3> QED
      BY <2>1, <3>2, <3>3 DEF Builtins
  <2>2. CASE ~(k < I + n)
    <3>1. k = I + n
      BY <1>1, <1>2, <2>2
    <3> QED
      BY <1>5, <2>2, <3>1 DEF Assigned
  <2> QED
    BY <2>1, <2>2
<1>9. ASSUME NEW k \in 1 .. Len(s), k < I \/ k >= I + (n + 1)
      PROVE  s[k] = list[L][Before(n + 1, k)]
  <2>1. CASE k < I
    BY <1>1, <1>2, <1>3, <1>5, <2>1 DEF Before
  <2>2. CASE k >= I + (n + 1)
    <3>1. k \in I + n .. Len(before) /\ k # I + n /\ ~(k < I) /\ k \in 1 .. Len(before)
      BY <1>1, <1>2, <1>3, <1>5, <2>2
    <3>2. s[k] = before[k]
      BY <1>5, <3>1
    <3>3. before[k] = list[L][k - n]
      BY <1>3, <3>1
    <3>4. k - n = k - (n + 1) + 1
      BY <1>2, <3>1
    <3> QED
      BY <3>1, <3>2, <3>3, <3>4 DEF Before
  <2> QED
    BY <1>9, <2>1, <2>2
<1>10. I + (n + 1) - 1 = I + n
  BY <1>1, <1>2
<1>11. Edited(s, n + 1)
  <2>1. \A k \in I .. I + n : s[k].kind # "nest" /\ s[k].kind \in {"builtin", "assigned"}
    BY <1>8
  <2> QED
    BY <1>6, <1>9, <1>10, <2>1 DEF Edited
<1>12. PutFor(s, new, n + 1)
  BY <1>8, <1>10, <1>11 DEF PutFor
<1> DEFINE i == Next(s, I + n)
<1>13. MoveTo(i)
  BY <1>4, <1>7
<1>14. i \in 0 .. Len(s) /\ i \in {0, I + (Len(new) + 1)}
  BY <1>7
<1>15. PutFor(s, new, Len(new) + 1) /\ list' = [list EXCEPT ![L] = s]
  BY <1>4, <1>12
<1> HIDE DEF i, n
<1> QED
  BY <1>13, <1>14, <1>15, Zenon

\* A pass that puts builtins in the place of a call keeps the walk sound.
LEMMA ReplacedBy ==
  ASSUME WalkInv, stack # <<>>, I # 0, NEW new, Builtins(new), Replace(new)
  PROVE  \E s, i, n : /\ PutFor(s, new, n) /\ i \in 0 .. Len(s) /\ i \in {0, I + n}
                      /\ MoveTo(i) /\ list' = [list EXCEPT ![L] = s]
<1>1. CASE Stmt.form = "modify"
  BY <1>1, ReplacedModify DEF Replace
<1>2. CASE Stmt.form # "modify"
  BY <1>2, ReplacedExpr DEF Replace
<1> QED
  BY <1>1, <1>2

LEMMA PutKeeps ==
  ASSUME WalkInv, stack # <<>>, I # 0, NEW new, Builtins(new), NEW s, NEW i, NEW n,
         PutFor(s, new, n), i \in 0 .. Len(s), MoveTo(i), list' = [list EXCEPT ![L] = s],
         UNCHANGED <<program, func>>, status' \in Statuses
  PROVE  WalkInv'
<1>1. n \in Nat /\ Edited(s, n)
  BY DEF PutFor, Builtins
<1> QED
  BY <1>1, EditKeeps

--------------------------------------------------------------------------------
(* Sequences of builtins.                                                         *)

LEMMA BuiltinsNone == Builtins(<<>>)
BY DEF Builtins, ToSet

LEMMA BuiltinsOne == ASSUME NEW op, NEW u, NEW n PROVE Builtins(<<Builtin(op, u, n)>>)
BY DEF Builtins, Builtin, ToSet

LEMMA BuiltinsEach ==
  ASSUME NEW N \in Nat, NEW f, DOMAIN f = 1 .. N, f = [k \in 1 .. N |-> f[k]],
         \A k \in 1 .. N : f[k].kind = "builtin"
  PROVE  Builtins(f)
<1>1. f \in [1 .. N -> ToSet(f)]
  BY DEF ToSet
<1>2. f \in Seq(ToSet(f))
  BY <1>1
<1> QED
  BY <1>2 DEF Builtins, ToSet

LEMMA BuiltinsJoin ==
  ASSUME NEW s, NEW t, Builtins(s), Builtins(t) PROVE Builtins(s \o t)
<1> DEFINE A == ToSet(s) \cup ToSet(t)
<1>1. s \in Seq(A) /\ t \in Seq(A)
  BY DEF Builtins
<1>2. \A st \in A : st.kind = "builtin"
  BY DEF Builtins
<1> HIDE DEF A
<1>3. s \o t \in Seq(A)
  BY <1>1
<1>4. s \o t \in Seq(ToSet(s \o t))
  BY <1>3, OwnElements
<1>5. ToSet(s \o t) \subseteq A
  BY <1>3 DEF ToSet
<1> QED
  BY <1>2, <1>4, <1>5 DEF Builtins
--------------------------------------------------------------------------------
(* Dummies and their calls.                                                       *)

LEMMA BetweenKinds ==
  ASSUME NEW st \in Between
  PROVE  /\ st.kind \in {"other", "nest"} /\ ~IsDummy(st)
         /\ st.kind = "nest" => st.lists = <<>>
BY DEF Between, Other, Nest, IsDummy

LEMMA AheadNext ==
  ASSUME NEW s, Len(s) \in Nat, NEW i \in Nat, CallAhead(s, i), s[i].kind # "call"
  PROVE  s[i] \in Between /\ i + 1 \in 1 .. Len(s) /\ CallAhead(s, i + 1)
<1>1. PICK n \in i .. Len(s) : /\ s[n].kind = "call" /\ s[n].attr = NoUnit
                               /\ \A m \in i .. n - 1 : s[m] \in Between
  BY DEF CallAhead
<1>2. n \in i + 1 .. Len(s) /\ i \in i .. n - 1 /\ i + 1 \in 1 .. Len(s)
  BY <1>1
<1>3. \A m \in i + 1 .. n - 1 : s[m] \in Between
  BY <1>1
<1> QED
  BY <1>1, <1>2, <1>3 DEF CallAhead

LEMMA SpanNext ==
  ASSUME NEW s, NEW i \in Nat, i # 0, InSpan(s, i + 1)
  PROVE  IsDummy(s[i]) \/ (s[i] \in Between /\ InSpan(s, i))
<1>1. PICK k \in 1 .. i : IsDummy(s[k]) /\ \A m \in k + 1 .. i : s[m] \in Between
  <2>1. (i + 1) - 1 = i
    OBVIOUS
  <2> QED
    BY <2>1 DEF InSpan
<1>2. CASE k = i
  BY <1>1, <1>2
<1>3. CASE k # i
  <2>1. k \in 1 .. i - 1 /\ i \in k + 1 .. i /\ \A m \in k + 1 .. i - 1 : m \in k + 1 .. i
    BY <1>3
  <2> QED
    BY <1>1, <2>1 DEF InSpan
<1> QED
  BY <1>2, <1>3

LEMMA SpanFirst == ASSUME NEW s, NEW i \in {0, 1} PROVE ~InSpan(s, i)
BY DEF InSpan

\* Up to its call nothing stands behind a dummy.
LEMMA SpanCall ==
  ASSUME NEW s, Len(s) \in Nat, DOMAIN s = 1 .. Len(s),
         \A k \in DOMAIN s : IsDummy(s[k]) => CallAhead(s, k + 1),
         NEW i \in 1 .. Len(s), InSpan(s, i)
  PROVE  s[i] \in Between \/ (s[i].kind = "call" /\ s[i].attr = NoUnit)
<1>1. PICK k \in 1 .. i - 1 : IsDummy(s[k]) /\ \A m \in k + 1 .. i - 1 : s[m] \in Between
  BY DEF InSpan
<1>2. PICK n \in k + 1 .. Len(s) : /\ s[n].kind = "call" /\ s[n].attr = NoUnit
                                   /\ \A m \in k + 1 .. n - 1 : s[m] \in Between
  BY <1>1 DEF CallAhead
<1>3. ~(n < i)
  <2>1. n < i => n \in k + 1 .. i - 1
    OBVIOUS
  <2> QED
    BY <1>1, <1>2, <2>1, BetweenKinds
<1>4. i \in k + 1 .. n - 1 \/ i = n
  BY <1>3
<1> QED
  BY <1>2, <1>4

\* t is s with n statements for the one at i.
PutAt(t, s, i, n) ==
  /\ Len(t) = Len(s) - 1 + n
  /\ \A k \in 1 .. i - 1 : t[k] = s[k]
  /\ \A k \in i + n .. Len(t) : t[k] = s[k - n + 1]

LEMMA SpanKept ==
  ASSUME NEW s, NEW t, NEW i \in Nat, NEW n \in Nat, PutAt(t, s, i, n), NEW j \in 0 .. i
  PROVE  InSpan(t, j) <=> InSpan(s, j)
<1>1. \A k \in 1 .. j - 1 : t[k] = s[k] /\ \A m \in k + 1 .. j - 1 : t[m] = s[m]
  BY DEF PutAt
<1> QED
  BY <1>1 DEF InSpan

LEMMA AheadShifted ==
  ASSUME NEW s, NEW t, NEW i \in Nat, NEW n \in Nat, Len(s) \in Nat, PutAt(t, s, i, n),
         NEW k \in Nat, k > i, CallAhead(s, k)
  PROVE  CallAhead(t, k + n - 1)
<1>1. PICK c \in k .. Len(s) : /\ s[c].kind = "call" /\ s[c].attr = NoUnit
                               /\ \A m \in k .. c - 1 : s[m] \in Between
  BY DEF CallAhead
<1> DEFINE d == c + n - 1
<1>2. d \in k + n - 1 .. Len(t) /\ d \in i + n .. Len(t) /\ d - n + 1 = c
  BY <1>1 DEF PutAt
<1>3. t[d] = s[c]
  BY <1>2 DEF PutAt
<1>4. ASSUME NEW m \in k + n - 1 .. d - 1 PROVE t[m] \in Between
  <2>1. m \in i + n .. Len(t) /\ m - n + 1 \in k .. c - 1
    BY <1>1, <1>2
  <2>2. t[m] = s[m - n + 1]
    BY <2>1 DEF PutAt
  <2> QED
    BY <1>1, <2>1, <2>2
<1> HIDE DEF d
<1> QED
  BY <1>1, <1>2, <1>3, <1>4 DEF CallAhead

\* An edit that is not made between a dummy and its call leaves every dummy its call.
LEMMA EditEmbedded ==
  ASSUME NEW s, NEW t, NEW i \in Nat, NEW n \in Nat, PutAt(t, s, i, n), i # 0,
         Len(s) \in Nat, DOMAIN s = 1 .. Len(s), i <= Len(s), DOMAIN t = 1 .. Len(t),
         \A k \in DOMAIN s : IsDummy(s[k]) => CallAhead(s, k + 1),
         \A k \in i .. i + n - 1 : ~IsDummy(t[k]),
         ~InSpan(s, i)
  PROVE  \A k \in DOMAIN t : IsDummy(t[k]) => CallAhead(t, k + 1)
<1> SUFFICES ASSUME NEW k \in 1 .. Len(t), IsDummy(t[k]) PROVE CallAhead(t, k + 1)
  OBVIOUS
<1>1. Len(t) = Len(s) - 1 + n
  BY DEF PutAt
<1>2. CASE k < i
  <2>1. k \in 1 .. i - 1 /\ k \in 1 .. Len(s) /\ t[k] = s[k]
    BY <1>1, <1>2 DEF PutAt
  <2>2. PICK c \in k + 1 .. Len(s) : /\ s[c].kind = "call" /\ s[c].attr = NoUnit
                                     /\ \A m \in k + 1 .. c - 1 : s[m] \in Between
    BY <2>1 DEF CallAhead
  <2>3. c < i
    <3> SUFFICES ASSUME ~(c < i) PROVE FALSE
      OBVIOUS
    <3>1. \A m \in k + 1 .. i - 1 : m \in k + 1 .. c - 1
      OBVIOUS
    <3> QED
      BY <2>1, <2>2, <3>1 DEF InSpan
  <2>4. c \in k + 1 .. Len(t) /\ t[c] = s[c] /\ \A m \in k + 1 .. c - 1 : t[m] = s[m]
    BY <1>1, <2>2, <2>3 DEF PutAt
  <2> QED
    BY <2>2, <2>4 DEF CallAhead
<1>3. CASE k >= i + n
  <2>1. /\ k - n + 1 \in 1 .. Len(s) /\ t[k] = s[k - n + 1] /\ (k - n + 1) + 1 > i
        /\ (k - n + 1) + 1 \in Nat /\ ((k - n + 1) + 1) + n - 1 = k + 1
    BY <1>1, <1>3 DEF PutAt
  <2>2. CallAhead(s, (k - n + 1) + 1)
    BY <2>1
  <2> QED
    BY <2>1, <2>2, AheadShifted
<1> QED
  BY <1>2, <1>3

\* A dummy is not between another one and its call, and taken out it leaves its call.
LEMMA DummyOut ==
  ASSUME NEW s, NEW t, NEW i \in Nat, PutAt(t, s, i, 0), i # 0,
         Len(s) \in Nat, DOMAIN s = 1 .. Len(s), i <= Len(s),
         \A k \in DOMAIN s : IsDummy(s[k]) => CallAhead(s, k + 1), IsDummy(s[i])
  PROVE  /\ ~InSpan(s, i) /\ ~InSpan(t, i) /\ CallAhead(t, i)
         /\ i < Len(s) /\ t[i].kind # "dummy"
<1>1. s[i] \notin Between /\ s[i].kind # "call"
  BY BetweenKinds DEF IsDummy
<1>2. ~InSpan(s, i)
  BY <1>1, SpanCall
<1>3. ~InSpan(t, i)
  BY <1>2, SpanKept
<1>4. CallAhead(s, i + 1)
  OBVIOUS
<1>5. CallAhead(t, i)
  <2>1. (i + 1) + 0 - 1 = i /\ i + 1 > i /\ i + 1 \in Nat
    OBVIOUS
  <2> QED
    BY <1>4, <2>1, AheadShifted
<1>6. i < Len(s)
  BY <1>4 DEF CallAhead
<1>7. t[i].kind # "dummy"
  <2>1. CASE t[i].kind # "call"
    <3>1. Len(t) \in Nat
      BY <1>6 DEF PutAt
    <3>2. t[i] \in Between
      BY <1>5, <2>1, <3>1, AheadNext
    <3> QED
      BY <3>2, BetweenKinds
  <2> QED
    BY <2>1
<1> QED
  BY <1>2, <1>3, <1>5, <1>6, <1>7
--------------------------------------------------------------------------------
(* The walks and the dummies.                                                     *)

LEMMA SourceStarts == ASSUME WalkInit, SourceEmbedded PROVE ListsEmbedded /\ OuterClear /\ ~Spanned
<1>1. list = program.lists /\ stack = <<>>
  BY DEF WalkInit
<1>2. ASSUME NEW l \in DOMAIN list, NEW k \in DOMAIN list[l], IsDummy(list[l][k])
      PROVE  CallAhead(list[l], k + 1)
  <2>1. DummiesEmbedded(list[l]) /\ list[l][k].kind = "dummy"
    BY <1>1, <1>2 DEF SourceEmbedded, IsDummy
  <2> QED
    BY <2>1 DEF DummiesEmbedded, CallAhead, Between
<1>3. ListsEmbedded
  BY <1>1, <1>2 DEF ListsEmbedded
<1> QED
  BY <1>1, <1>3 DEF OuterClear, Spanned

LEMMA SourceStays ==
  ASSUME UNCHANGED <<program, list>>
  PROVE  (ListsEmbedded' <=> ListsEmbedded) /\ (SourceEmbedded' <=> SourceEmbedded)
BY DEF ListsEmbedded, SourceEmbedded, CallAhead

LEMMA WalksStay ==
  ASSUME UNCHANGED <<list, stack>>
  PROVE  (OuterClear' <=> OuterClear) /\ (Spanned' <=> Spanned) /\ (Waiting' <=> Waiting)
BY DEF OuterClear, Spanned, Waiting, Clear, InSpan, CallAhead, L, I

\* What Clear says of the innermost walk.
LEMMA InnermostClear ==
  ASSUME WalkInv, stack # <<>>
  PROVE  /\ Clear(1) <=> (I # 0 => ~InSpan(list[L], I))
         /\ Spanned <=> (I # 0 /\ InSpan(list[L], I))
         /\ I # 0 => I \in 1 .. Len(list[L])
BY Innermost DEF Clear, Spanned

LEMMA ExecuteClear == ASSUME WalkInv, Execute PROVE OuterClear' /\ ~Spanned'
<1> DEFINE root == program.roots[func + 1]
           frame == [l |-> root, i |-> Start(list[root])]
<1>1. stack' = <<frame>>
  BY DEF Execute
<1>2. DOMAIN stack' = {1} /\ stack'[1].i \in {0, 1}
  BY <1>1 DEF Start
<1>3. ~InSpan(list'[stack'[1].l], stack'[1].i)
  BY <1>2, SpanFirst
<1>4. Clear(1)'
  BY <1>3 DEF Clear, InSpan
<1> QED
  BY <1>2, <1>4 DEF OuterClear, Spanned

LEMMA LeaveClear ==
  ASSUME WalkInv, Leave, OuterClear PROVE OuterClear' /\ ~Spanned' /\ ~Spanned /\ ~Waiting
<1>1. stack \in Seq(Frames) /\ stack # <<>> /\ stack' = Tail(stack) /\ list' = list /\ I = 0
  BY DEF WalkInv, Frames, Leave
<1>2. /\ DOMAIN stack = 1 .. Len(stack) /\ Len(stack) \in Nat
      /\ Len(stack') = Len(stack) - 1 /\ DOMAIN stack' = 1 .. Len(stack')
      /\ \A k \in 1 .. Len(stack') : k + 1 \in 2 .. Len(stack) /\ stack'[k] = stack[k + 1]
  BY <1>1
<1>3. ASSUME NEW k \in DOMAIN stack' PROVE Clear(k)'
  <2>1. Clear(k + 1) /\ stack'[k] = stack[k + 1]
    BY <1>2 DEF OuterClear
  <2> QED
    BY <1>1, <2>1 DEF Clear, InSpan
<1>4. stack' # <<>> => 1 \in DOMAIN stack'
  BY <1>1, <1>2
<1>5. ~Spanned
  BY <1>1, InnermostClear
<1> QED
  BY <1>1, <1>3, <1>4, <1>5 DEF OuterClear, Spanned, Waiting

\* The walk goes on to place i of its list, which is now s.
LEMMA MovedClear ==
  ASSUME WalkInv, stack # <<>>, OuterClear, NEW i \in Nat, MoveTo(i), NEW s,
         list'[L] = s, \A l \in DOMAIN list : l # L => list'[l] = list[l]
  PROVE  /\ OuterClear' /\ stack' # <<>> /\ L' = L /\ I' = i
         /\ Spanned' <=> (i # 0 /\ InSpan(s, i))
         /\ Clear(1)' <=> (i # 0 => ~InSpan(s, i))
<1>1. /\ L \in DOMAIN list /\ 1 \in DOMAIN stack /\ Len(stack) \in Nat \ {0}
      /\ DOMAIN stack = 1 .. Len(stack)
  BY Innermost
<1>2. /\ stack' \in Seq(Frames) /\ Len(stack') = Len(stack) /\ DOMAIN stack' = DOMAIN stack
      /\ stack'[1].l = L /\ stack'[1].i = i
      /\ \A k \in DOMAIN stack : stack'[k].l = stack[k].l
      /\ \A k \in DOMAIN stack : k # 1 => stack'[k].i = stack[k].i /\ stack[k].l # L
  BY Moved
<1>3. list'[L] = s /\ \A l \in DOMAIN list : l # L => list'[l] = list[l]
  OBVIOUS
<1>4. ASSUME NEW k \in DOMAIN stack', k # 1 PROVE Clear(k)'
  <2>1. stack[k].l \in DOMAIN list
    BY <1>1, <1>2 DEF WalkInv, WalkTypeOK
  <2>2. Clear(k) /\ list'[stack'[k].l] = list[stack[k].l] /\ stack'[k].i = stack[k].i
    BY <1>2, <1>3, <1>4, <2>1 DEF OuterClear
  <2> QED
    BY <2>2 DEF Clear, InSpan
<1>5. stack' # <<>> /\ Head(stack') = stack'[1]
  BY <1>1, <1>2
<1>6. L' = L /\ I' = i
  BY <1>2, <1>5 DEF L, I
<1>7. Clear(1)' <=> (i # 0 => ~InSpan(s, i))
  BY <1>2, <1>3 DEF Clear, InSpan
<1> QED
  BY <1>3, <1>4, <1>5, <1>6, <1>7 DEF OuterClear, Spanned
\* The loop goes on behind a statement of an unchanged list.
LEMMA ContinueClear ==
  ASSUME WalkInv, stack # <<>>, I # 0, OuterClear, Continue(list[L], I), UNCHANGED list
  PROVE  /\ OuterClear'
         /\ Spanned' => IsDummy(Stmt) \/ (Stmt \in Between /\ Spanned)
         /\ Waiting /\ Stmt.kind # "call" => Waiting'
<1> DEFINE i == Next(list[L], I)
<1>1. /\ L \in DOMAIN list /\ I \in 1 .. Len(list[L]) /\ I \in Nat /\ I # 0
      /\ list[L] \in Seq(ToSet(list[L])) /\ Len(list[L]) \in Nat
      /\ Stmt = list[L][I]
  BY Innermost DEF Stmt
<1>2. MoveTo(i)
  BY DEF Continue
<1>3. i \in {0, I + 1} /\ i \in Nat
  BY <1>1, NextIn
<1>4. I < Len(list[L]) => i = I + 1
  BY DEF Next
<1>5. list'[L] = list[L] /\ \A l \in DOMAIN list : l # L => list'[l] = list[l]
  OBVIOUS
<1> HIDE DEF i
<1>6. /\ OuterClear' /\ stack' # <<>> /\ L' = L /\ I' = i
      /\ Spanned' <=> (i # 0 /\ InSpan(list[L], i))
      /\ Clear(1)' <=> (i # 0 => ~InSpan(list[L], i))
  BY <1>2, <1>3, <1>5, MovedClear
<1>7. ASSUME InSpan(list[L], I + 1)
      PROVE  IsDummy(Stmt) \/ (Stmt \in Between /\ Spanned)
  <2>1. IsDummy(list[L][I]) \/ (list[L][I] \in Between /\ InSpan(list[L], I))
    BY <1>1, <1>7, SpanNext
  <2> QED
    BY <1>1, <2>1, InnermostClear
<1>8. ASSUME Waiting, Stmt.kind # "call" PROVE Waiting'
  <2>1. CallAhead(list[L], I) /\ Clear(1)
    BY <1>8 DEF Waiting
  <2>2. Stmt \in Between /\ I + 1 \in 1 .. Len(list[L]) /\ CallAhead(list[L], I + 1)
    BY <1>1, <1>8, <2>1, AheadNext
  <2>3. i = I + 1
    BY <1>1, <1>4, <2>2
  <2>4. ~InSpan(list[L], I + 1)
    <3>1. ~IsDummy(Stmt)
      BY <2>2, BetweenKinds
    <3>2. ~Spanned
      BY <2>1 DEF Spanned
    <3> QED
      BY <1>7, <3>1, <3>2
  <2>5. CallAhead(list'[L'], I')
    BY <1>6, <2>2, <2>3
  <2>6. Clear(1)'
    BY <1>6, <2>3, <2>4
  <2> QED
    BY <1>1, <1>6, <2>3, <2>5, <2>6 DEF Waiting, CallAhead
<1> QED
  BY <1>3, <1>6, <1>7, <1>8

\* Only a nested statement without lists stands between a dummy and its call.
LEMMA EnterClear ==
  ASSUME WalkInv, Enter, OuterClear
  PROVE  OuterClear' /\ (Spanned' => Spanned) /\ (Waiting => Waiting')
<1> DEFINE N == Len(Stmt.lists)
<1>1. /\ status = "walk" /\ stack # <<>> /\ I # 0 /\ Stmt.kind = "nest"
      /\ UNCHANGED <<program, list, func, status>>
  BY DEF Enter, At, Stmt
<1>2. EnteredAs(N) /\ N \in Nat
  BY EnterFrames DEF EnteredAs
<1>3. CASE Stmt \in Between
  <2>1. Stmt.lists = <<>> /\ N = 0
    BY <1>1, <1>3, BetweenKinds
  <2>2. MoveTo(Next(list[L], I))
    <3>1. stack' = [c \in 1 .. 0 |-> [l |-> <<>>[c], i |-> Start(list[<<>>[c]])]]
                     \o << [l |-> L, i |-> Next(list[L], I)] >> \o Tail(stack)
      BY <2>1 DEF Enter
    <3>2. stack \in Seq(Frames)
      BY DEF WalkInv, Frames
    <3>3. <<>> \o << [l |-> L, i |-> Next(list[L], I)] >> \o Tail(stack)
            = << [l |-> L, i |-> Next(list[L], I)] >> \o Tail(stack)
      BY <1>1, <3>2
    <3>4. [c \in 1 .. 0 |-> [l |-> <<>>[c], i |-> Start(list[<<>>[c]])]] = <<>>
      OBVIOUS
    <3> QED
      BY <3>1, <3>3, <3>4 DEF MoveTo
  <2>3. Continue(list[L], I)
    BY <1>1, <2>2 DEF Continue
  <2> QED
    BY <1>1, <1>3, <2>3, BetweenKinds, ContinueClear
<1>4. CASE Stmt \notin Between
  <2>1. /\ I \in 1 .. Len(list[L]) /\ I \in Nat /\ Len(stack) \in Nat \ {0}
        /\ DOMAIN stack = 1 .. Len(stack) /\ Len(list[L]) \in Nat
        /\ list[L] \in Seq(ToSet(list[L]))
    BY <1>1, Innermost
  <2>2. Next(list[L], I) \in {0, I + 1}
    BY <2>1, NextIn
  <2>3. ~InSpan(list[L], I + 1)
    BY <1>1, <1>4, <2>1, SpanNext DEF IsDummy, Stmt
  <2>4. ~Waiting
    <3>1. CallAhead(list[L], I) => list[L][I] \in Between
      BY <1>1, <2>1, AheadNext DEF Stmt
    <3> QED
      BY <1>4, <3>1 DEF Waiting, Stmt
  <2>5. ASSUME NEW k \in DOMAIN stack' PROVE Clear(k)'
    <3>1. /\ DOMAIN stack' = 1 .. N + Len(stack)
          /\ \A c \in 1 .. N : stack'[c].i = Start(list[Stmt.lists[c]])
          /\ stack'[N + 1].l = L /\ stack'[N + 1].i = Next(list[L], I)
          /\ \A j \in 2 .. Len(stack) : stack'[N + j] = stack[j]
      BY <1>2 DEF EnteredAs
    <3>2. CASE k \in 1 .. N
      <4>1. stack'[k].i \in {0, 1}
        BY <3>1, <3>2 DEF Start
      <4>2. ~InSpan(list'[stack'[k].l], stack'[k].i)
        BY <4>1, SpanFirst
      <4> QED
        BY <4>2 DEF Clear, InSpan
    <3>3. CASE k = N + 1
      BY <1>1, <2>2, <2>3, <3>1, <3>3 DEF Clear, InSpan
    <3>4. CASE k \notin 1 .. N /\ k # N + 1
      <4>1. k - N \in 2 .. Len(stack) /\ k = N + (k - N)
        <5>1. k \in 1 .. N + Len(stack) /\ N \in Nat /\ Len(stack) \in Nat
          BY <1>2, <2>1, <3>1
        <5> QED
          BY <3>4, <5>1
      <4>2. stack'[k] = stack[k - N] /\ k - N \in DOMAIN stack /\ k - N # 1
        BY <2>1, <3>1, <4>1
      <4>3. Clear(k - N)
        BY <4>2 DEF OuterClear
      <4> QED
        BY <1>1, <4>2, <4>3 DEF Clear, InSpan
    <3> QED
      BY <3>2, <3>3, <3>4
  <2>6. 1 \in DOMAIN stack'
    <3>1. DOMAIN stack' = 1 .. N + Len(stack)
      BY <1>2 DEF EnteredAs
    <3> QED
      BY <1>2, <2>1, <3>1
  <2> QED
    BY <2>4, <2>5, <2>6 DEF OuterClear, Spanned
<1> QED
  BY <1>3, <1>4

\* A statement that is not between a dummy and its call is replaced by others.
LEMMA EditClear ==
  ASSUME WalkInv, stack # <<>>, I # 0, OuterClear, ListsEmbedded, NEW n \in Nat, NEW s,
         Edited(s, n), NEW i \in Nat, MoveTo(i), list' = [list EXCEPT ![L] = s],
         UNCHANGED program, ~InSpan(list[L], I), i # 0 => ~InSpan(s, i),
         \A k \in I .. I + n - 1 : s[k].kind # "dummy",
         n = 0 /\ s # <<>> => s[I].kind # "dummy"
  PROVE  ListsEmbedded' /\ OuterClear' /\ ~Spanned'
<1>1. /\ L \in DOMAIN list /\ I \in 1 .. Len(list[L]) /\ I \in Nat /\ Len(list[L]) \in Nat
      /\ DOMAIN list[L] = 1 .. Len(list[L])
  BY Innermost
<1>2. /\ s \in Seq(ToSet(s)) /\ Len(s) = Len(list[L]) - 1 + n
      /\ \A k \in 1 .. Len(s) : k < I \/ k >= I + n => s[k] = list[L][Before(n, k)]
  BY DEF Edited
<1>3. DOMAIN s = 1 .. Len(s) /\ Len(s) \in Nat
  BY <1>2
<1>4. PutAt(s, list[L], I, n)
  <2>1. \A k \in 1 .. I - 1 : k \in 1 .. Len(s) /\ k < I
    BY <1>1, <1>2
  <2>2. \A k \in I + n .. Len(s) : k \in 1 .. Len(s) /\ ~(k < I) /\ k >= I + n
    BY <1>1, <1>2
  <2> QED
    BY <1>2, <2>1, <2>2 DEF PutAt, Before
<1>5. \A k \in DOMAIN s : IsDummy(s[k]) => CallAhead(s, k + 1)
  <2>1. \A k \in I .. I + n - 1 : ~IsDummy(s[k])
    BY DEF IsDummy
  <2>2. \A k \in DOMAIN list[L] : IsDummy(list[L][k]) => CallAhead(list[L], k + 1)
    BY <1>1 DEF ListsEmbedded
  <2>3. I <= Len(list[L])
    BY <1>1
  <2> QED
    BY <1>1, <1>3, <1>4, <2>1, <2>2, <2>3, EditEmbedded
<1>6. s # <<>> /\ s[1].kind = "dummy" =>
        program.lists[L] # <<>> /\ program.lists[L][1] = s[1]
  <2> SUFFICES ASSUME s # <<>>, s[1].kind = "dummy"
               PROVE  program.lists[L] # <<>> /\ program.lists[L][1] = s[1]
    OBVIOUS
  <2>1. I # 1
    <3> SUFFICES ASSUME I = 1 PROVE FALSE
      OBVIOUS
    <3>1. n # 0
      OBVIOUS
    <3>2. 1 \in I .. I + n - 1
      BY <1>1, <3>1
    <3> QED
      BY <3>2
  <2>2. 1 \in 1 .. I - 1 /\ list[L] # <<>>
    BY <1>1, <2>1
  <2>3. s[1] = list[L][1]
    BY <1>4, <2>2 DEF PutAt
  <2> QED
    BY <1>1, <2>2, <2>3 DEF ListsEmbedded
<1>7. list'[L] = s /\ DOMAIN list' = DOMAIN list /\ \A l \in DOMAIN list : l # L => list'[l] = list[l]
  BY <1>1
<1>8. ListsEmbedded'
  <2> SUFFICES ASSUME NEW l \in DOMAIN list
               PROVE  /\ \A k \in DOMAIN list'[l] : IsDummy(list'[l][k]) => CallAhead(list'[l], k + 1)
                      /\ list'[l] # <<>> /\ list'[l][1].kind = "dummy" =>
                           program.lists[l] # <<>> /\ program.lists[l][1] = list'[l][1]
    BY <1>7 DEF ListsEmbedded, CallAhead
  <2>1. CASE l = L
    BY <1>5, <1>6, <1>7, <2>1
  <2>2. CASE l # L
    BY <1>7, <2>2 DEF ListsEmbedded
  <2> QED
    BY <2>1, <2>2
<1>9. OuterClear' /\ (Spanned' <=> (i # 0 /\ InSpan(s, i)))
  BY <1>1, <1>7, MovedClear
<1> QED
  BY <1>8, <1>9
\* Builtins are put in the place of a call that no dummy is in front of.
LEMMA ReplaceClear ==
  ASSUME WalkInv, stack # <<>>, I # 0, OuterClear, ListsEmbedded, ~InSpan(list[L], I),
         NEW new, Builtins(new), new # <<>>, Replace(new) \/ ReplaceExpr(new),
         UNCHANGED <<program, func>>, status' \in Statuses
  PROVE  WalkInv' /\ ListsEmbedded' /\ OuterClear' /\ ~Spanned'
<1>1. PICK s, i, n : /\ PutFor(s, new, n) /\ i \in 0 .. Len(s) /\ i \in {0, I + n}
                     /\ MoveTo(i) /\ list' = [list EXCEPT ![L] = s]
  BY ReplacedBy, ReplacedExpr
<1>2. WalkInv'
  BY <1>1, PutKeeps
<1>3. Len(new) \in Nat \ {0} /\ DOMAIN new = 1 .. Len(new)
  BY DEF Builtins
<1>4. n \in Nat \ {0} /\ Edited(s, n)
  BY <1>1, <1>3 DEF PutFor
<1>5. I \in Nat /\ Len(list[L]) \in Nat /\ I <= Len(list[L])
  BY Innermost
<1>6. ASSUME NEW k \in I .. I + n - 1 PROVE s[k].kind \in {"builtin", "assigned"}
  <2>1. s[k] = IF k < I + Len(new) THEN new[k - I + 1] ELSE Assigned
    BY <1>1 DEF PutFor
  <2>2. CASE k < I + Len(new)
    <3>1. k - I + 1 \in DOMAIN new
      BY <1>3, <1>4, <1>5, <2>2
    <3>2. new[k - I + 1] \in ToSet(new)
      BY <3>1 DEF ToSet
    <3> QED
      BY <2>1, <2>2, <3>2 DEF Builtins
  <2>3. CASE ~(k < I + Len(new))
    BY <2>1, <2>3 DEF Assigned
  <2> QED
    BY <2>2, <2>3
<1>7. ~InSpan(s, I + n)
  <2> DEFINE e == I + n - 1
  <2>1. e \in I .. I + n - 1 /\ e \in Nat /\ e # 0 /\ I + n = e + 1
    BY <1>1, <1>4, <1>5, Innermost
  <2>2. s[e].kind \in {"builtin", "assigned"}
    BY <1>6, <2>1
  <2>3. s[e] \notin Between /\ ~IsDummy(s[e])
    BY <2>2, BetweenKinds DEF IsDummy
  <2> HIDE DEF e
  <2> QED
    BY <2>1, <2>3, SpanNext
<1>8. \A k \in I .. I + n - 1 : s[k].kind # "dummy"
  BY <1>6
<1>9. n \in Nat /\ n # 0 /\ i \in Nat /\ (i # 0 => ~InSpan(s, i))
  BY <1>1, <1>4, <1>7
<1>10. ListsEmbedded' /\ OuterClear' /\ ~Spanned'
  BY <1>1, <1>4, <1>7, <1>8, <1>9, EditClear
<1> QED
  BY <1>2, <1>10

\* A call behind a dummy that has been left in the list has no pragma of its own.
LEMMA SpannedCall ==
  ASSUME WalkInv, ListsEmbedded, Spanned
  PROVE  Stmt \in Between \/ (Stmt.kind = "call" /\ Stmt.attr = NoUnit)
<1>1. /\ stack # <<>> /\ I # 0 /\ InSpan(list[L], I)
  BY InnermostClear DEF Spanned
<1>2. /\ L \in DOMAIN list /\ I \in 1 .. Len(list[L]) /\ Len(list[L]) \in Nat
      /\ DOMAIN list[L] = 1 .. Len(list[L])
  BY <1>1, Innermost
<1>3. \A k \in DOMAIN list[L] : IsDummy(list[L][k]) => CallAhead(list[L], k + 1)
  BY <1>2 DEF ListsEmbedded
<1> QED
  BY <1>1, <1>2, <1>3, SpanCall DEF Stmt

\* What comes after a dummy that has been taken out is its call, or nothing but what
\* may stand between.
LEMMA WaitingAt ==
  ASSUME WalkInv, Waiting
  PROVE  /\ stack # <<>> /\ I # 0 /\ ~Spanned /\ ~InSpan(list[L], I)
         /\ Stmt \in Between \/ Stmt.kind = "call"
<1>1. stack # <<>> /\ I # 0 /\ CallAhead(list[L], I) /\ Clear(1)
  BY DEF Waiting
<1>2. I \in Nat /\ Len(list[L]) \in Nat
  BY <1>1, Innermost
<1>3. Stmt \in Between \/ Stmt.kind = "call"
  BY <1>1, <1>2, AheadNext DEF Stmt
<1>4. ~Spanned /\ ~InSpan(list[L], I)
  BY <1>1, InnermostClear DEF Spanned
<1> QED
  BY <1>1, <1>3, <1>4

\* A dummy is taken out and the walk goes on with the statement behind it.
LEMMA DummyOutClear ==
  ASSUME WalkInv, OuterClear, ListsEmbedded, stack # <<>>, I # 0, IsDummy(Stmt),
         list' = [list EXCEPT ![L] = RemoveAt(list[L], I)],
         MoveTo(I), UNCHANGED <<program, func>>, status' \in Statuses
  PROVE  WalkInv' /\ ListsEmbedded' /\ OuterClear' /\ ~Spanned' /\ Waiting'
<1> DEFINE rest == RemoveAt(list[L], I)
<1>1. /\ L \in DOMAIN list /\ I \in 1 .. Len(list[L]) /\ I \in Nat /\ Len(list[L]) \in Nat
      /\ DOMAIN list[L] = 1 .. Len(list[L]) /\ list[L] \in Seq(ToSet(list[L]))
  BY Innermost
<1>2. Edited(rest, 0)
  BY RemovedEdit
<1>3. /\ rest \in Seq(ToSet(rest)) /\ Len(rest) = Len(list[L]) - 1 + 0
      /\ \A k \in 1 .. Len(rest) : k < I \/ k >= I + 0 => rest[k] = list[L][Before(0, k)]
  BY <1>2 DEF Edited
<1> HIDE DEF rest
<1>4. PutAt(rest, list[L], I, 0)
  <2>1. \A k \in 1 .. I - 1 : k \in 1 .. Len(rest) /\ k < I
    BY <1>1, <1>3
  <2>2. \A k \in I + 0 .. Len(rest) : k \in 1 .. Len(rest) /\ ~(k < I) /\ k >= I + 0
    BY <1>1, <1>3
  <2> QED
    BY <1>3, <2>1, <2>2 DEF PutAt, Before
<1>5. \A k \in DOMAIN list[L] : IsDummy(list[L][k]) => CallAhead(list[L], k + 1)
  BY <1>1 DEF ListsEmbedded
<1>6. IsDummy(list[L][I])
  BY DEF Stmt
<1>7. /\ ~InSpan(list[L], I) /\ ~InSpan(rest, I) /\ CallAhead(rest, I)
      /\ I < Len(list[L]) /\ rest[I].kind # "dummy"
  <2>1. I <= Len(list[L])
    BY <1>1
  <2> QED
    BY <1>1, <1>4, <1>5, <1>6, <2>1, DummyOut
<1>8. list' = [list EXCEPT ![L] = rest] /\ I \in 0 .. Len(rest) /\ I \in {0, I + 0}
  BY <1>1, <1>3, <1>7 DEF rest
<1>9. WalkInv'
  <2>1. 0 \in Nat
    OBVIOUS
  <2> QED
    BY <1>2, <1>8, <2>1, EditKeeps
<1>10. ListsEmbedded' /\ OuterClear' /\ ~Spanned'
  <2>1. (I # 0 => ~InSpan(rest, I)) /\ 0 \in Nat /\ \A k \in I .. I + 0 - 1 : rest[k].kind # "dummy"
    BY <1>1, <1>7
  <2> QED
    BY <1>1, <1>2, <1>7, <1>8, <2>1, EditClear
<1>11. list'[L] = rest /\ \A l \in DOMAIN list : l # L => list'[l] = list[l]
  BY <1>1, <1>8
<1>12. stack' # <<>> /\ L' = L /\ I' = I /\ Clear(1)'
  BY <1>1, <1>7, <1>11, MovedClear
<1>13. CallAhead(list'[L'], I')
  BY <1>7, <1>11, <1>12
<1> QED
  BY <1>9, <1>10, <1>12, <1>13 DEF Waiting, CallAhead
--------------------------------------------------------------------------------
(* What a pass leaves in place.                                                   *)

LEMMA SameStarts == ASSUME NEW s, NEW R PROVE SameIn(s, s, R)
<1> DEFINE f == [k \in PlacesOf(s, R) |-> k]
<1>1. f \in [PlacesOf(s, R) -> PlacesOf(s, R)] /\ \A k \in PlacesOf(s, R) : f[k] = k
  OBVIOUS
<1> HIDE DEF f
<1> QED
  BY <1>1 DEF SameIn

\* A statement that is not of R gives way to others that are not.
LEMMA SameEdit ==
  ASSUME WalkInv, stack # <<>>, I # 0, NEW n \in Nat, NEW s, Edited(s, n),
         NEW R, Stmt \notin R, \A k \in I .. I + n - 1 : s[k] \notin R,
         NEW t, SameIn(list[L], t, R)
  PROVE  SameIn(s, t, R)
<1> DEFINE A == PlacesOf(list[L], R)
           B == PlacesOf(t, R)
           C == PlacesOf(s, R)
<1>1. /\ I \in 1 .. Len(list[L]) /\ I \in Nat /\ Len(list[L]) \in Nat
      /\ DOMAIN list[L] = 1 .. Len(list[L])
  BY Innermost
<1>2. /\ DOMAIN s = 1 .. Len(s) /\ Len(s) = Len(list[L]) - 1 + n
      /\ \A k \in DOMAIN s : k < I \/ k >= I + n => s[k] = list[L][Before(n, k)]
  BY DEF Edited
<1>3. PICK f \in [A -> B] : /\ \A k \in A : t[f[k]] = list[L][k]
                            /\ \A j, k \in A : j < k => f[j] < f[k]
                            /\ \A m \in B : \E k \in A : f[k] = m
  BY DEF SameIn
<1>4. ASSUME NEW k \in C
      PROVE  k \in DOMAIN s /\ k \in Int /\ (k < I \/ k >= I + n) /\ Before(n, k) \in A
  <2>1. k \in DOMAIN s /\ k \in Int /\ s[k] \in R
    BY <1>2 DEF PlacesOf
  <2>2. k < I \/ k >= I + n
    BY <1>1, <2>1
  <2>3. Before(n, k) \in DOMAIN list[L]
    BY <1>1, <1>2, <2>1, <2>2 DEF Before
  <2> QED
    BY <1>2, <2>1, <2>2, <2>3 DEF PlacesOf
<1>5. ASSUME NEW j \in A
      PROVE  \E k \in C : Before(n, k) = j
  <2>1. j \in 1 .. Len(list[L]) /\ list[L][j] \in R /\ j # I
    BY <1>1 DEF PlacesOf, Stmt
  <2> DEFINE k == IF j < I THEN j ELSE j + n - 1
  <2>2. k \in DOMAIN s /\ (k < I \/ k >= I + n) /\ Before(n, k) = j
    BY <1>1, <1>2, <2>1 DEF Before
  <2> HIDE DEF k
  <2> QED
    BY <1>2, <2>1, <2>2 DEF PlacesOf
<1> DEFINE g == [k \in C |-> f[Before(n, k)]]
<1> HIDE DEF A, B, C
<1>6. g \in [C -> B] /\ \A k \in C : g[k] = f[Before(n, k)]
  BY <1>3, <1>4
<1> HIDE DEF g
<1>7. ASSUME NEW k \in C PROVE t[g[k]] = s[k]
  BY <1>2, <1>3, <1>4, <1>6
<1>8. ASSUME NEW j \in C, NEW k \in C, j < k PROVE g[j] < g[k]
  <2>1. Before(n, j) < Before(n, k)
    BY <1>1, <1>4, <1>8 DEF Before
  <2> QED
    BY <1>3, <1>4, <1>6, <2>1
<1>9. ASSUME NEW m \in B PROVE \E k \in C : g[k] = m
  BY <1>3, <1>5, <1>6
<1> QED
  BY <1>6, <1>7, <1>8, <1>9 DEF SameIn, A, B, C

\* What is among R is in its list as in the source.
KeptIn(R) == \A l \in DOMAIN list : SameIn(list[l], program.lists[l], R)

LEMMA StartsKept == ASSUME NEW R, list = program.lists PROVE KeptIn(R)
BY SameStarts DEF KeptIn

LEMMA StaysKept == ASSUME NEW R, KeptIn(R), UNCHANGED <<program, list>> PROVE KeptIn(R)'
BY DEF KeptIn

LEMMA EditKept ==
  ASSUME WalkInv, NEW R, KeptIn(R), stack # <<>>, I # 0, NEW n \in Nat, NEW s, Edited(s, n),
         list' = [list EXCEPT ![L] = s], UNCHANGED program,
         Stmt \notin R, \A k \in I .. I + n - 1 : s[k] \notin R
  PROVE  KeptIn(R)'
<1>1. L \in DOMAIN list /\ DOMAIN list' = DOMAIN list
  BY Innermost
<1>2. list'[L] = s /\ \A l \in DOMAIN list : l # L => list'[l] = list[l]
  BY <1>1
<1>3. SameIn(s, program.lists[L], R)
  BY <1>1, SameEdit DEF KeptIn
<1> QED
  BY <1>1, <1>2, <1>3 DEF KeptIn

\* Nor does the edit of both passes touch it.
LEMMA PutKept ==
  ASSUME WalkInv, NEW R, KeptIn(R), stack # <<>>, I # 0, NEW new, Builtins(new),
         ReplaceExpr(new) \/ Replace(new), UNCHANGED program, Stmt \notin R,
         \A st \in R : st.kind \notin {"builtin", "assigned"}
  PROVE  KeptIn(R)'
<1>1. PICK s, i, n : PutFor(s, new, n) /\ list' = [list EXCEPT ![L] = s]
  BY ReplacedBy, ReplacedExpr
<1>2. DOMAIN new = 1 .. Len(new) /\ Len(new) \in Nat
  BY DEF Builtins
<1>3. n \in Nat /\ Edited(s, n) /\ I \in Nat
  BY <1>1, <1>2, Innermost DEF PutFor
<1>4. ASSUME NEW k \in I .. I + n - 1 PROVE s[k] \notin R
  <2>1. s[k] = IF k < I + Len(new) THEN new[k - I + 1] ELSE Assigned
    BY <1>1 DEF PutFor
  <2>2. CASE k < I + Len(new)
    <3>1. k - I + 1 \in DOMAIN new
      BY <1>2, <1>3, <2>2
    <3>2. new[k - I + 1].kind = "builtin"
      BY <1>2, <3>1 DEF Builtins, ToSet
    <3> QED
      BY <2>1, <2>2, <3>2
  <2>3. CASE ~(k < I + Len(new))
    BY <2>1, <2>3 DEF Assigned
  <2> QED
    BY <2>2, <2>3
<1> QED
  BY <1>1, <1>3, <1>4, EditKept
--------------------------------------------------------------------------------
(* What opens a remote call: the first of the builtins linked in for one.          *)

IsOpen(st) == st.kind = "builtin" /\ st.op = "rpc"

OpensNone(s) == Builtins(s) /\ \A k \in DOMAIN s : s[k].op # "rpc"

LEMMA Joined ==
  ASSUME NEW s, NEW t, Builtins(s), Builtins(t)
  PROVE  /\ Builtins(s \o t)
         /\ DOMAIN s = 1 .. Len(s) /\ DOMAIN t = 1 .. Len(t)
         /\ Len(s) \in Nat /\ Len(t) \in Nat /\ DOMAIN (s \o t) = 1 .. Len(s) + Len(t)
         /\ \A k \in 1 .. Len(s) : (s \o t)[k] = s[k]
         /\ \A k \in 1 .. Len(t) : (s \o t)[Len(s) + k] = t[k]
<1> DEFINE A == ToSet(s) \cup ToSet(t)
<1>1. s \in Seq(A) /\ t \in Seq(A)
  BY DEF Builtins
<1> HIDE DEF A
<1>2. /\ s \o t \in Seq(A) /\ Len(s \o t) = Len(s) + Len(t)
      /\ Len(s) \in Nat /\ Len(t) \in Nat
      /\ \A k \in 1 .. Len(s) : (s \o t)[k] = s[k]
      /\ \A k \in 1 .. Len(t) : (s \o t)[Len(s) + k] = t[k]
  BY <1>1, Concatenated
<1>3. DOMAIN (s \o t) = 1 .. Len(s) + Len(t) /\ DOMAIN s = 1 .. Len(s) /\ DOMAIN t = 1 .. Len(t)
  BY <1>1, <1>2
<1> QED
  BY <1>2, <1>3, BuiltinsJoin

LEMMA NoneJoined ==
  ASSUME NEW s, NEW t, OpensNone(s), OpensNone(t) PROVE OpensNone(s \o t)
<1>1. /\ Builtins(s \o t)
      /\ DOMAIN s = 1 .. Len(s) /\ DOMAIN t = 1 .. Len(t)
      /\ Len(s) \in Nat /\ Len(t) \in Nat /\ DOMAIN (s \o t) = 1 .. Len(s) + Len(t)
      /\ \A k \in 1 .. Len(s) : (s \o t)[k] = s[k]
      /\ \A k \in 1 .. Len(t) : (s \o t)[Len(s) + k] = t[k]
  BY Joined DEF OpensNone
<1>2. ASSUME NEW k \in DOMAIN (s \o t) PROVE (s \o t)[k].op # "rpc"
  <2>1. CASE k \in 1 .. Len(s)
    BY <1>1, <2>1 DEF OpensNone
  <2>2. CASE k \notin 1 .. Len(s)
    <3>1. k - Len(s) \in 1 .. Len(t) /\ k = Len(s) + (k - Len(s))
      BY <1>1, <2>2
    <3>2. (s \o t)[k] = t[k - Len(s)]
      BY <1>1, <3>1
    <3> QED
      BY <1>1, <3>1, <3>2 DEF OpensNone
  <2> QED
    BY <2>1, <2>2
<1> QED
  BY <1>1, <1>2 DEF OpensNone

LEMMA OtherBuiltin ==
  ASSUME NEW op, op # "rpc", NEW u, NEW n PROVE OpensNone(<<Builtin(op, u, n)>>)
<1>1. /\ Builtins(<<Builtin(op, u, n)>>) /\ DOMAIN <<Builtin(op, u, n)>> = {1}
      /\ Builtin(op, u, n).op = op
  BY BuiltinsOne DEF Builtin
<1> QED
  BY <1>1 DEF OpensNone

\* Whatever a step of a pass links in, it opens no remote call.
OpensNothing ==
  \/ UNCHANGED list
  \/ /\ stack # <<>> /\ I # 0
     /\ \E n \in Nat : \E s : /\ Edited(s, n) /\ list' = [list EXCEPT ![L] = s]
                            /\ \A k \in I .. I + n - 1 : ~IsOpen(s[k])

LEMMA PutOpensNothing ==
  ASSUME WalkInv, stack # <<>>, I # 0, NEW new, OpensNone(new), ReplaceExpr(new) \/ Replace(new)
  PROVE  OpensNothing
<1>1. Builtins(new) /\ DOMAIN new = 1 .. Len(new) /\ Len(new) \in Nat
  BY DEF OpensNone, Builtins
<1>2. PICK s, i, n : PutFor(s, new, n) /\ list' = [list EXCEPT ![L] = s]
  BY <1>1, ReplacedBy, ReplacedExpr
<1>3. n \in Nat /\ Edited(s, n) /\ I \in Nat
  BY <1>1, <1>2, Innermost DEF PutFor
<1>4. ASSUME NEW k \in I .. I + n - 1 PROVE ~IsOpen(s[k])
  <2>1. s[k] = IF k < I + Len(new) THEN new[k - I + 1] ELSE Assigned
    BY <1>2 DEF PutFor
  <2>2. CASE k < I + Len(new)
    <3>1. k - I + 1 \in DOMAIN new
      BY <1>1, <1>3, <2>2
    <3> QED
      BY <2>1, <2>2, <3>1 DEF OpensNone, IsOpen
  <2>3. CASE ~(k < I + Len(new))
    BY <2>1, <2>3 DEF Assigned, IsOpen
  <2> QED
    BY <2>2, <2>3
<1> QED
  BY <1>2, <1>3, <1>4 DEF OpensNothing

LEMMA RemovedOpensNothing ==
  ASSUME WalkInv, stack # <<>>, I # 0, list' = [list EXCEPT ![L] = RemoveAt(list[L], I)]
  PROVE  OpensNothing
<1>1. Edited(RemoveAt(list[L], I), 0) /\ I \in Nat
  BY RemovedEdit, Innermost
<1>2. I .. I + 0 - 1 = {}
  BY <1>1
<1> QED
  BY <1>1, <1>2 DEF OpensNothing
================================================================================
