------------------------------ MODULE AsidProofs -----------------------------
(***************************************************************************)
(* Theorems about Asid for any numbers of CPUs, processes, ASIDs and       *)
(* generations: no process ever meets a stale translation.                 *)
(***************************************************************************)
EXTENDS AsidInv

\* Exit keeps the invariant.
LEMMA ExitStep ==
    ASSUME IInv, NEW c \in CPU, Exit(c)
    PROVE  IInv'
<1> DEFINE a == Asid(asid_ctx[cur[c]])
<1> USE Constants DEF IInv
<1>u. /\ pc[c] = "user" /\ pc' = [pc EXCEPT ![c] = "exiting"]
      /\ UNCHANGED <<asid_generation, asid_next, asid_bitmap, tlb_pending, asid_active,
                     asid_reserved, asid_lock, swept, cur, ctx, gen, old>>
  BY Zenon DEF Exit, Goto, localVars
<1>a. /\ cur[c] \in Proc /\ ttbr[c] = <<a, cur[c]>> /\ ttbr[c] \in tlb[c]
      /\ asid_ctx[cur[c]] # NoCtx /\ a # 0 /\ a \in 0..(NumAsid - 1)
  BY <1>u, Pairs DEF TypeOK, PointInv, TtbrInv, RunInv, Running, GenInv, WellFormed
<1>b. \A d \in CPU : /\ Outdated(tlb[d], cur[c]) \in SUBSET Entry
                     /\ \A e \in Outdated(tlb[d], cur[c]) :
                          /\ e[2] # cur[c]
                          /\ \E f \in tlb[d] :
                               e[1] = f[1] /\ (e[2] = f[2] \/ (e[2] = NULL /\ f[2] = cur[c]))
                     /\ \A e \in tlb[d] :
                          <<e[1], IF e[2] = cur[c] THEN NULL ELSE e[2]>>
                            \in Outdated(tlb[d], cur[c])
  BY <1>a, OutdatedFacts, Zenon DEF TypeOK
<1> HIDE DEF a
<1>c. /\ \A d \in CPU : tlb'[d] = Outdated(tlb[d], cur[c])
      /\ \A d \in CPU : ttbr'[d] = IF d = c THEN <<a, NULL>> ELSE ttbr[d]
      /\ ttbr' \in [CPU -> Entry] /\ tlb' \in [CPU -> SUBSET Entry]
  <2>1. <<a, NULL>> \in Entry
    BY <1>a, Zenon DEF Entry
  <2>2. ttbr' = [ttbr EXCEPT ![c] = <<a, NULL>>]
    BY <1>a DEF Exit, TypeOK, Entry
  <2>3. tlb' = [d \in CPU |-> Outdated(tlb[d], cur[c])]
    BY Zenon DEF Exit
  <2>4. QED
    BY <1>b, <2>1, <2>2, <2>3, Zenon DEF TypeOK
<1>d. \A d \in CPU : \A e \in tlb'[d] : \E f \in tlb[d] : e[1] = f[1]
  BY <1>b, <1>c
<1>e. /\ asid_ctx' \in [Proc -> Context]
      /\ \A p \in Proc : asid_ctx'[p] = IF p = cur[c] THEN NoCtx ELSE asid_ctx[p]
  BY <1>a, Zenon DEF Exit, TypeOK
<1>f. \A n : NoCtx # <<asid_generation, n>>
  BY Zenon DEF TypeOK, NoCtx
<1>1. TypeOK'
  BY <1>u, <1>c, <1>e, Zenon DEF TypeOK, Points
<1>2. PointInv'
  BY <1>u, <1>e DEF TypeOK, PointInv
<1>3. TtbrInv'
  <2>1. ASSUME NEW d \in CPU, d # c, pc[d] \in {"user", "exec", "exiting"}
        PROVE  ttbr'[d] \in tlb'[d]
    <3>1. ttbr[d] \in tlb[d] /\ ttbr[d] = <<ttbr[d][1], ttbr[d][2]>> /\ ttbr[d][2] # cur[c]
      BY <1>a, <2>1, Pairs DEF TypeOK, TtbrInv, PointInv
    <3>2. QED
      BY <1>b, <1>c, <2>1, <3>1
  <2>2. ttbr'[c] \in tlb'[c]
    <3>1. <<ttbr[c][1], IF ttbr[c][2] = cur[c] THEN NULL ELSE ttbr[c][2]>>
            \in Outdated(tlb[c], cur[c])
      BY <1>a, <1>b, Zenon
    <3>2. ttbr[c][1] = a /\ ttbr[c][2] = cur[c]
      BY <1>a
    <3>3. QED
      BY <3>1, <3>2, <1>c, Zenon
  <2>3. QED
    BY <1>u, <1>a, <1>c, <1>e, <2>1, <2>2 DEF TypeOK, TtbrInv, PointInv
<1>4. GenInv'
  BY <1>u, <1>e, Zenon DEF TypeOK, GenInv, WellFormed, PointInv
<1>5. RunInv'
  BY <1>u, <1>e DEF TypeOK, RunInv, Running, PointInv
<1>6. NumberInv'
  <2>1. \A n : Issued(n)' => Issued(n)
    <3>1. \A n : (\E p \in Proc : asid_ctx'[p] = <<asid_generation, n>>) => Issued(n)
      BY <1>e, <1>f, Zenon DEF Issued
    <3>2. \A n : (\E b \in CPU \ tlb_pending : \E e \in tlb'[b] : e[1] = n) => Issued(n)
      BY <1>d DEF Issued
    <3>3. QED
      BY <1>u, <3>1, <3>2, Zenon DEF Issued
  <2>2. Sweeping' <=> Sweeping
    BY <1>u, Zenon DEF TypeOK, Sweeping
  <2>3. ~Sweeping =>
            /\ \A b \in CPU \ tlb_pending : \A e \in tlb'[b] : e[1] \in asid_bitmap
            /\ \A p \in Proc : Generation(asid_ctx'[p]) = asid_generation =>
                                Asid(asid_ctx'[p]) \in asid_bitmap
    BY <1>d, <1>e DEF TypeOK, NumberInv, NoCtx, Generation, Asid
  <2>4. \A p, q \in Proc : asid_ctx'[p] = asid_ctx'[q] /\ asid_ctx'[p] # NoCtx => p = q
    BY <1>e DEF NumberInv
  <2>5. QED
    BY <1>u, <2>1, <2>2, <2>3, <2>4 DEF NumberInv
<1>7. CleanInv'
  <2>1. \A p \in Proc : InExec(p) => InExec(p)'
    BY <1>u, Zenon DEF TypeOK, InExec
  <2>2. ASSUME NEW d \in CPU \ tlb_pending, NEW e \in tlb'[d]
        PROVE  /\ e[1] # 0
               /\ e[2] \in Proc => asid_ctx'[e[2]] = <<asid_generation, e[1]>>
               /\ e[2] = NULL => \A p \in Proc :
                                asid_ctx'[p] = <<asid_generation, e[1]>> => InExec(p)'
    <3>0. e \in Outdated(tlb[d], cur[c])
      BY <1>c, Zenon
    <3>1. PICK f \in tlb[d] :
            /\ e[1] = f[1] /\ e[2] # cur[c]
            /\ e[2] = f[2] \/ (e[2] = NULL /\ f[2] = cur[c])
      BY <1>b, <3>0, ZenonT(40)
    <3>2. CASE e[2] = f[2]
      BY <1>e, <1>f, <2>1, <3>1, <3>2, ZenonT(40) DEF CleanInv
    <3>3. CASE e[2] = NULL /\ f[2] = cur[c]
      <4>1. asid_ctx[cur[c]] = <<asid_generation, e[1]>> /\ e[1] # 0
        BY <1>a, <3>1, <3>3, Zenon DEF CleanInv
      <4>2. \A p \in Proc : asid_ctx[p] = <<asid_generation, e[1]>> => p = cur[c]
        BY <1>a, <4>1, OneOwner, Zenon
      <4>3. QED
        BY <1>e, <1>f, <3>3, <4>1, <4>2, Zenon
    <3>4. QED
      BY <3>1, <3>2, <3>3, Zenon
  <2>3. ASSUME NEW d \in CPU \ tlb_pending, pc'[d] = "exiting", NEW p \in Proc
        PROVE  asid_ctx'[p] # <<asid_generation, ttbr'[d][1]>>
    <3>1. CASE d = c
      <4>1. asid_ctx[cur[c]] = <<asid_generation, a>>
        BY <1>a, <2>3, <3>1, Zenon DEF CleanInv
      <4>2. QED
        <5>1. ttbr'[c][1] = a
          BY <1>c
        <5>2. p # cur[c] => asid_ctx[p] # asid_ctx[cur[c]]
          BY <1>a, OneOwner, Zenon
        <5>3. QED
          BY <1>e, <1>f, <3>1, <4>1, <5>1, <5>2, Zenon
    <3>2. CASE d # c
      BY <1>u, <1>c, <1>e, <1>f, <2>3, <3>2 DEF TypeOK, CleanInv
    <3>3. QED
      BY <3>1, <3>2, Zenon
  <2>4. QED
    BY <1>u, <2>2, <2>3, ZenonT(40) DEF CleanInv
<1>8. OwnInv'
  <2>1. ASSUME NEW d \in CPU, pc'[d] \in Running, NEW e \in tlb'[d],
               e[1] = Asid(asid_ctx'[cur[d]])
        PROVE  e[2] = cur[d] \/ (e[2] = NULL /\ pc'[d] = "exec")
    <3>1. d # c /\ pc[d] \in Running /\ cur[d] \in Proc /\ pc'[d] = pc[d] /\ cur[d] # cur[c]
      BY <1>u, <1>a, <2>1 DEF TypeOK, Running, PointInv
    <3>2. \A f \in tlb[d] : f[1] = e[1] => f[2] = cur[d] \/ (f[2] = NULL /\ pc[d] = "exec")
      BY <1>e, <2>1, <3>1, Zenon DEF OwnInv
    <3>0. e \in Outdated(tlb[d], cur[c])
      BY <1>c, Zenon
    <3>3. PICK f \in tlb[d] :
            e[1] = f[1] /\ (e[2] = f[2] \/ (e[2] = NULL /\ f[2] = cur[c]))
      BY <1>b, <3>0, Zenon
    <3>4. QED
      BY <3>1, <3>2, <3>3, Zenon
  <2>2. QED
    BY <1>u, <2>1, Zenon DEF OwnInv
<1>9. QED
  BY <1>1, <1>2, <1>3, <1>4, <1>5, <1>6, <1>7, <1>8, Zenon DEF IInv

-----------------------------------------------------------------------------
\* The slow path gives number a of this generation to its process: nobody else has
\* it, and the slots that reserve it, for this process, now do so in this generation.
LEMMA GiveOut ==
    ASSUME IInv, NEW c \in CPU, pc[c] = "slow", NEW a \in 1..(NumAsid - 1),
           Leave(c, <<asid_generation, a>>), FlushIfPending(c, tlb_pending),
           asid_next' \in Nat \ {0}, asid_bitmap' = asid_bitmap \cup {a},
           asid_reserved' \in [CPU -> Context],
           UNCHANGED <<asid_generation, swept, cur, gen, old, ttbr>>,
           \A p \in Proc \ {cur[c]} : asid_ctx[p] # <<asid_generation, a>>,
           \/ asid_ctx[cur[c]] = <<asid_generation, a>>
           \/ /\ Generation(asid_ctx[cur[c]]) # asid_generation
              /\ \A d \in CPU \ tlb_pending : \A e \in tlb[d] : e[1] # a,
           \A d \in CPU :
             IF Asid(asid_reserved[d]) = a
             THEN /\ asid_reserved[d] \in {asid_ctx[cur[c]], <<asid_generation, a>>}
                  /\ asid_reserved'[d] = <<asid_generation, a>>
             ELSE asid_reserved'[d] = asid_reserved[d]
    PROVE  IInv'
<1> DEFINE x == <<asid_generation, a>>
<1> USE Constants DEF IInv
<1>a. /\ cur[c] \in Proc /\ ttbr[c] = Reserved /\ ~Sweeping
      /\ x \in Context /\ x # NoCtx /\ Generation(x) = asid_generation /\ Asid(x) = a
  <2>1. cur[c] \in Proc /\ ttbr[c] = Reserved
    BY Zenon DEF PointInv, TtbrInv
  <2>2. ~Sweeping
    BY Zenon DEF PointInv, Sweeping
  <2>3. QED
    BY <2>1, <2>2 DEF TypeOK, Context, NoCtx, Generation, Asid
<1>b. /\ pc' = [pc EXCEPT ![c] = "install"] /\ ctx' = [ctx EXCEPT ![c] = x]
      /\ asid_ctx' = [asid_ctx EXCEPT ![cur[c]] = x]
      /\ asid_active' = [asid_active EXCEPT ![c] = x] /\ asid_lock' = NULL
  BY Zenon DEF Leave, Goto
<1>c. /\ tlb_pending' = tlb_pending \ {c}
      /\ tlb' \in [CPU -> SUBSET Entry]
      /\ \A d \in CPU : tlb'[d] = IF d = c /\ c \in tlb_pending THEN {} ELSE tlb[d]
  BY <1>a, Zenon DEF FlushIfPending, TypeOK
<1>d. \A d \in CPU \ tlb_pending' : \A e \in tlb'[d] : d \notin tlb_pending /\ e \in tlb[d]
  BY <1>c, Zenon
<1> HIDE DEF x
<1>e. \A p \in Proc : asid_ctx'[p] = IF p = cur[c] THEN x ELSE asid_ctx[p]
  BY <1>a, <1>b, Zenon DEF TypeOK
<1>f. /\ \A d \in CPU : asid_active'[d] = IF d = c THEN x ELSE asid_active[d]
      /\ \A d \in CPU : pc'[d] = IF d = c THEN "install" ELSE pc[d]
  BY <1>b, Zenon DEF TypeOK
<1>g. \A d \in CPU : Asid(asid_reserved[d]) # a => asid_reserved'[d] = asid_reserved[d]
  BY Zenon
<1>h. \A d \in CPU : Asid(asid_reserved[d]) = a =>
        asid_reserved[d] \in {asid_ctx[cur[c]], x} /\ asid_reserved'[d] = x
  BY Zenon DEF x
<1>i. /\ \A p \in Proc : p # cur[c] => asid_ctx[p] # x
      /\ \/ asid_ctx[cur[c]] = x
         \/ /\ Generation(asid_ctx[cur[c]]) # asid_generation
            /\ \A d \in CPU \ tlb_pending : \A e \in tlb[d] : e[1] # a
  BY Zenon DEF x
<1>1. TypeOK'
  <2>1. /\ asid_ctx' \in [Proc -> Context] /\ asid_active' \in [CPU -> Context]
        /\ ctx' \in [CPU -> Context \cup {NULL}] /\ pc' \in [CPU -> Points]
    BY <1>a, <1>b, Zenon DEF TypeOK, Points
  <2>2. asid_bitmap' \subseteq 0..(NumAsid - 1) /\ 0 \in asid_bitmap'
    <3>1. asid_bitmap \subseteq 0..(NumAsid - 1) /\ 0 \in asid_bitmap /\ a \in 0..(NumAsid - 1)
      BY DEF TypeOK
    <3>2. QED
      BY <3>1, Zenon
  <2>3. tlb_pending' \subseteq CPU /\ asid_lock' \in CPU \cup {NULL}
    BY <1>b, <1>c, Zenon DEF TypeOK
  <2>4. QED
    BY <1>c, <2>1, <2>2, <2>3, Zenon DEF TypeOK
<1>2. PointInv'
  BY <1>a, <1>b DEF TypeOK, PointInv
<1>3. TtbrInv'
  <2>1. ASSUME NEW d \in CPU, d # c, pc[d] # "idle"
        PROVE  asid_ctx'[cur[d]] = asid_ctx[cur[d]] /\ tlb'[d] = tlb[d]
    BY <1>a, <1>c, <1>e, <2>1 DEF PointInv
  <2>2. QED
    BY <1>a, <1>f, <2>1 DEF TtbrInv
<1>4. GenInv'
  <2>1. WellFormed(x)
    BY <1>a DEF TypeOK, WellFormed
  <2>2. \A p \in Proc : WellFormed(asid_ctx[p])'
    BY <1>e, <2>1, Zenon DEF GenInv, WellFormed
  <2>3. \A d \in CPU : WellFormed(asid_active[d])' /\ WellFormed(asid_reserved[d])'
    BY <1>f, <1>g, <1>h, <2>1 DEF GenInv, WellFormed
  <2>4. QED
    BY <1>a, <1>c, <1>f, <2>2, <2>3 DEF GenInv
<1>5. RunInv'
  <2>1. ASSUME NEW d \in CPU, d # c, pc[d] \in Running
        PROVE  /\ cur[d] \in Proc /\ cur[d] # cur[c]
               /\ asid_active[d] = NoCtx => asid_reserved'[d] = asid_reserved[d]
    <3>1. cur[d] \in Proc /\ cur[d] # cur[c]
      BY <1>a, <2>1, Zenon DEF PointInv, Running
    <3>2. asid_active[d] = NoCtx => asid_reserved[d] = asid_ctx[cur[d]] /\ asid_ctx[cur[d]] # NoCtx
      BY <2>1, Zenon DEF RunInv
    <3>3. asid_active[d] = NoCtx => asid_reserved[d] # asid_ctx[cur[c]]
      BY <1>a, <3>1, <3>2 DEF NumberInv
    <3>4. QED
      BY <1>g, <1>h, <3>1, <3>3, Zenon
  <2>2. QED
    BY <1>a, <1>c, <1>e, <1>f, <2>1 DEF RunInv, Running
<1>6. NumberInv'
  <2>1. ~Sweeping'
    BY <1>a, <1>f DEF Sweeping
  <2>2. \A n : n # a /\ Issued(n)' => Issued(n)
    BY <1>a, <1>d, <1>e, <1>f, Pairs DEF Issued, Asid
  <2>3. \A p, q \in Proc : asid_ctx'[p] = asid_ctx'[q] /\ asid_ctx'[p] # NoCtx => p = q
    BY <1>e, <1>i DEF NumberInv
  <2>4. \A d \in CPU : Asid(asid_reserved'[d]) = Asid(asid_reserved[d])
    BY <1>a, <1>g, <1>h, Zenon
  <2>5. \A b, d \in CPU : Asid(asid_reserved'[b]) = Asid(asid_reserved'[d]) =>
                            asid_reserved'[b] = asid_reserved'[d]
    BY <1>g, <1>h, <2>4 DEF NumberInv
  <2>6. (\A d \in CPU : asid_reserved[d] # NoCtx /\ Issued(Asid(asid_reserved[d])) =>
                            Generation(asid_reserved[d]) = asid_generation)'
    BY <1>a, <1>g, <1>h, <2>2, <2>4 DEF NumberInv
  <2>7. /\ \A d \in CPU : Asid(asid_reserved'[d]) \in asid_bitmap'
        /\ \A p \in Proc : Generation(asid_ctx'[p]) = asid_generation =>
                            Asid(asid_ctx'[p]) \in asid_bitmap'
        /\ \A d \in CPU \ tlb_pending' : \A e \in tlb'[d] : e[1] \in asid_bitmap'
    BY <1>a, <1>d, <1>e, <2>4, Zenon DEF NumberInv
  <2>8. QED
    BY <2>1, <2>3, <2>5, <2>6, <2>7, Zenon DEF NumberInv
<1>7. CleanInv'
  <2>1. \A p \in Proc : InExec(p) => InExec(p)'
    BY <1>f, Zenon DEF InExec
  <2>2. \A d \in CPU : pc[d] = "exec" => cur[d] # cur[c]
    BY <1>a, Zenon DEF PointInv
  <2>3. ASSUME NEW d \in CPU \ tlb_pending, NEW e \in tlb[d]
        PROVE  /\ e[1] # 0
               /\ e[2] \in Proc => asid_ctx'[e[2]] = <<asid_generation, e[1]>>
               /\ e[2] = NULL => \A p \in Proc :
                                asid_ctx'[p] = <<asid_generation, e[1]>> => InExec(p)'
    <3>1. CASE asid_ctx[cur[c]] = x
      BY <1>e, <2>1, <2>3, <3>1, ZenonT(40) DEF CleanInv
    <3>2. CASE asid_ctx[cur[c]] # x
      <4>1. e[1] # a
        BY <1>i, <2>3, <3>2, Zenon
      <4>2. x # <<asid_generation, e[1]>>
        BY <4>1, Zenon DEF x
      <4>3. e[2] = cur[c] => FALSE
        <5>1. SUFFICES ASSUME e[2] = cur[c] PROVE FALSE
          BY Zenon
        <5>2. asid_ctx[cur[c]] = <<asid_generation, e[1]>>
          BY <1>a, <2>3, <5>1, Zenon DEF CleanInv
        <5>3. QED
          BY <1>i, <3>2, <5>2 DEF Generation
      <4>4. QED
        BY <1>e, <2>1, <2>3, <4>2, <4>3, Zenon DEF CleanInv
    <3>3. QED
      BY <3>1, <3>2, Zenon
  <2>4. ASSUME NEW d \in CPU \ tlb_pending', pc'[d] = "exiting", NEW p \in Proc,
               asid_ctx'[p] = <<asid_generation, ttbr[d][1]>>
        PROVE  FALSE
    <3>1. d # c /\ pc[d] = "exiting" /\ d \notin tlb_pending /\ ttbr[d] \in tlb[d]
      BY <1>c, <1>f, <2>4, Zenon DEF TtbrInv
    <3>2. \A q \in Proc : asid_ctx[q] # <<asid_generation, ttbr[d][1]>>
      BY <3>1, Zenon DEF CleanInv
    <3>3. x = <<asid_generation, ttbr[d][1]>> /\ asid_ctx[cur[c]] # x
      BY <1>a, <1>e, <2>4, <3>2, Zenon
    <3>4. ttbr[d][1] = a
      BY <3>3, Zenon DEF x
    <3>5. QED
      BY <1>i, <3>1, <3>3, <3>4, Zenon
  <2>5. QED
    BY <1>d, <2>3, <2>4, ZenonT(40) DEF CleanInv
<1>8. OwnInv'
  <2>1. ASSUME NEW e \in tlb'[c], e[1] = a PROVE e[2] = cur[c]
    <3>1. c \notin tlb_pending /\ e \in tlb[c]
      BY <1>c, <2>1, Zenon
    <3>2. asid_ctx[cur[c]] = x
      BY <1>i, <2>1, <3>1, Zenon
    <3>3. ~InExec(cur[c])
      BY <1>a, Zenon DEF InExec, PointInv
    <3>4. e[1] = Asid(asid_ctx[cur[c]]) /\ Generation(asid_ctx[cur[c]]) = asid_generation
      BY <1>a, <2>1, <3>2, Zenon
    <3>5. QED
      BY <1>a, <3>1, <3>2, <3>3, <3>4, CleanIsOwn, Zenon
  <2>2. ASSUME NEW d \in CPU, d # c, pc[d] \in Running
        PROVE  asid_ctx'[cur[d]] = asid_ctx[cur[d]] /\ tlb'[d] = tlb[d]
    BY <1>a, <1>c, <1>e, <2>2 DEF PointInv, Running
  <2>3. Asid(asid_ctx'[cur[c]]) = a
    BY <1>a, <1>e, Zenon
  <2>4. ASSUME NEW d \in CPU, pc'[d] \in Running, NEW e \in tlb'[d],
               e[1] = Asid(asid_ctx'[cur[d]])
        PROVE  e[2] = cur[d] \/ (e[2] = NULL /\ pc'[d] = "exec")
    <3>1. CASE d = c
      BY <2>1, <2>3, <2>4, <3>1, Zenon
    <3>2. CASE d # c
      BY <1>f, <2>2, <2>4, <3>2 DEF OwnInv
    <3>3. QED
      BY <3>1, <3>2, Zenon
  <2>5. QED
    BY <2>4, Zenon DEF OwnInv
<1>9. QED
  BY <1>1, <1>2, <1>3, <1>4, <1>5, <1>6, <1>7, <1>8, Zenon DEF IInv

\* SlowCurrent keeps the invariant: the number is the one the process has.
LEMMA SlowCurrentStep ==
    ASSUME IInv, NEW c \in CPU, SlowCurrent(c)
    PROVE  IInv'
<1> DEFINE a == Asid(asid_ctx[cur[c]])
<1> USE Constants
<1>1. /\ pc[c] = "slow" /\ cur[c] \in Proc /\ ~Sweeping
      /\ asid_ctx[cur[c]] = <<asid_generation, a>>
  BY Pairs DEF SlowCurrent, IInv, TypeOK, PointInv, Sweeping
<1>2. a \in 1..(NumAsid - 1) /\ asid_ctx[cur[c]] # NoCtx
  <2>1. asid_ctx[cur[c]] # NoCtx
    BY <1>1 DEF IInv, TypeOK, NoCtx
  <2>2. a # 0 /\ a \in 0..(NumAsid - 1)
    BY <1>1, <2>1, Pairs, Zenon DEF IInv, TypeOK, GenInv, WellFormed
  <2>3. QED
    BY <2>1, <2>2
<1>3. a \in asid_bitmap
  BY <1>1 DEF IInv, NumberInv, Generation, Asid
<1>4. \A p \in Proc \ {cur[c]} : asid_ctx[p] # <<asid_generation, a>>
  BY <1>1, <1>2 DEF IInv, NumberInv
<1>5. \A d \in CPU : Asid(asid_reserved[d]) = a => asid_reserved[d] = <<asid_generation, a>>
  <2>1. Issued(a)
    BY <1>1, Zenon DEF Issued
  <2>2. ASSUME NEW d \in CPU, Asid(asid_reserved[d]) = a
        PROVE  asid_reserved[d] = <<asid_generation, a>>
    <3>1. asid_reserved[d] # NoCtx
      BY <1>2, <2>2 DEF NoCtx, Asid
    <3>2. Generation(asid_reserved[d]) = asid_generation
      BY <2>1, <2>2, <3>1, Zenon DEF IInv, NumberInv
    <3>3. QED
      BY <2>2, <3>2, Pairs, Zenon DEF IInv, TypeOK
  <2>3. QED
    BY <2>2, Zenon
<1> HIDE DEF a
<1>6. /\ Leave(c, <<asid_generation, a>>) /\ FlushIfPending(c, tlb_pending)
      /\ asid_bitmap' = asid_bitmap \cup {a}
      /\ UNCHANGED <<asid_generation, asid_next, asid_reserved, swept, cur, gen, old, ttbr>>
  BY <1>1, <1>3, Zenon DEF SlowCurrent
<1>7. asid_next' \in Nat \ {0} /\ asid_reserved' \in [CPU -> Context]
  BY <1>6, Zenon DEF IInv, TypeOK
<1>8. QED
  BY <1>1, <1>2, <1>4, <1>5, <1>6, <1>7, GiveOut, Zenon

\* SlowCarried keeps the invariant: a number that is reserved for an older generation
\* was not given out in this one.
LEMMA SlowCarriedStep ==
    ASSUME IInv, NEW c \in CPU, SlowCarried(c)
    PROVE  IInv'
<1> DEFINE x == asid_ctx[cur[c]]
           a == Asid(x)
<1> USE Constants
<1>1. /\ pc[c] = "slow" /\ cur[c] \in Proc /\ ~Sweeping /\ x \in Context /\ x # NoCtx
      /\ Generation(x) # asid_generation
  BY DEF SlowCarried, Stale, Carried, IInv, TypeOK, PointInv, Sweeping
<1>2. a \in 1..(NumAsid - 1)
  <2>1. a # 0 /\ a \in 0..(NumAsid - 1)
    BY <1>1, Pairs, Zenon DEF IInv, GenInv, WellFormed
  <2>2. QED
    BY <2>1
<1>3. PICK r \in CPU : asid_reserved[r] = x
  BY Zenon DEF SlowCarried, Carried
<1>4. ~Issued(a)
  BY <1>1, <1>3, Zenon DEF IInv, NumberInv
<1>5. a \in asid_bitmap
  BY <1>1, <1>3, Zenon DEF IInv, NumberInv
<1>6. \A p \in Proc \ {cur[c]} : asid_ctx[p] # <<asid_generation, a>>
  BY <1>4, Zenon DEF Issued
<1>7. \A d \in CPU \ tlb_pending : \A e \in tlb[d] : e[1] # a
  BY <1>4, Zenon DEF Issued
<1>8. \A d \in CPU : Asid(asid_reserved[d]) = a <=> asid_reserved[d] = x
  BY <1>3, Zenon DEF IInv, NumberInv
<1>9. /\ Leave(c, <<asid_generation, a>>) /\ FlushIfPending(c, tlb_pending)
      /\ asid_bitmap' = asid_bitmap \cup {a}
      /\ asid_reserved' = [d \in CPU |-> IF asid_reserved[d] = x THEN <<asid_generation, a>>
                                         ELSE asid_reserved[d]]
      /\ UNCHANGED <<asid_generation, asid_next, swept, cur, gen, old, ttbr>>
  <2>1. Carried(x) = {d \in CPU : asid_reserved[d] = x} /\ Renewed(x) = <<asid_generation, a>>
    BY <1>1, Zenon DEF Carried, Renewed
  <2>2. QED
    BY <1>5, <2>1, Zenon DEF SlowCarried
<1>10. <<asid_generation, a>> \in Context
  BY <1>2 DEF IInv, TypeOK, Context
<1> HIDE DEF a, x
<1>11. asid_next' \in Nat \ {0} /\ asid_reserved' \in [CPU -> Context]
  BY <1>9, <1>10, Zenon DEF IInv, TypeOK
<1>12. \A d \in CPU :
         IF Asid(asid_reserved[d]) = a
         THEN asid_reserved[d] = x /\ asid_reserved'[d] = <<asid_generation, a>>
         ELSE asid_reserved'[d] = asid_reserved[d]
  BY <1>8, <1>9, Zenon
<1>13. QED
  BY <1>1, <1>2, <1>6, <1>7, <1>9, <1>11, <1>12, GiveOut DEF x

\* A number that is free in the bitmap may be given out.
LEMMA GiveFree ==
    ASSUME IInv, NEW c \in CPU, Stale(c), NEW a \in (1..(NumAsid - 1)) \ asid_bitmap,
           Leave(c, <<asid_generation, a>>), FlushIfPending(c, tlb_pending),
           asid_next' \in Nat \ {0}, asid_bitmap' = asid_bitmap \cup {a},
           UNCHANGED <<asid_generation, asid_reserved, swept, cur, gen, old, ttbr>>
    PROVE  IInv'
<1>1. /\ pc[c] = "slow" /\ ~Sweeping /\ Generation(asid_ctx[cur[c]]) # asid_generation
  BY Zenon DEF Stale, IInv, PointInv, Sweeping
<1>2. \A p \in Proc : asid_ctx[p] # <<asid_generation, a>>
  BY <1>1 DEF IInv, NumberInv, Generation, Asid
<1>3. \A d \in CPU \ tlb_pending : \A e \in tlb[d] : e[1] # a
  BY <1>1 DEF IInv, NumberInv
<1>4. \A d \in CPU : Asid(asid_reserved[d]) # a
  BY <1>1, Zenon DEF IInv, NumberInv
<1>5. asid_reserved' \in [CPU -> Context]
  BY Zenon DEF IInv, TypeOK
<1>6. QED
  BY <1>1, <1>2, <1>3, <1>4, <1>5, GiveOut, Zenon

\* SlowKept keeps the invariant.
LEMMA SlowKeptStep ==
    ASSUME IInv, NEW c \in CPU, SlowKept(c)
    PROVE  IInv'
<1> DEFINE a == Asid(asid_ctx[cur[c]])
<1>1. a \in (1..(NumAsid - 1)) \ asid_bitmap
  <2>1. cur[c] \in Proc /\ a \notin asid_bitmap
    BY Zenon DEF SlowKept, Stale, Keepable, IInv, PointInv
  <2>2. a \in 0..(NumAsid - 1) /\ 0 \in asid_bitmap
    BY <2>1, Pairs, Zenon DEF IInv, TypeOK
  <2>3. QED
    BY <2>1, <2>2, Constants
<1>2. /\ Stale(c) /\ Leave(c, <<asid_generation, a>>) /\ FlushIfPending(c, tlb_pending)
      /\ asid_bitmap' = asid_bitmap \cup {a}
      /\ UNCHANGED <<asid_generation, asid_next, asid_reserved, swept, cur, gen, old, ttbr>>
  BY Zenon DEF SlowKept, Renewed
<1>3. asid_next' \in Nat \ {0}
  BY <1>2, Zenon DEF IInv, TypeOK
<1>4. QED
  BY <1>1, <1>2, <1>3, GiveFree, Zenon

\* SlowNew keeps the invariant.
LEMMA SlowNewStep ==
    ASSUME IInv, NEW c \in CPU, SlowNew(c)
    PROVE  IInv'
<1>1. PICK a \in (1..(NumAsid - 1)) \ asid_bitmap :
      /\ Leave(c, <<asid_generation, a>>) /\ FlushIfPending(c, tlb_pending)
      /\ asid_bitmap' = asid_bitmap \cup {a} /\ asid_next' = a + 1
  BY Zenon DEF SlowNew, FindZero
<1>2. /\ Stale(c)
      /\ UNCHANGED <<asid_generation, asid_reserved, swept, cur, gen, old, ttbr>>
  BY Zenon DEF SlowNew, NeedsNew
<1>3. asid_next' \in Nat \ {0}
  BY <1>1, <1>2, Constants
<1>4. QED
  BY <1>1, <1>2, <1>3, GiveFree, Zenon

\* When the sweep is done, the numbers in the bitmap are those carried over.
LEMMA SweepDone ==
    ASSUME IInv, NEW c \in CPU, pc[c] = "sweep", swept = CPU
    PROVE  /\ ~Full(asid_bitmap)
           /\ \A d \in CPU : Asid(asid_reserved[d]) \in asid_bitmap /\ asid_active[d] = NoCtx
<1> DEFINE f == [d \in CPU |-> Asid(asid_reserved[d])]
<1>1. /\ asid_bitmap = {0} \cup {Asid(asid_reserved[d]) : d \in CPU}
      /\ \A d \in CPU : asid_active[d] = NoCtx
  BY Zenon DEF IInv, NumberInv, Sweeping
<1>2. f \in [CPU -> 0..NumAsid - 1]
  BY Pairs, Constants, Zenon DEF IInv, TypeOK
<1>3. PICK a \in 1..NumAsid - 1 : \A d \in CPU : f[d] # a
  BY <1>2, AsidAssumption, Zenon
<1>4. a \notin asid_bitmap
  BY <1>1, <1>3, Constants
<1>5. QED
  BY <1>1, <1>4, Zenon DEF Full

\* NewGeneration keeps the invariant: nobody else has a context of the new generation,
\* and everybody else owes a flush.
LEMMA NewGenerationStep ==
    ASSUME IInv, NEW c \in CPU, NewGeneration(c)
    PROVE  IInv'
<1> USE Constants
<1> DEFINE G == asid_generation + 1
<1>p. PICK a \in (1..(NumAsid - 1)) \ asid_bitmap :
      /\ asid_generation' = G /\ asid_bitmap' = asid_bitmap \cup {a} /\ asid_next' = a + 1
      /\ Leave(c, <<G, a>>)
  BY Zenon DEF NewGeneration, FindZero
<1> DEFINE x == <<G, a>>
<1>a. /\ pc[c] = "sweep" /\ swept = CPU /\ cur[c] \in Proc /\ ttbr[c] = Reserved
      /\ asid_generation \in Nat \ {0}
  BY Zenon DEF NewGeneration, IInv, TypeOK, PointInv, TtbrInv
<1>b. /\ a \in (1..(NumAsid - 1)) \ asid_bitmap
      /\ \A d \in CPU : Asid(asid_reserved[d]) \in asid_bitmap /\ asid_active[d] = NoCtx
  BY <1>p, <1>a, SweepDone, Zenon
<1>c. /\ asid_generation' = G /\ asid_bitmap' = asid_bitmap \cup {a} /\ asid_next' = a + 1
      /\ pc' = [pc EXCEPT ![c] = "install"] /\ ctx' = [ctx EXCEPT ![c] = x]
      /\ asid_ctx' = [asid_ctx EXCEPT ![cur[c]] = x]
      /\ asid_active' = [asid_active EXCEPT ![c] = x] /\ asid_lock' = NULL
      /\ tlb_pending' = CPU \ {c} /\ swept' = {}
      /\ UNCHANGED <<asid_reserved, cur, gen, old, ttbr>>
  BY <1>p, Zenon DEF NewGeneration, Leave, Goto, FlushIfPending
<1>d. /\ tlb' \in [CPU -> SUBSET Entry] /\ tlb'[c] = {}
      /\ \A d \in CPU : d # c => tlb'[d] = tlb[d]
  BY <1>a, Zenon DEF NewGeneration, FlushIfPending, IInv, TypeOK
<1>e. /\ x \in Context /\ x # NoCtx /\ Generation(x) = G /\ Asid(x) = a /\ G \in Nat \ {0}
  BY <1>a, <1>b DEF Context, NoCtx, Generation, Asid
<1>f. \A y : WellFormed(y) => Generation(y) \notin Nat \/ Generation(y) < G
  BY <1>a DEF WellFormed, NoCtx, Generation
<1> HIDE DEF x
<1>g. /\ \A p \in Proc : asid_ctx'[p] = IF p = cur[c] THEN x ELSE asid_ctx[p]
      /\ \A d \in CPU : asid_active'[d] = IF d = c THEN x ELSE NoCtx
      /\ \A d \in CPU : pc'[d] = IF d = c THEN "install" ELSE pc[d]
  BY <1>a, <1>b, <1>c, Zenon DEF IInv, TypeOK
<1>h. /\ \A p \in Proc : Generation(asid_ctx[p]) # G
      /\ \A d \in CPU : Generation(asid_reserved[d]) # G
  BY <1>f, Pairs, <1>a DEF IInv, TypeOK, GenInv
<1>i. ~Sweeping'
  BY <1>a, <1>g DEF IInv, PointInv, Sweeping
<1>1. TypeOK'
  <2>1. /\ asid_ctx' \in [Proc -> Context] /\ asid_active' \in [CPU -> Context]
        /\ ctx' \in [CPU -> Context \cup {NULL}] /\ pc' \in [CPU -> Points]
    BY <1>c, <1>e, Zenon DEF IInv, TypeOK, Points
  <2>2. asid_bitmap' \subseteq 0..(NumAsid - 1) /\ 0 \in asid_bitmap'
    BY <1>b, <1>c DEF IInv, TypeOK
  <2>3. /\ tlb_pending' \subseteq CPU /\ asid_lock' \in CPU \cup {NULL} /\ swept' \subseteq CPU
        /\ asid_next' \in Nat \ {0} /\ asid_generation' \in Nat \ {0}
    BY <1>b, <1>c, <1>e
  <2>4. QED
    BY <1>c, <1>d, <2>1, <2>2, <2>3, Zenon DEF IInv, TypeOK
<1>2. PointInv'
  BY <1>a, <1>c DEF IInv, TypeOK, PointInv
<1>3. TtbrInv'
  <2>1. ASSUME NEW d \in CPU, d # c, pc[d] # "idle"
        PROVE  asid_ctx'[cur[d]] = asid_ctx[cur[d]] /\ tlb'[d] = tlb[d]
    BY <1>a, <1>d, <1>g, <2>1 DEF IInv, PointInv
  <2>2. QED
    BY <1>a, <1>c, <1>g, <2>1 DEF IInv, TtbrInv
<1>4. GenInv'
  <2>1. \A y \in Context : WellFormed(y) =>
            y = NoCtx \/ (Asid(y) # 0 /\ Generation(y) # 0 /\ Generation(y) <= G)
    BY <1>a, Pairs DEF WellFormed
  <2>2. Asid(x) # 0 /\ Generation(x) # 0 /\ Generation(x) <= G
    BY <1>b, <1>e
  <2>3. \A p \in Proc : WellFormed(asid_ctx[p])'
    BY <1>c, <1>g, <2>1, <2>2 DEF IInv, TypeOK, GenInv, WellFormed
  <2>4. \A d \in CPU : WellFormed(asid_active[d])' /\ WellFormed(asid_reserved[d])'
    BY <1>c, <1>g, <2>1, <2>2 DEF IInv, TypeOK, GenInv, WellFormed
  <2>5. QED
    BY <1>c, <1>e, <1>g, <2>3, <2>4 DEF GenInv
<1>5. RunInv'
  <2>1. ASSUME NEW d \in CPU, d # c, pc[d] \in Running
        PROVE  cur[d] \in Proc /\ cur[d] # cur[c]
    BY <1>a, <2>1, Zenon DEF IInv, PointInv, Running
  <2>2. ASSUME NEW d \in CPU, d # c, pc[d] \in Running
        PROVE  /\ asid_ctx'[cur[d]] # NoCtx
               /\ asid_active'[d] = NoCtx /\ asid_ctx'[cur[d]] = asid_reserved[d]
               /\ d \in tlb_pending'
    BY <1>b, <1>c, <1>g, <2>1, <2>2 DEF IInv, RunInv
  <2>3. asid_ctx'[cur[c]] = x /\ asid_active'[c] = x
    BY <1>a, <1>g, Zenon
  <2>4. QED
    BY <1>c, <1>e, <1>g, <2>2, <2>3 DEF RunInv
<1>6. NumberInv'
  <2>1. \A n : Issued(n)' => n = a
    <3>1. \A n : x = <<G, n>> => n = a
      BY DEF x
    <3>2. \A n : NoCtx # <<G, n>>
      BY <1>e, Zenon DEF NoCtx
    <3>3. \A n : \A p \in Proc : asid_ctx[p] # <<G, n>>
      BY <1>h DEF Generation
    <3>4. \A n : (\E p \in Proc : asid_ctx'[p] = <<G, n>>) => n = a
      BY <1>g, <3>1, <3>3, Zenon
    <3>5. \A n : (\E d \in CPU : asid_active'[d] = <<G, n>>) => n = a
      BY <1>g, <3>1, <3>2, Zenon
    <3>6. \A d \in CPU \ tlb_pending' : tlb'[d] = {}
      BY <1>c, <1>d, Zenon
    <3>7. QED
      BY <1>c, <3>4, <3>5, <3>6, Zenon DEF Issued
  <2>2. \A p, q \in Proc : asid_ctx'[p] = asid_ctx'[q] /\ asid_ctx'[p] # NoCtx => p = q
    BY <1>e, <1>g, <1>h DEF IInv, NumberInv
  <2>3. \A d \in CPU : Asid(asid_reserved[d]) # a
    BY <1>b, Zenon
  <2>4. /\ \A d \in CPU : Asid(asid_reserved'[d]) \in asid_bitmap'
        /\ \A p \in Proc : Generation(asid_ctx'[p]) = G => Asid(asid_ctx'[p]) \in asid_bitmap'
        /\ \A d \in CPU \ tlb_pending' : \A e \in tlb'[d] : e[1] \in asid_bitmap'
    BY <1>b, <1>c, <1>d, <1>e, <1>g, <1>h
  <2>5. (\A d \in CPU : asid_reserved[d] # NoCtx /\ Issued(Asid(asid_reserved[d])) =>
                            Generation(asid_reserved[d]) = asid_generation)'
    BY <1>c, <2>1, <2>3, Zenon
  <2>6. (\A b, d \in CPU : Asid(asid_reserved[b]) = Asid(asid_reserved[d]) =>
                            asid_reserved[b] = asid_reserved[d])'
    BY <1>c, Zenon DEF IInv, NumberInv
  <2>7. QED
    BY <1>c, <1>i, <2>2, <2>4, <2>5, <2>6, Zenon DEF NumberInv
<1>7. CleanInv'
  BY <1>c, <1>d, <1>g DEF CleanInv
<1>8. OwnInv'
  <2>1. ASSUME NEW d \in CPU, d # c, pc[d] \in Running
        PROVE  asid_ctx'[cur[d]] = asid_ctx[cur[d]] /\ tlb'[d] = tlb[d]
    BY <1>a, <1>d, <1>g, <2>1 DEF IInv, PointInv, Running
  <2>2. QED
    BY <1>c, <1>d, <1>g, <2>1 DEF IInv, OwnInv
<1>9. QED
  BY <1>1, <1>2, <1>3, <1>4, <1>5, <1>6, <1>7, <1>8, Zenon DEF IInv

-----------------------------------------------------------------------------
\* The invariant holds in every reachable state.
THEOREM AsidInvariant == Spec => []IInv
<1>1. Init => IInv
  BY InitIInv
<1>2. IInv /\ [Next]_vars => IInv'
  <2> SUFFICES ASSUME IInv, [Next]_vars PROVE IInv'
    OBVIOUS
  <2>1. ASSUME NEW c \in CPU, NEW p \in Proc, Dispatch(c, p) PROVE IInv'
    BY <2>1, DispatchStep
  <2>2. ASSUME NEW c \in CPU, Step(c) PROVE IInv'
    <3>1. CASE SwitchBack(c) \/ ReadGeneration(c) \/ ReadActive(c) \/ FastPath(c) \/ SlowPath(c)
      BY <3>1, SwitchBackStep, ReadGenerationStep, ReadActiveStep, FastPathStep, SlowPathStep, Zenon
    <3>2. CASE SlowCurrent(c) \/ SlowCarried(c) \/ SlowKept(c) \/ SlowNew(c)
      BY <3>2, SlowCurrentStep, SlowCarriedStep, SlowKeptStep, SlowNewStep
    <3>3. CASE Rollover(c) \/ (\E d \in CPU : Sweep(c, d)) \/ NewGeneration(c)
      BY <3>3, RolloverStep, SweepStep, NewGenerationStep
    <3>4. CASE Install(c) \/ ExecSwitch(c) \/ ExecFlush(c) \/ Exit(c)
      BY <3>4, InstallStep, ExecSwitchStep, ExecFlushStep, ExitStep
    <3>5. QED
      BY <2>2, <3>1, <3>2, <3>3, <3>4, Zenon DEF Step
  <2>3. CASE UNCHANGED vars
    <3> USE <2>3 DEF vars, allocVars, localVars, mmuVars, IInv
    <3>1. TypeOK' /\ PointInv' /\ TtbrInv'
      BY Zenon DEF TypeOK, PointInv, TtbrInv
    <3>2. GenInv' /\ RunInv' /\ OwnInv'
      BY Zenon DEF GenInv, WellFormed, RunInv, OwnInv
    <3>3. NumberInv'
      BY DEF NumberInv, Issued, Sweeping
    <3>4. CleanInv'
      BY DEF CleanInv, InExec
    <3>5. QED
      BY <3>1, <3>2, <3>3, <3>4, Zenon
  <2>4. QED
    BY <2>1, <2>2, <2>3 DEF Next, Idle
<1>3. QED
  BY <1>1, <1>2, PTL DEF Spec

\* What the ASID allocator is for: a process in user mode never meets a TLB entry of
\* another process's table or of one that was replaced or freed, whatever
\* asid_switch(), flush_context(), exec() and exit() do on other CPUs.
THEOREM NeverStale == Spec => []NoStaleTranslation
<1>1. IInv => NoStaleTranslation
  BY DEF IInv, TtbrInv, OwnInv, Running, NoStaleTranslation
<1>2. QED
  BY <1>1, AsidInvariant, PTL

\* Different processes that run use different ASIDs, also across a rollover of
\* flush_context() that one of them has not noticed.
THEOREM DistinctAsids == Spec => []RunningAsidsDistinct
<1>1. ASSUME IInv, NEW c \in CPU, NEW d \in CPU,
             pc[c] \in {"user", "exec"}, pc[d] \in {"user", "exec"}, cur[c] # cur[d],
             ttbr[c][1] = ttbr[d][1],
             Generation(asid_ctx[cur[c]]) # asid_generation
      PROVE  FALSE
  <2> DEFINE n == Asid(asid_ctx[cur[c]])
  <2>1. /\ cur[c] \in Proc /\ cur[d] \in Proc
        /\ asid_ctx[cur[c]] # NoCtx /\ asid_ctx[cur[d]] # NoCtx /\ Asid(asid_ctx[cur[d]]) = n
    BY <1>1 DEF IInv, PointInv, TtbrInv, RunInv, Running
  <2>2. asid_ctx[cur[c]] = asid_reserved[c]
    BY <1>1, Zenon DEF IInv, RunInv, GenInv, Running
  <2>3. asid_ctx[cur[c]] # asid_ctx[cur[d]]
    BY <1>1, <2>1, Zenon DEF IInv, NumberInv
  <2>4. CASE Generation(asid_ctx[cur[d]]) = asid_generation
    <3>1. asid_ctx[cur[d]] = <<asid_generation, n>>
      BY <2>1, <2>4, Pairs, <1>1, Zenon DEF IInv, TypeOK
    <3>2. Issued(n)
      BY <2>1, <3>1, Zenon DEF Issued
    <3>3. QED
      BY <1>1, <2>1, <2>2, <3>2, Zenon DEF IInv, NumberInv
  <2>5. CASE Generation(asid_ctx[cur[d]]) # asid_generation
    <3>1. asid_ctx[cur[d]] = asid_reserved[d]
      BY <1>1, <2>5, Zenon DEF IInv, RunInv, GenInv, Running
    <3>2. QED
      BY <1>1, <2>1, <2>2, <2>3, <3>1 DEF IInv, NumberInv
  <2>6. QED
    BY <2>4, <2>5
<1>2. ASSUME IInv, NEW c \in CPU, NEW d \in CPU,
             pc[c] \in {"user", "exec"}, pc[d] \in {"user", "exec"}, cur[c] # cur[d],
             ttbr[c][1] = ttbr[d][1]
      PROVE  FALSE
  <2>1. /\ Generation(asid_ctx[cur[c]]) = asid_generation
        /\ Generation(asid_ctx[cur[d]]) = asid_generation
    BY <1>1, <1>2, Zenon
  <2>2. /\ cur[c] \in Proc /\ cur[d] \in Proc /\ asid_ctx[cur[c]] # NoCtx
        /\ Asid(asid_ctx[cur[c]]) = Asid(asid_ctx[cur[d]])
    BY <1>2 DEF IInv, PointInv, TtbrInv, RunInv, Running
  <2>3. asid_ctx[cur[c]] = asid_ctx[cur[d]]
    <3>1. asid_ctx[cur[c]] \in Context /\ asid_ctx[cur[d]] \in Context
      BY <1>2, <2>2, Zenon DEF IInv, TypeOK
    <3>2. QED
      BY <2>1, <2>2, <3>1, Pairs, Zenon
  <2>4. QED
    BY <1>2, <2>2, <2>3, Zenon DEF IInv, NumberInv
<1>3. IInv => RunningAsidsDistinct
  BY <1>2 DEF RunningAsidsDistinct
<1>4. QED
  BY <1>3, AsidInvariant, PTL

\* The KASSERT of new_context() never fails.
THEOREM RolloverSucceeds == Spec => []RolloverFindsOne
<1>1. IInv => RolloverFindsOne
  <2>1. ASSUME IInv, NEW c \in CPU, pc[c] = "sweep", swept = CPU
        PROVE  ~Full(asid_bitmap)
    BY <2>1, SweepDone
  <2>2. QED
    BY <2>1 DEF RolloverFindsOne
<1>2. QED
  BY <1>1, AsidInvariant, PTL
=============================================================================
