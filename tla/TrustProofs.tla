---------------------------- MODULE TrustProofs -----------------------------
(***************************************************************************)
(* Theorems about what a connection trusts: the certificates of CertStore, *)
(* for every content of roots.pem and every number of certificates, the    *)
(* sessions of SessionLru, for every capacity and every sequence of calls, *)
(* and X509Minimal, for chains of any length, any certificates and any     *)
(* number of chains in one context.                                        *)
(*                                                                         *)
(* CertStore.  The invariant says, for each phase of wm_cert_store_init,   *)
(* how far the array is filled and that what is left of the file and of    *)
(* the compiled-in certificates still fits.                                *)
(*                                                                         *)
(* SessionLru.  The invariant has a set of entries for every link of the   *)
(* search tree and a sequence of entries for the list of use; each write   *)
(* of ssl_lru.c is shown to leave such sets and such a sequence, and that  *)
(* sequence, read as sessions, is the one of AbstractLru.                  *)
(*                                                                         *)
(* X509Minimal.  The invariant says, for every place where                 *)
(* decode-certificate may wait, what the context has kept of the           *)
(* certificates read and what is known of the one being read.              *)
(***************************************************************************)
EXTENDS CertStore, SessionLru, X509Minimal, SequenceTheorems, FiniteSetTheorems,
        WellFoundedInduction, TLAPS

\* The array of this initialisation exists.
Allocated == call.pc \in {"reopen", "load", "builtin"} \/ store.initialized

\* The file is done with.
Loaded == call.pc = "builtin" \/ store.initialized

Fits == Len(call.text) <= call.external_count

Wanted(k) ==
  /\ call.text[k] = [body |-> "ca", ended |-> TRUE]
  /\ k > 1 => call.text[k - 1].ended

\* The counters agree with each other and with the array.
Counted ==
  /\ store.initialized => call.pc = "idle"
  /\ Allocated =>
       /\ capacity = PublicCount + call.external_count
       /\ store.count = call.next
       /\ call.next <= capacity
       /\ \A k \in 1..store.count : store.anchors[k] # Blank

\* What is left of the file, and the certificates compiled in, have room.
Room ==
  /\ call.pc = "reopen" =>
       call.text = <<>> /\ call.p = 1 /\ call.i = 1 /\ call.next = 0
  /\ call.pc = "load" =>
       /\ call.i = 1
       /\ call.next < call.p
       /\ call.p <= Len(call.text) + 1
       /\ call.p > 1 => call.text[call.p - 1].ended
  /\ Loaded /\ Fits => call.next < call.external_count + call.i
  /\ store.initialized /\ Fits => call.i = PublicCount + 1

\* What was dealt with is among the anchors.
Added ==
  Fits =>
    /\ call.pc = "load" =>
         \A k \in 1..(call.p - 1) : Wanted(k) => <<"file", k>> \in Given
    /\ Loaded =>
         /\ \A k \in 1..Len(call.text) : Wanted(k) => <<"file", k>> \in Given
         /\ \A j \in Decodable : j < call.i => <<"built in", j>> \in Given

IInv == TypeOK /\ Counted /\ Room /\ Added

-----------------------------------------------------------------------------
(* AddAnchor puts an anchor on the next place and keeps the others, so that
   everything given stays given. *)
LEMMA AddAnchorAdds ==
  ASSUME TypeOK, store.count = call.next, call.next < capacity,
         NEW a \in Anchor, AddAnchor(a)
  PROVE  /\ store' \in [anchors : Seq(Anchor \cup {Blank}), count : Nat,
                        initialized : BOOLEAN]
         /\ capacity' = capacity
         /\ store'.count = store.count + 1
         /\ store'.initialized = store.initialized
         /\ a \in Given'
         /\ Given \subseteq Given'
         /\ (\A k \in 1..store.count : store.anchors[k] # Blank)
              => \A k \in 1..store'.count : store'.anchors[k] # Blank
<1> DEFINE n == call.next + 1
<1>1. n \in 1..Len(store.anchors) /\ store.count \in Nat /\ n = store.count + 1
  BY DEF TypeOK, capacity
<1>2. /\ store'.anchors = [store.anchors EXCEPT ![n] = a]
      /\ store'.count = n
      /\ store'.initialized = store.initialized
      /\ store' = [anchors |-> store'.anchors, count |-> n,
                   initialized |-> store.initialized]
  BY <1>1 DEF AddAnchor, TypeOK
<1>3. store'.anchors \in Seq(Anchor \cup {Blank})
      /\ Len(store'.anchors) = Len(store.anchors)
  BY <1>1, <1>2 DEF TypeOK
<1>4. store'.anchors[n] = a /\ \A k \in 1..store.count : store'.anchors[k] = store.anchors[k]
  BY <1>1, <1>2 DEF TypeOK
<1>5. a # Blank
  <2>1. a[1] \in {"file", "built in"}
    BY DEF Anchor
  <2>2. Blank[1] = "blank"
    BY DEF Blank
  <2> QED
    BY <2>1, <2>2
<1>6. a \in Given' /\ Given \subseteq Given'
  BY <1>1, <1>2, <1>4 DEF Given
<1>7. (\A k \in 1..store.count : store.anchors[k] # Blank)
        => \A k \in 1..store'.count : store'.anchors[k] # Blank
  BY <1>1, <1>2, <1>4, <1>5
<1> QED
  BY <1>1, <1>2, <1>3, <1>6, <1>7 DEF TypeOK, capacity

(* Clearing the next place changes nothing that was given. *)
LEMMA ClearPlaceKeeps ==
  ASSUME TypeOK, store.count = call.next, call.next < capacity, ClearPlace
  PROVE  /\ store' \in [anchors : Seq(Anchor \cup {Blank}), count : Nat,
                        initialized : BOOLEAN]
         /\ capacity' = capacity
         /\ store'.count = store.count
         /\ store'.initialized = store.initialized
         /\ Given' = Given
         /\ \A k \in 1..store.count : store'.anchors[k] = store.anchors[k]
<1> DEFINE n == call.next + 1
<1>1. n \in 1..Len(store.anchors) /\ store.count \in Nat /\ n = store.count + 1
  BY DEF TypeOK, capacity
<1>2. /\ store'.anchors = [store.anchors EXCEPT ![n] = Blank]
      /\ store'.count = store.count
      /\ store'.initialized = store.initialized
      /\ store' = [anchors |-> store'.anchors, count |-> store.count,
                   initialized |-> store.initialized]
  BY <1>1 DEF ClearPlace, TypeOK
<1>3. store'.anchors \in Seq(Anchor \cup {Blank})
      /\ Len(store'.anchors) = Len(store.anchors)
  BY <1>1, <1>2 DEF TypeOK
<1>4. \A k \in 1..store.count : store'.anchors[k] = store.anchors[k]
  BY <1>1, <1>2 DEF TypeOK
<1>5. Given' = Given
  BY <1>1, <1>2, <1>4 DEF Given
<1> QED
  BY <1>1, <1>2, <1>3, <1>4, <1>5 DEF TypeOK, capacity

-----------------------------------------------------------------------------
(* The initial states satisfy the invariant. *)
LEMMA InitInv == Init => IInv
<1> SUFFICES ASSUME Init PROVE IInv
  OBVIOUS
<1> USE FilesAssumption, CountsAssumption DEF Init, NoStore
<1>1. TypeOK
  BY DEF TypeOK
<1>2. Counted /\ Room /\ Added
  BY DEF Counted, Room, Added, Allocated, Loaded
<1> QED
  BY <1>1, <1>2 DEF IInv

(* Reading the file a first time only chooses the size. *)
LEMMA CountRootsInv == IInv /\ CountRoots => IInv'
<1> SUFFICES ASSUME IInv, CountRoots PROVE IInv'
  OBVIOUS
<1> USE FilesAssumption, CountsAssumption DEF CountRoots
<1>1. PICK text \in {file, <<>>} :
        call' = [call EXCEPT !.pc = "alloc", !.external_count = count_pem_certs(text)]
  OBVIOUS
<1>2. count_pem_certs(text) \in 0..MaxExternal
  BY DEF count_pem_certs, IInv, TypeOK
<1>3. TypeOK'
  BY <1>1, <1>2 DEF IInv, TypeOK
<1>4. call'.pc = "alloc" /\ ~store'.initialized
  BY <1>1 DEF IInv, TypeOK
<1>5. (Counted /\ Room /\ Added)'
  BY <1>4 DEF Counted, Room, Added, Allocated, Loaded
<1> QED
  BY <1>3, <1>5 DEF IInv

(* The array starts empty and large enough. *)
LEMMA AllocInv == IInv /\ (Alloc \/ AllocFails) => IInv'
<1> SUFFICES ASSUME IInv, Alloc \/ AllocFails PROVE IInv'
  OBVIOUS
<1> USE FilesAssumption, CountsAssumption
<1>0. TypeOK /\ ~store.initialized
  BY DEF IInv, Counted, Alloc, AllocFails
<1>1. CASE Alloc
  <2> DEFINE size == PublicCount + call.external_count
  <2>1. size \in Nat /\ call.external_count \in 0..MaxExternal
    BY <1>0 DEF TypeOK
  <2>2. /\ store'.count = 0 /\ ~store'.initialized
        /\ store' \in [anchors : Seq(Anchor \cup {Blank}), count : Nat,
                       initialized : BOOLEAN]
        /\ Len(store'.anchors) = size
        /\ store'.anchors \in Seq(Anchor \cup {Blank})
    <3>1. store' = [store EXCEPT !.anchors = [k \in 1..size |-> Blank], !.count = 0]
      BY <1>1 DEF Alloc
    <3>2. [k \in 1..size |-> Blank] \in Seq(Anchor \cup {Blank})
          /\ Len([k \in 1..size |-> Blank]) = size
      BY <2>1
    <3>3. store'.anchors = [k \in 1..size |-> Blank] /\ store'.count = 0
          /\ store'.initialized = FALSE
      BY <1>0, <3>1 DEF TypeOK
    <3>4. store' \in [anchors : Seq(Anchor \cup {Blank}), count : Nat,
                      initialized : BOOLEAN]
      BY <1>0, <3>1, <3>2 DEF TypeOK
    <3> QED
      BY <3>2, <3>3, <3>4
  <2>3. /\ call'.next = 0 /\ call'.i = 1 /\ call'.text = <<>> /\ call'.p = 1
        /\ call'.external_count = call.external_count
        /\ call'.pc \in {"reopen", "builtin"}
        /\ call.external_count = 0 <=> call'.pc = "builtin"
    BY <1>0, <1>1, <2>1 DEF Alloc, TypeOK
  <2>4. TypeOK'
    <3>1. call' \in [pc : {"reopen", "builtin"}, external_count : 0..MaxExternal,
                     next : Nat, text : Files, p : Nat \ {0},
                     i : 1..(PublicCount + 1)]
      <4>1. PICK pc \in {"reopen", "builtin"} :
              call' = [call EXCEPT !.next = 0, !.i = 1, !.text = <<>>, !.p = 1,
                                   !.pc = pc]
        BY <1>1 DEF Alloc
      <4>2. <<>> \in Files /\ 1 \in 1..(PublicCount + 1)
        OBVIOUS
      <4>3. call' = [pc |-> pc, external_count |-> call.external_count, next |-> 0,
                     text |-> <<>>, p |-> 1, i |-> 1]
        BY <1>0, <4>1, Zenon DEF TypeOK
      <4> QED
        BY <2>1, <4>2, <4>3
    <3> QED
      BY <1>0, <1>1, <2>2, <3>1 DEF Alloc, TypeOK
  <2>5. Counted'
    BY <2>1, <2>2, <2>3 DEF Counted, Allocated, capacity
  <2>6. Room'
    BY <2>1, <2>2, <2>3 DEF Room, Loaded
  <2>7. Added'
    <3>1. call'.text = <<>> /\ Len(call'.text) = 0 /\ call'.i = 1 /\ call'.pc # "load"
      BY <2>3
    <3>2. \A j \in Decodable : ~(j < 1)
      OBVIOUS
    <3>3. (\A k \in 1..Len(call.text) : Wanted(k) => <<"file", k>> \in Given)'
      BY <3>1
    <3>4. (\A j \in Decodable : j < call.i => <<"built in", j>> \in Given)'
      BY <3>1, <3>2
    <3> QED
      BY <3>1, <3>3, <3>4 DEF Added
  <2> QED
    BY <2>4, <2>5, <2>6, <2>7 DEF IInv
<1>2. CASE AllocFails
  <2>1. TypeOK' /\ call'.pc = "idle" /\ ~store'.initialized
    <3>1. <<>> \in Seq(Anchor \cup {Blank})
      OBVIOUS
    <3>2. store' = [store EXCEPT !.anchors = <<>>] /\ call' = [call EXCEPT !.pc = "idle"]
          /\ file' = file
      BY <1>2 DEF AllocFails
    <3> QED
      BY <1>0, <3>1, <3>2 DEF TypeOK
  <2>2. Counted' /\ Room' /\ Added'
    BY <2>1 DEF Counted, Room, Added, Allocated, Loaded
  <2> QED
    BY <2>1, <2>2 DEF IInv
<1> QED
  BY <1>1, <1>2

(* The second reading takes whatever the file is by then. *)
LEMMA ReopenInv == IInv /\ Reopen => IInv'
<1> SUFFICES ASSUME IInv, Reopen PROVE IInv'
  OBVIOUS
<1> USE FilesAssumption, CountsAssumption
<1>1. /\ TypeOK /\ call.pc = "reopen" /\ call.text = <<>> /\ call.p = 1
      /\ call.i = 1 /\ call.next = 0 /\ ~store.initialized
      /\ UNCHANGED <<file, store>>
  BY DEF IInv, Reopen, Counted, Room
<1>2. Counted'
  <2>1. call'.next = call.next /\ call'.external_count = call.external_count
    BY <1>1 DEF Reopen, TypeOK
  <2> QED
    BY <1>1, <2>1 DEF IInv, Counted, Allocated, capacity
<1>3. CASE call' = [call EXCEPT !.pc = "load", !.text = file]
  <2>1. TypeOK'
    BY <1>1, <1>3 DEF TypeOK
  <2>2. /\ call'.pc = "load" /\ call'.text = file /\ call'.p = 1 /\ call'.i = 1
        /\ call'.next = 0 /\ Len(call'.text) \in Nat
    BY <1>1, <1>3 DEF TypeOK
  <2>3. Room'
    BY <1>1, <2>2 DEF Room, Loaded
  <2>4. Added'
    <3>1. (\A k \in 1..(call.p - 1) : Wanted(k) => <<"file", k>> \in Given)'
      BY <2>2
    <3> QED
      BY <1>1, <2>2, <3>1 DEF Added, Loaded
  <2> QED
    BY <1>2, <2>1, <2>3, <2>4 DEF IInv
<1>4. CASE call' = [call EXCEPT !.pc = "builtin"]
  <2>1. TypeOK'
    BY <1>1, <1>4 DEF TypeOK
  <2>2. /\ call'.pc = "builtin" /\ call'.text = <<>> /\ call'.i = 1 /\ call'.next = 0
        /\ call'.external_count \in Nat
    BY <1>1, <1>4 DEF TypeOK
  <2>3. Room'
    BY <1>1, <2>2 DEF Room, Loaded
  <2>4. Added'
    <3>1. (\A k \in 1..Len(call.text) : Wanted(k) => <<"file", k>> \in Given)'
      BY <2>2
    <3>2. \A j \in Decodable : ~(j < 1)
      OBVIOUS
    <3>3. (\A j \in Decodable : j < call.i => <<"built in", j>> \in Given)'
      BY <2>2, <3>2
    <3> QED
      BY <2>2, <3>1, <3>3 DEF Added
  <2> QED
    BY <1>2, <2>1, <2>3, <2>4 DEF IInv
<1> QED
  BY <1>3, <1>4 DEF Reopen

(* One block, or one unended block with what it swallows, takes at most one
   place, and every block it passes that is wanted is given. *)
LEMMA LoadBlockInv == IInv /\ LoadBlock => IInv'
<1> SUFFICES ASSUME IInv, LoadBlock PROVE IInv'
  OBVIOUS
<1> USE FilesAssumption, CountsAssumption
<1>1. /\ TypeOK /\ call.pc = "load" /\ call.next < capacity /\ ~store.initialized
      /\ store.count = call.next /\ file' = file
  BY DEF IInv, LoadBlock, Counted, Allocated
<1>2. PICK q \in call.p..Len(call.text) :
        /\ IsFooter(q)
        /\ \/ /\ q = call.p => call.text[q].body = "ca"
              /\ AddAnchor(<<"file", call.p>>)
              /\ call' = [call EXCEPT !.p = q + 1, !.next = @ + 1]
           \/ /\ q = call.p => call.text[q].body # "ca"
              /\ ClearPlace
              /\ call' = [call EXCEPT !.p = q + 1]
  BY DEF LoadBlock
<1>3. /\ call.p \in Nat /\ call.p >= 1 /\ q \in Nat /\ q >= call.p
      /\ call.next \in Nat /\ call.next < call.p
      /\ call.text \in Seq(Block) /\ Len(call.text) \in Nat
      /\ q <= Len(call.text)
  BY <1>1, <1>2 DEF TypeOK, IInv, Room
<1>4. \A k \in (call.p + 1)..q : ~Wanted(k)
  <2> SUFFICES ASSUME NEW k \in (call.p + 1)..q PROVE ~call.text[k - 1].ended /\ k > 1
    BY DEF Wanted
  <2>1. k - 1 \in call.p..(q - 1)
    BY <1>3
  <2> QED
    BY <1>2, <1>3, <2>1 DEF IsFooter
<1>5. Wanted(call.p) => q = call.p /\ call.text[q].body = "ca"
  <2> SUFFICES ASSUME Wanted(call.p) PROVE q = call.p /\ call.text[q].body = "ca"
    OBVIOUS
  <2>1. call.text[call.p] = [body |-> "ca", ended |-> TRUE]
    BY DEF Wanted
  <2>2. q = call.p
    BY SMTT(30), <1>2, <1>3, <2>1 DEF IsFooter
  <2> QED
    BY <2>1, <2>2
<1>6. Fits => \A k \in 1..(call.p - 1) : Wanted(k) => <<"file", k>> \in Given
  BY <1>1 DEF IInv, Added
<1>7. call.text[q].ended /\ call.text[q + 1 - 1] = call.text[q]
  BY <1>2, <1>3 DEF IsFooter
<1>8. CASE /\ q = call.p => call.text[q].body = "ca"
           /\ AddAnchor(<<"file", call.p>>)
           /\ call' = [call EXCEPT !.p = q + 1, !.next = @ + 1]
  <2>1. /\ store' \in [anchors : Seq(Anchor \cup {Blank}), count : Nat,
                       initialized : BOOLEAN]
        /\ capacity' = capacity /\ store'.count = store.count + 1
        /\ ~store'.initialized
        /\ <<"file", call.p>> \in Given' /\ Given \subseteq Given'
        /\ \A k \in 1..store'.count : store'.anchors[k] # Blank
    <3>1. <<"file", call.p>> \in Anchor
      BY <1>3 DEF Anchor
    <3>2. \A k \in 1..store.count : store.anchors[k] # Blank
      BY <1>1 DEF IInv, Counted, Allocated
    <3> QED
      BY <1>1, <1>8, <3>1, <3>2, AddAnchorAdds
  <2>2. /\ call'.pc = "load" /\ call'.p = q + 1 /\ call'.next = call.next + 1
        /\ call'.text = call.text /\ call'.i = call.i
        /\ call'.external_count = call.external_count
    BY <1>1, <1>8 DEF TypeOK
  <2>3. TypeOK'
    <3>1. q + 1 \in Nat \ {0} /\ call.next + 1 \in Nat
      BY <1>3
    <3>2. call' \in [pc : {"idle", "alloc", "reopen", "load", "builtin"},
                     external_count : 0..MaxExternal, next : Nat, text : Files,
                     p : Nat \ {0}, i : 1..(PublicCount + 1)]
      BY <1>1, <1>8, <3>1 DEF TypeOK
    <3> QED
      BY <1>1, <2>1, <3>2 DEF TypeOK
  <2>4. Counted'
    BY <1>1, <1>3, <2>1, <2>2 DEF IInv, Counted, Allocated, capacity, TypeOK
  <2>5. Room'
    <3>1. call'.next < call'.p /\ call'.p <= Len(call'.text) + 1
      BY <1>3, <2>2
    <3>2. call'.text[call'.p - 1].ended
      BY <1>7, <2>2
    <3>3. call'.i = 1
      BY <1>1, <2>2 DEF IInv, Room
    <3> QED
      BY <2>1, <2>2, <3>1, <3>2, <3>3 DEF Room, Loaded
  <2>6. Added'
    <3>1. ASSUME Fits', NEW k \in 1..q, Wanted(k)'
          PROVE  <<"file", k>> \in Given'
      <4>1. Fits /\ Wanted(k)
        BY <2>2, <3>1 DEF Fits, Wanted
      <4>2. k <= call.p
        BY <1>3, <1>4, <4>1
      <4>3. CASE k = call.p
        BY <2>1, <4>3
      <4>4. CASE k < call.p
        BY <1>3, <1>6, <2>1, <4>1, <4>4
      <4> QED
        BY <1>3, <4>2, <4>3, <4>4
    <3>2. (Fits => \A k \in 1..(call.p - 1) : Wanted(k) => <<"file", k>> \in Given)'
      BY <1>3, <2>2, <3>1
    <3> QED
      BY <2>1, <2>2, <3>2 DEF Added, Loaded
  <2> QED
    BY <2>3, <2>4, <2>5, <2>6 DEF IInv
<1>9. CASE /\ q = call.p => call.text[q].body # "ca"
           /\ ClearPlace
           /\ call' = [call EXCEPT !.p = q + 1]
  <2>1. /\ store' \in [anchors : Seq(Anchor \cup {Blank}), count : Nat,
                       initialized : BOOLEAN]
        /\ capacity' = capacity /\ store'.count = store.count
        /\ ~store'.initialized /\ Given' = Given
        /\ \A k \in 1..store'.count : store'.anchors[k] # Blank
    <3>1. \A k \in 1..store.count : store.anchors[k] # Blank
      BY <1>1 DEF IInv, Counted, Allocated
    <3> QED
      BY <1>1, <1>9, <3>1, ClearPlaceKeeps
  <2>2. /\ call'.pc = "load" /\ call'.p = q + 1 /\ call'.next = call.next
        /\ call'.text = call.text /\ call'.i = call.i
        /\ call'.external_count = call.external_count
    BY <1>1, <1>9 DEF TypeOK
  <2>3. TypeOK'
    <3>1. q + 1 \in Nat \ {0} /\ call.next + 1 \in Nat
      BY <1>3
    <3>2. call' \in [pc : {"idle", "alloc", "reopen", "load", "builtin"},
                     external_count : 0..MaxExternal, next : Nat, text : Files,
                     p : Nat \ {0}, i : 1..(PublicCount + 1)]
      BY <1>1, <1>9, <3>1 DEF TypeOK
    <3> QED
      BY <1>1, <2>1, <3>2 DEF TypeOK
  <2>4. Counted'
    BY <1>1, <1>3, <2>1, <2>2 DEF IInv, Counted, Allocated, capacity, TypeOK
  <2>5. Room'
    <3>1. call'.next < call'.p /\ call'.p <= Len(call'.text) + 1
      BY <1>3, <2>2
    <3>2. call'.text[call'.p - 1].ended
      BY <1>7, <2>2
    <3>3. call'.i = 1
      BY <1>1, <2>2 DEF IInv, Room
    <3> QED
      BY <2>1, <2>2, <3>1, <3>2, <3>3 DEF Room, Loaded
  <2>6. Added'
    <3>1. ASSUME Fits', NEW k \in 1..q, Wanted(k)'
          PROVE  <<"file", k>> \in Given'
      <4>1. Fits /\ Wanted(k)
        BY <2>2, <3>1 DEF Fits, Wanted
      <4>2. k <= call.p
        BY <1>3, <1>4, <4>1
      <4>3. CASE k = call.p
        BY <1>5, <1>9, <4>1, <4>3
      <4>4. CASE k < call.p
        BY <1>3, <1>6, <2>1, <4>1, <4>4
      <4> QED
        BY <1>3, <4>2, <4>3, <4>4
    <3>2. (Fits => \A k \in 1..(call.p - 1) : Wanted(k) => <<"file", k>> \in Given)'
      BY <1>3, <2>2, <3>1
    <3> QED
      BY <2>1, <2>2, <3>2 DEF Added, Loaded
  <2> QED
    BY <2>3, <2>4, <2>5, <2>6 DEF IInv
<1> QED
  BY <1>2, <1>8, <1>9

(* With the array larger than the number of blocks, the loop ends because the
   file does, and then no wanted block is left in it. *)
LEMMA LoadEndsInv == IInv /\ LoadEnds => IInv'
<1> SUFFICES ASSUME IInv, LoadEnds PROVE IInv'
  OBVIOUS
<1> USE FilesAssumption, CountsAssumption
<1>1. /\ TypeOK /\ call.pc = "load" /\ ~store.initialized
      /\ UNCHANGED <<file, store>> /\ call' = [call EXCEPT !.pc = "builtin"]
      /\ capacity = PublicCount + call.external_count
      /\ call.i = 1 /\ call.next < call.p /\ call.p <= Len(call.text) + 1
  BY DEF IInv, LoadEnds, Counted, Allocated, Room
<1>2. /\ call.p \in Nat \ {0} /\ call.next \in Nat /\ Len(call.text) \in Nat
      /\ call.external_count \in Nat
  BY <1>1 DEF TypeOK
<1>3. /\ call'.pc = "builtin" /\ call'.p = call.p /\ call'.next = call.next
      /\ call'.text = call.text /\ call'.i = 1
      /\ call'.external_count = call.external_count
  BY <1>1 DEF TypeOK
<1>4. TypeOK'
  BY <1>1 DEF TypeOK
<1>5. Counted'
  BY <1>1, <1>3 DEF IInv, Counted, Allocated, capacity
<1>6. Room'
  BY <1>1, <1>2, <1>3 DEF Room, Loaded, Fits
<1>7. ASSUME Fits, NEW k \in 1..Len(call.text), Wanted(k)
      PROVE  <<"file", k>> \in Given
  <2>1. \A q \in call.p..Len(call.text) : ~call.text[q].ended
    BY <1>1, <1>2, <1>7 DEF LoadEnds, Fits
  <2>2. call.text[k].ended
    BY <1>7 DEF Wanted
  <2>3. k \in 1..(call.p - 1)
    BY <1>2, <2>1, <2>2
  <2> QED
    BY <1>1, <1>7, <2>3 DEF IInv, Added
<1>8. Added'
  <2>1. Given' = Given
    BY <1>1 DEF Given
  <2>2. \A j \in Decodable : ~(j < 1)
    OBVIOUS
  <2>3. (Fits => \A k \in 1..Len(call.text) : Wanted(k) => <<"file", k>> \in Given)'
    BY <1>3, <1>7, <2>1 DEF Fits, Wanted
  <2>4. (\A j \in Decodable : j < call.i => <<"built in", j>> \in Given)'
    BY <1>3, <2>2
  <2> QED
    BY <1>3, <2>3, <2>4 DEF Added
<1> QED
  BY <1>4, <1>5, <1>6, <1>8 DEF IInv

(* Each certificate compiled in takes at most one place. *)
LEMMA AddBuiltinInv == IInv /\ AddBuiltin => IInv'
<1> SUFFICES ASSUME IInv, AddBuiltin PROVE IInv'
  OBVIOUS
<1> USE FilesAssumption, CountsAssumption
<1>1. /\ TypeOK /\ call.pc = "builtin" /\ call.i <= PublicCount
      /\ call.next < capacity /\ ~store.initialized /\ file' = file
      /\ capacity = PublicCount + call.external_count
      /\ store.count = call.next
      /\ \A k \in 1..store.count : store.anchors[k] # Blank
  BY DEF IInv, AddBuiltin, Counted, Allocated
<1>2. /\ call.next \in Nat /\ call.i \in 1..PublicCount
      /\ call.external_count \in Nat
      /\ call.i + 1 \in 1..(PublicCount + 1) /\ call.next + 1 \in Nat
      /\ call.i \in Nat
  BY <1>1 DEF TypeOK
<1>3. Fits => /\ call.next < call.external_count + call.i
              /\ \A k \in 1..Len(call.text) : Wanted(k) => <<"file", k>> \in Given
              /\ \A j \in Decodable : j < call.i => <<"built in", j>> \in Given
  BY <1>1 DEF IInv, Room, Added, Loaded
<1>4. CASE /\ call.i \in Decodable
           /\ AddAnchor(<<"built in", call.i>>)
           /\ call' = [call EXCEPT !.i = @ + 1, !.next = @ + 1]
  <2>1. <<"built in", call.i>> \in Anchor
    BY <1>2 DEF Anchor
  <2>2. /\ store' \in [anchors : Seq(Anchor \cup {Blank}), count : Nat,
                       initialized : BOOLEAN]
        /\ capacity' = capacity /\ store'.count = store.count + 1
        /\ ~store'.initialized
        /\ <<"built in", call.i>> \in Given' /\ Given \subseteq Given'
        /\ \A k \in 1..store'.count : store'.anchors[k] # Blank
    BY <1>1, <1>4, <2>1, AddAnchorAdds
  <2>3. /\ call'.pc = "builtin" /\ call'.next = call.next + 1
        /\ call'.text = call.text /\ call'.i = call.i + 1
        /\ call'.external_count = call.external_count
    BY <1>1, <1>4 DEF TypeOK
  <2>4. TypeOK'
    <3>1. call' \in [pc : {"idle", "alloc", "reopen", "load", "builtin"},
                     external_count : 0..MaxExternal, next : Nat, text : Files,
                     p : Nat \ {0}, i : 1..(PublicCount + 1)]
      BY <1>1, <1>2, <1>4 DEF TypeOK
    <3> QED
      BY <1>1, <2>2, <3>1 DEF TypeOK
  <2>5. Counted'
    <3>1. call.next + 1 <= capacity
      BY <1>1, <1>2
    <3>2. capacity' = PublicCount + call'.external_count
      BY <1>1, <2>2, <2>3
    <3> QED
      BY <1>1, <2>2, <2>3, <3>1, <3>2 DEF Counted
  <2>6. Room'
    <3>1. (Fits => call.next < call.external_count + call.i)'
      <4>1. Fits' = Fits
        BY <2>3 DEF Fits
      <4>2. ASSUME Fits PROVE call.next + 1 < call.external_count + (call.i + 1)
        <5>1. call.next < call.external_count + call.i
          BY <1>3, <4>2
        <5> QED
          BY <1>2, <5>1
      <4> QED
        BY <2>3, <4>1, <4>2
    <3> QED
      BY <2>2, <2>3, <3>1 DEF Room
  <2>7. Added'
    <3>1. (Fits => \A k \in 1..Len(call.text) : Wanted(k) => <<"file", k>> \in Given)'
      BY <1>3, <2>2, <2>3 DEF Fits, Wanted
    <3>2. (Fits => \A j \in Decodable : j < call.i => <<"built in", j>> \in Given)'
      <4> SUFFICES ASSUME Fits', NEW j \in Decodable, j < call.i + 1
                   PROVE  <<"built in", j>> \in Given'
        BY <2>3
      <4>1. j = call.i \/ j < call.i
        BY <1>2
      <4> QED
        BY <1>3, <2>2, <2>3, <4>1 DEF Fits
    <3> QED
      BY <2>3, <3>1, <3>2 DEF Added
  <2> QED
    BY <2>4, <2>5, <2>6, <2>7 DEF IInv
<1>5. CASE /\ call.i \notin Decodable
           /\ ClearPlace
           /\ call' = [call EXCEPT !.i = @ + 1]
  <2>1. /\ store' \in [anchors : Seq(Anchor \cup {Blank}), count : Nat,
                       initialized : BOOLEAN]
        /\ capacity' = capacity /\ store'.count = store.count
        /\ ~store'.initialized /\ Given' = Given
        /\ \A k \in 1..store'.count : store'.anchors[k] # Blank
    BY <1>1, <1>5, ClearPlaceKeeps
  <2>2. /\ call'.pc = "builtin" /\ call'.next = call.next
        /\ call'.text = call.text /\ call'.i = call.i + 1
        /\ call'.external_count = call.external_count
    BY <1>1, <1>5 DEF TypeOK
  <2>3. TypeOK'
    <3>1. call' \in [pc : {"idle", "alloc", "reopen", "load", "builtin"},
                     external_count : 0..MaxExternal, next : Nat, text : Files,
                     p : Nat \ {0}, i : 1..(PublicCount + 1)]
      BY <1>1, <1>2, <1>5 DEF TypeOK
    <3> QED
      BY <1>1, <2>1, <3>1 DEF TypeOK
  <2>4. Counted'
    BY <1>1, <1>2, <2>1, <2>2 DEF Counted, Allocated, capacity
  <2>5. Room'
    <3>1. (Fits => call.next < call.external_count + call.i)'
      <4>1. Fits' = Fits
        BY <2>2 DEF Fits
      <4>2. ASSUME Fits PROVE call.next < call.external_count + (call.i + 1)
        <5>1. call.next < call.external_count + call.i
          BY <1>3, <4>2
        <5> QED
          BY <1>2, <5>1
      <4> QED
        BY <2>2, <4>1, <4>2
    <3> QED
      BY <2>1, <2>2, <3>1 DEF Room
  <2>6. Added'
    <3>1. (Fits => \A k \in 1..Len(call.text) : Wanted(k) => <<"file", k>> \in Given)'
      BY <1>3, <2>1, <2>2 DEF Fits, Wanted
    <3>2. (Fits => \A j \in Decodable : j < call.i => <<"built in", j>> \in Given)'
      <4> SUFFICES ASSUME Fits', NEW j \in Decodable, j < call.i + 1
                   PROVE  <<"built in", j>> \in Given'
        BY <2>2
      <4>1. j < call.i
        BY <1>2, <1>5
      <4> QED
        BY <1>3, <2>1, <2>2, <4>1 DEF Fits
    <3> QED
      BY <2>2, <3>1, <3>2 DEF Added
  <2> QED
    BY <2>3, <2>4, <2>5, <2>6 DEF IInv
<1> QED
  BY <1>4, <1>5 DEF AddBuiltin

(* If all fits, the array is not full before the last certificate compiled in
   had its turn: the loop ends because they do. *)
LEMMA InitReturnsInv == IInv /\ InitReturns => IInv'
<1> SUFFICES ASSUME IInv, InitReturns PROVE IInv'
  OBVIOUS
<1> USE FilesAssumption, CountsAssumption
<1>1. /\ TypeOK /\ call.pc = "builtin" /\ ~store.initialized /\ file' = file
      /\ call.i > PublicCount \/ call.next >= capacity
      /\ capacity = PublicCount + call.external_count
      /\ store.count = call.next /\ call.next <= capacity
      /\ \A k \in 1..store.count : store.anchors[k] # Blank
      /\ store' = [store EXCEPT !.initialized = TRUE]
      /\ call' = [call EXCEPT !.pc = "idle"]
  BY DEF IInv, InitReturns, Counted, Allocated
<1>2. /\ store'.anchors = store.anchors /\ store'.count = store.count
      /\ store'.initialized
      /\ call'.pc = "idle" /\ call'.next = call.next /\ call'.text = call.text
      /\ call'.i = call.i /\ call'.external_count = call.external_count
  BY <1>1 DEF TypeOK
<1>3. TypeOK'
  BY <1>1 DEF TypeOK
<1>4. Counted'
  BY <1>1, <1>2 DEF Counted, capacity
<1>5. Room'
  <2>1. Fits => call.next < call.external_count + call.i
    BY <1>1 DEF IInv, Room, Loaded
  <2>2. Fits => call.i = PublicCount + 1
    BY <1>1, <2>1 DEF TypeOK
  <2> QED
    BY <1>2, <2>1, <2>2 DEF Room, Loaded, Fits
<1>6. Added'
  <2>1. Given' = Given
    BY <1>2 DEF Given
  <2>2. Fits => /\ \A k \in 1..Len(call.text) : Wanted(k) => <<"file", k>> \in Given
                /\ \A j \in Decodable : j < call.i => <<"built in", j>> \in Given
    BY <1>1 DEF IInv, Added, Loaded
  <2> QED
    BY <1>2, <2>1, <2>2 DEF Added, Fits, Wanted
<1> QED
  BY <1>3, <1>4, <1>5, <1>6 DEF IInv

(* A new file on disk concerns none of what was read, and neither does a step
   that changes nothing. *)
LEMMA OtherInv == IInv /\ (ReplaceFile \/ UNCHANGED vars) => IInv'
<1> SUFFICES ASSUME IInv, ReplaceFile \/ UNCHANGED vars PROVE IInv'
  OBVIOUS
<1>1. UNCHANGED <<store, call>> /\ file' \in Files
  BY DEF IInv, TypeOK, ReplaceFile, vars
<1>2. TypeOK'
  BY <1>1 DEF IInv, TypeOK
<1>3. Counted' /\ Room' /\ Added'
  BY <1>1 DEF IInv, Counted, Room, Added, Allocated, Loaded, Fits, Wanted, Given, capacity
<1> QED
  BY <1>2, <1>3 DEF IInv

-----------------------------------------------------------------------------
(* The invariant of wm_cert_store_init holds in every reachable state. *)
THEOREM StoreInvariant == Spec => []IInv
<1>1. Init => IInv
  BY InitInv
<1>2. IInv /\ [Next]_vars => IInv'
  BY CountRootsInv, AllocInv, ReopenInv, LoadBlockInv, LoadEndsInv,
     AddBuiltinInv, InitReturnsInv, OtherInv DEF Next, Work
<1> QED
  BY <1>1, <1>2, PTL DEF Spec

(* The globals of wm_cert_store.c and the locals of its loops keep their types. *)
THEOREM StoreTypeCorrect == Spec => []TypeOK
<1>1. IInv => TypeOK
  BY DEF IInv
<1> QED
  BY <1>1, StoreInvariant, PTL

(* No anchor within the count handed to the engine is blank or outside the
   array, for files of any length and any replacement between two readings. *)
THEOREM NeverBlank == Spec => []NoBlankAnchor
<1>1. IInv => NoBlankAnchor
  BY DEF IInv, Counted, Allocated, NoBlankAnchor
<1> QED
  BY <1>1, StoreInvariant, PTL

(* The certificates compiled in survive every file that has not outgrown the
   count taken before. *)
THEOREM FallbackIsKept == Spec => []FallbackKept
<1>1. IInv => FallbackKept
  <2> SUFFICES ASSUME IInv, store.initialized, Fits, NEW j \in Decodable
               PROVE  <<"built in", j>> \in Given
    BY DEF FallbackKept, Fits
  <2>1. call.i = PublicCount + 1
    BY DEF IInv, Room
  <2>2. j < call.i
    BY <2>1, CountsAssumption
  <2> QED
    BY <2>2 DEF IInv, Added, Loaded
<1> QED
  BY <1>1, StoreInvariant, PTL

(* Every well-formed CA certificate of such a file is an anchor. *)
THEOREM EveryCaIsAdded == Spec => []EveryCaAdded
<1>1. IInv => EveryCaAdded
  BY DEF IInv, Added, Loaded, Fits, Wanted, EveryCaAdded
<1> QED
  BY <1>1, StoreInvariant, PTL

-----------------------------------------------------------------------------
(* The session cache.  Its invariant has two witnesses: u, which gives for every
   link the entries under it, and s, the sequence of the entries from the head of
   the list on.  First, naturals, places and induction along a tree. *)

\* A set of naturals that is not empty has a least member.
LEMMA Smallest ==
  ASSUME NEW T, T \subseteq Nat, T # {}
  PROVE  \E x \in T : \A y \in T : x <= y
<1> DEFINE R == {ss \in Nat \X Nat : ss[1] < ss[2]}
<1>1. IsWellFoundedOn(R, Nat)
  BY NatLessThanWellFounded DEF OpToRel
<1> HIDE DEF R
<1>2. PICK x \in T : \A y \in T : ~(<<y, x>> \in R)
  BY <1>1, WFMin
<1>3. ASSUME NEW y \in T
      PROVE  x <= y
  <2>1. x \in Nat /\ y \in Nat
    OBVIOUS
  <2>2. ~(<<y, x>> \in R)
    BY <1>2
  <2> QED
    BY <2>1, <2>2 DEF R
<1> QED
  BY <1>3

\* What holds of 0 and is handed on holds of every natural.
LEMMA Counting ==
  ASSUME NEW S, 0 \in S, \A n \in Nat : n \in S => n + 1 \in S
  PROVE  \A n \in Nat : n \in S
<1> SUFFICES ASSUME Nat \ S # {}
             PROVE  FALSE
  OBVIOUS
<1>1. PICK x \in Nat \ S : \A y \in Nat \ S : x <= y
  BY Smallest
<1>2. x # 0 /\ x - 1 \in Nat
  BY <1>1
<1>3. x - 1 \in S
  BY <1>1, <1>2
<1> QED
  BY <1>1, <1>2, <1>3

-----------------------------------------------------------------------------
(* Trees.  u[l] are the nodes under the link l.                              *)
Sides == {"left", "right"}

Child(x, side) == <<x, side>>

Ordered(a, side, b) == IF side = "left" THEN a < b ELSE a > b

\* u gives what is under each link of a search tree: nothing under an empty one, and
\* under another its node and what is under the two children, in order.
Tree(link, id, u) ==
  /\ link \in [Links -> Addr \cup {Null}]
  /\ id \in [Addr -> Nat]
  /\ u \in [Links -> SUBSET Addr]
  /\ \A l \in Links : u[l] \subseteq u[Root]
  /\ \A l \in Links : link[l] = Null => u[l] = {}
  /\ \A l \in Links : link[l] # Null =>
       u[l] = {link[l]} \cup u[Child(link[l], "left")] \cup u[Child(link[l], "right")]
  /\ \A x \in Addr, side \in Sides : \A y \in u[Child(x, side)] : Ordered(id[y], side, id[x])

\* The places that point to nodes are the root and the children of entries.
LEMMA Places ==
  /\ Root \in Links /\ Addr \subseteq Nat /\ Null \notin Addr
  /\ \A x \in Addr, side \in Sides : Child(x, side) \in Links /\ Child(x, side) # Root
  /\ \A l \in Links : l = Root \/ \E x \in Addr, side \in Sides : l = Child(x, side)
BY LruAssumption DEF Links, Root, Addr, Null, Child, Sides

\* The places can be numbered so that one with fewer nodes under it comes earlier.
LEMMA Ranked ==
  ASSUME NEW u \in [Links -> SUBSET Addr]
  PROVE  \E rk \in [Links -> 0..Capacity] :
           \A k, l \in Links : u[k] \subseteq u[l] /\ u[k] # u[l] => rk[k] < rk[l]
<1> DEFINE rk == [l \in Links |-> Cardinality(u[l])]
<1>1. IsFiniteSet(Addr)
  BY LruAssumption, FS_Interval DEF Addr
<1>2. \A l \in Links : IsFiniteSet(u[l])
  BY <1>1, FS_Subset
<1>3. rk \in [Links -> 0..Capacity]
  <2>1. \A l \in Links : Cardinality(u[l]) <= Cardinality(Addr)
    BY <1>1, FS_Subset
  <2>2. Cardinality(Addr) = Capacity
    BY LruAssumption, FS_Interval DEF Addr
  <2>3. \A l \in Links : Cardinality(u[l]) \in Nat
    BY <1>2, FS_CardinalityType
  <2> QED
    BY <2>1, <2>2, <2>3, LruAssumption
<1>4. ASSUME NEW k \in Links, NEW l \in Links, u[k] \subseteq u[l], u[k] # u[l]
      PROVE  rk[k] < rk[l]
  <2>1. /\ Cardinality(u[k]) <= Cardinality(u[l])
        /\ Cardinality(u[k]) = Cardinality(u[l]) => u[k] = u[l]
    BY <1>2, <1>4, FS_Subset
  <2> QED
    BY <1>3, <1>4, <2>1
<1> HIDE DEF rk
<1> QED
  BY <1>3, <1>4

\* What holds of a link once it holds of those with less under them holds of all.
LEMMA TreeInduction ==
  ASSUME NEW u \in [Links -> SUBSET Addr], NEW B,
         \A l \in Links :
           (\A k \in Links : u[k] \subseteq u[l] /\ u[k] # u[l] => k \in B) => l \in B
  PROVE  \A l \in Links : l \in B
<1>1. PICK rk \in [Links -> 0..Capacity] :
        \A k, l \in Links : u[k] \subseteq u[l] /\ u[k] # u[l] => rk[k] < rk[l]
  BY Ranked
<1> SUFFICES ASSUME NEW l \in Links, l \notin B
             PROVE  FALSE
  OBVIOUS
<1> DEFINE T == {rk[k] : k \in Links \ B}
<1>2. PICK n \in T : \A m \in T : n <= m
  <2>1. T \subseteq Nat /\ T # {}
    BY <1>1
  <2> HIDE DEF T
  <2> QED
    BY <2>1, Smallest
<1>3. PICK j \in Links \ B : n = rk[j]
  BY <1>2
<1>4. \A k \in Links : u[k] \subseteq u[j] /\ u[k] # u[j] => k \in B
  <2> SUFFICES ASSUME NEW k \in Links, u[k] \subseteq u[j], u[k] # u[j], k \notin B
               PROVE  FALSE
    OBVIOUS
  <2>1. rk[k] < rk[j]
    BY <1>1, <1>3
  <2>2. rk[j] <= rk[k]
    BY <1>2, <1>3
  <2> QED
    BY <1>1, <1>3, <2>1, <2>2
<1> QED
  BY <1>3, <1>4

\* A walk from link to link that stops at the links of a set.
IsWalk(f, D, stop, to) == f = [l \in D |-> IF l \in stop THEN l ELSE f[to[l]]]

\* A walk that goes down from link to link ends.
LEMMA WalkExists ==
  ASSUME NEW u \in [Links -> SUBSET Addr], NEW D, D \subseteq Links, NEW stop, NEW to,
         \A l \in D \ stop : to[l] \in D /\ u[to[l]] \subseteq u[l] /\ u[to[l]] # u[l]
  PROVE  \E f : IsWalk(f, D, stop, to)
<1>1. PICK rk \in [Links -> 0..Capacity] :
        \A k, l \in Links : u[k] \subseteq u[l] /\ u[k] # u[l] => rk[k] < rk[l]
  BY Ranked
<1> DEFINE Low(n) == {l \in D : rk[l] < n}
           S == {n \in Nat : \E f : IsWalk(f, Low(n), stop, to)}
<1>2. 0 \in S
  <2>1. Low(0) = {}
    BY <1>1
  <2>2. PICK f : f = [l \in {} |-> IF l \in stop THEN l ELSE {}]
    OBVIOUS
  <2>3. IsWalk(f, {}, stop, to)
    BY <2>2 DEF IsWalk
  <2> QED
    BY <2>1, <2>3
<1>3. ASSUME NEW n \in Nat, n \in S
      PROVE  n + 1 \in S
  <2>1. PICK f : IsWalk(f, Low(n), stop, to)
    BY <1>3
  <2> DEFINE g == [l \in Low(n + 1) |-> IF l \in stop THEN l ELSE f[to[l]]]
  <2>2. ASSUME NEW l \in Low(n + 1), l \notin stop
        PROVE  to[l] \in Low(n) /\ to[l] \in Low(n + 1) /\ g[to[l]] = f[to[l]]
    <3>1. l \in D /\ rk[l] < n + 1 /\ to[l] \in D /\ rk[to[l]] < rk[l]
      BY <1>1, <2>2
    <3>2. rk[l] \in Nat /\ rk[to[l]] \in Nat
      BY <1>1, <3>1
    <3>3. to[l] \in Low(n) /\ to[l] \in Low(n + 1)
      BY <3>1, <3>2
    <3>4. f[to[l]] = IF to[l] \in stop THEN to[l] ELSE f[to[to[l]]]
      BY <2>1, <3>3 DEF IsWalk
    <3> QED
      BY <3>3, <3>4
  <2>3. \A l \in Low(n + 1) : g[l] = IF l \in stop THEN l ELSE g[to[l]]
    BY <2>2
  <2>4. g = [l \in Low(n + 1) |-> g[l]]
    OBVIOUS
  <2> HIDE DEF g, Low
  <2>5. IsWalk(g, Low(n + 1), stop, to)
    <3>1. [l \in Low(n + 1) |-> g[l]] =
            [l \in Low(n + 1) |-> IF l \in stop THEN l ELSE g[to[l]]]
      BY <2>3
    <3> QED
      BY <2>4, <3>1, Zenon DEF IsWalk
  <2> QED
    BY <2>5
<1>4. \A n \in Nat : n \in S
  <2> HIDE DEF S
  <2> QED
    BY <1>2, <1>3, Counting
<1>5. Low(Capacity + 1) = D /\ Capacity + 1 \in Nat
  BY LruAssumption
<1> QED
  BY <1>4, <1>5

-----------------------------------------------------------------------------
(* What is under a link. *)

\* What the tree says of a place and of the two below it.
LEMMA TreeFacts ==
  ASSUME NEW link, NEW id, NEW u, Tree(link, id, u)
  PROVE  /\ u \in [Links -> SUBSET Addr]
         /\ \A l \in Links : link[l] \in Addr \cup {Null}
         /\ \A l \in Links : link[l] # Null => link[l] \in u[l] /\ link[l] \in Addr
         /\ \A l \in Links, side \in Sides : link[l] # Null =>
              /\ Child(link[l], side) \in Links
              /\ u[Child(link[l], side)] \subseteq u[l]
              /\ link[l] \notin u[Child(link[l], side)]
              /\ u[Child(link[l], side)] # u[l]
         /\ \A l \in Links : \A y \in u[l] : link[l] # Null /\
              (y = link[l] \/ \E side \in Sides : y \in u[Child(link[l], side)])
<1>1. ASSUME NEW l \in Links, link[l] # Null, NEW side \in Sides
      PROVE  /\ Child(link[l], side) \in Links
             /\ u[Child(link[l], side)] \subseteq u[l]
             /\ link[l] \notin u[Child(link[l], side)]
             /\ link[l] \in u[l]
  <2>1. link[l] \in Addr
    BY <1>1 DEF Tree
  <2>2. u[l] = {link[l]} \cup u[Child(link[l], "left")] \cup u[Child(link[l], "right")]
    BY <1>1 DEF Tree
  <2>3. \A y \in u[Child(link[l], side)] : Ordered(id[y], side, id[link[l]])
    BY <2>1 DEF Tree
  <2>4. id[link[l]] \in Nat
    BY <2>1 DEF Tree
  <2>5. link[l] \notin u[Child(link[l], side)]
    BY <2>3, <2>4 DEF Ordered
  <2> QED
    BY <2>1, <2>2, <2>5, Places DEF Sides
<1>2. ASSUME NEW l \in Links, NEW y \in u[l]
      PROVE  link[l] # Null /\
              (y = link[l] \/ \E side \in Sides : y \in u[Child(link[l], side)])
  BY <1>2 DEF Tree, Sides
<1> QED
  BY <1>1, <1>2 DEF Tree, Sides

\* What is under a child of a node is under every link the node is under.
LEMMA UnderIn ==
  ASSUME NEW link, NEW id, NEW u, Tree(link, id, u)
  PROVE  \A l \in Links : \A x \in u[l] : \A side \in Sides : u[Child(x, side)] \subseteq u[l]
<1> DEFINE B == {l \in Links : \A x \in u[l] : \A side \in Sides : u[Child(x, side)] \subseteq u[l]}
<1>1. ASSUME NEW l \in Links, \A k \in Links : u[k] \subseteq u[l] /\ u[k] # u[l] => k \in B
      PROVE  l \in B
  <2> SUFFICES ASSUME NEW x \in u[l], NEW side \in Sides
               PROVE  u[Child(x, side)] \subseteq u[l]
    OBVIOUS
  <2>1. link[l] # Null /\
        (x = link[l] \/ \E s \in Sides : x \in u[Child(link[l], s)])
    BY TreeFacts
  <2>2. CASE x = link[l]
    BY <2>1, <2>2, TreeFacts
  <2>3. CASE \E s \in Sides : x \in u[Child(link[l], s)]
    <3>1. PICK s \in Sides : x \in u[Child(link[l], s)]
      BY <2>3
    <3>2. /\ Child(link[l], s) \in Links /\ u[Child(link[l], s)] \subseteq u[l]
          /\ u[Child(link[l], s)] # u[l]
      BY <2>1, TreeFacts
    <3>3. Child(link[l], s) \in B
      BY <1>1, <3>2
    <3> QED
      BY <3>1, <3>2, <3>3
  <2> QED
    BY <2>1, <2>2, <2>3
<1>2. u \in [Links -> SUBSET Addr]
  BY TreeFacts
<1> HIDE DEF B
<1>3. \A l \in Links : l \in B
  BY <1>1, <1>2, TreeInduction
<1> QED
  BY <1>3 DEF B

\* No two nodes of a tree have one identifier.
LEMMA IdsDiffer ==
  ASSUME NEW link, NEW id, NEW u, Tree(link, id, u)
  PROVE  \A l \in Links : \A x, y \in u[l] : id[x] = id[y] => x = y
<1> DEFINE B == {l \in Links : \A x, y \in u[l] : id[x] = id[y] => x = y}
<1>1. ASSUME NEW l \in Links, \A k \in Links : u[k] \subseteq u[l] /\ u[k] # u[l] => k \in B
      PROVE  l \in B
  <2> SUFFICES ASSUME NEW x \in u[l], NEW y \in u[l], id[x] = id[y]
               PROVE  x = y
    OBVIOUS
  <2>1. /\ link[l] # Null
        /\ x = link[l] \/ \E s \in Sides : x \in u[Child(link[l], s)]
        /\ y = link[l] \/ \E s \in Sides : y \in u[Child(link[l], s)]
    BY TreeFacts
  <2>2. PICK w : w = link[l]
    OBVIOUS
  <2>3. w \in Addr
    BY <2>1, <2>2, TreeFacts
  <2>4. /\ x \in Addr /\ y \in Addr
        /\ id[x] \in Nat /\ id[y] \in Nat /\ id[w] \in Nat
    BY <2>3, TreeFacts DEF Tree
  <2>5. \A s \in Sides : \A v \in u[Child(w, s)] : Ordered(id[v], s, id[w])
    BY <2>3 DEF Tree
  <2>6. ASSUME NEW s \in Sides, x \in u[Child(w, s)], y \in u[Child(w, s)]
        PROVE  x = y
    <3>1. Child(w, s) \in B
      BY <1>1, <2>1, <2>2, TreeFacts
    <3> QED
      BY <2>6, <3>1
  <2>7. CASE x = w
    BY <2>1, <2>2, <2>4, <2>5, <2>7 DEF Ordered, Sides
  <2>8. CASE y = w
    BY <2>1, <2>2, <2>4, <2>5, <2>8 DEF Ordered, Sides
  <2>9. CASE \E s \in Sides : x \in u[Child(w, s)]
    <3>1. PICK s \in Sides : x \in u[Child(w, s)]
      BY <2>9
    <3>2. CASE y = w
      BY <2>8, <3>2
    <3>3. CASE \E t \in Sides : y \in u[Child(w, t)]
      <4>1. PICK t \in Sides : y \in u[Child(w, t)]
        BY <3>3
      <4>2. s = t
        BY <2>4, <2>5, <3>1, <4>1 DEF Ordered, Sides
      <4> QED
        BY <2>6, <3>1, <4>1, <4>2
    <3> QED
      BY <2>1, <2>2, <3>2, <3>3
  <2> QED
    BY <2>1, <2>2, <2>7, <2>9
<1>2. u \in [Links -> SUBSET Addr]
  BY TreeFacts
<1> HIDE DEF B
<1>3. \A l \in Links : l \in B
  BY <1>1, <1>2, TreeInduction
<1> QED
  BY <1>3 DEF B

\* The link k is l, or the field of a node under l.
At(u, k, l) == k = l \/ k[1] \in u[l]

\* A place at or below l is l, or is at or below one of its node's children.
LEMMA AtDown ==
  ASSUME NEW link, NEW id, NEW u, Tree(link, id, u),
         NEW l \in Links, NEW k \in Links, At(u, k, l)
  PROVE  /\ u[k] \subseteq u[l]
         /\ k # l => link[l] # Null /\ \E s \in Sides : At(u, k, Child(link[l], s))
<1>1. CASE k = l
  BY <1>1
<1>2. CASE k # l
  <2>1. k[1] \in u[l]
    BY <1>2 DEF At
  <2>2. PICK x \in Addr, s \in Sides : k = Child(x, s)
    <3>1. k # Root
      <4>1. u[l] \subseteq Addr
        BY TreeFacts
      <4> QED
        BY <2>1, <4>1, Places DEF Root
    <3> QED
      BY <3>1, Places
  <2>3. k[1] = x
    BY <2>2 DEF Child
  <2>4. u[k] \subseteq u[l]
    BY <2>1, <2>2, <2>3, UnderIn
  <2>5. link[l] # Null /\ (x = link[l] \/ \E t \in Sides : x \in u[Child(link[l], t)])
    BY <2>1, <2>3, TreeFacts
  <2>6. \E t \in Sides : At(u, k, Child(link[l], t))
    BY <2>2, <2>3, <2>5 DEF At
  <2> QED
    BY <2>4, <2>5, <2>6
<1> QED
  BY <1>1, <1>2

\* A place at or below a child of l's node is below l.
LEMMA AtUp ==
  ASSUME NEW link, NEW id, NEW u, Tree(link, id, u),
         NEW l \in Links, NEW k \in Links, link[l] # Null, NEW s \in Sides,
         At(u, k, Child(link[l], s))
  PROVE  At(u, k, l) /\ k[1] \in u[l]
<1>1. k[1] = link[l] \/ k[1] \in u[Child(link[l], s)]
  BY DEF At, Child
<1> QED
  BY <1>1, TreeFacts DEF At

\* A link is on one side of a node only.
LEMMA OneSide ==
  ASSUME NEW link, NEW id, NEW u, Tree(link, id, u),
         NEW x \in Addr, NEW k \in Links, NEW s \in Sides, NEW t \in Sides,
         At(u, k, Child(x, s)), At(u, k, Child(x, t))
  PROVE  s = t
<1>1. \A r \in Sides : \A v \in u[Child(x, r)] : Ordered(id[v], r, id[x]) /\ v \in Addr
  BY Places, TreeFacts DEF Tree
<1>2. \A v \in Addr : id[v] \in Nat
  BY DEF Tree
<1>4. CASE k[1] \in u[Child(x, s)] /\ k[1] \in u[Child(x, t)]
  BY <1>1, <1>2, <1>4 DEF Ordered, Sides
<1>5. CASE k[1] = x
  <2>1. ~(x \in u[Child(x, s)]) /\ ~(x \in u[Child(x, t)])
    BY <1>1, <1>2 DEF Ordered, Sides
  <2> QED
    BY <1>5, <2>1 DEF At, Child
<1> QED
  BY <1>4, <1>5 DEF At, Child

-----------------------------------------------------------------------------
(* find_node: the search ends at the one link that can hold the identifier. *)

\* The side to turn to with m at a node that has n.
Turn(m, n) == IF m < n THEN "left" ELSE "right"

\* The search for m stops at l.
Stops(link, id, m, l) == link[l] = Null \/ id[link[l]] = m

\* The recursion of find_node.
IsFind(f, link, id, m) ==
  f = [l \in Links |-> IF Stops(link, id, m, l) THEN l
                       ELSE f[Child(link[l], Turn(m, id[link[l]]))]]

\* The search of find_node is well founded: there is a function as its definition asks.
LEMMA FindExists ==
  ASSUME NEW link, NEW id, NEW u, Tree(link, id, u), NEW m
  PROVE  \E f : IsFind(f, link, id, m)
<1> DEFINE stop == {l \in Links : Stops(link, id, m, l)}
           to == [l \in Links |-> Child(link[l], Turn(m, id[link[l]]))]
<1>1. \A l \in Links \ stop : to[l] \in Links /\ u[to[l]] \subseteq u[l] /\ u[to[l]] # u[l]
  <2> SUFFICES ASSUME NEW l \in Links \ stop
               PROVE  to[l] \in Links /\ u[to[l]] \subseteq u[l] /\ u[to[l]] # u[l]
    OBVIOUS
  <2>1. link[l] # Null
    BY DEF Stops
  <2>2. Turn(m, id[link[l]]) \in Sides
    BY DEF Turn, Sides
  <2> QED
    BY <2>1, <2>2, TreeFacts
<1>2. u \in [Links -> SUBSET Addr]
  BY TreeFacts
<1>3. \E f : IsWalk(f, Links, stop, to)
  <2> HIDE DEF stop, to
  <2> QED
    BY <1>1, <1>2, WalkExists
<1>4. PICK f : IsWalk(f, Links, stop, to)
  BY <1>3
<1>5. \A l \in Links : f[l] = IF Stops(link, id, m, l) THEN l
                              ELSE f[Child(link[l], Turn(m, id[link[l]]))]
  BY <1>4 DEF IsWalk
<1>6. f = [l \in Links |-> f[l]]
  BY <1>4 DEF IsWalk
<1>7. [l \in Links |-> f[l]] =
        [l \in Links |-> IF Stops(link, id, m, l) THEN l
                         ELSE f[Child(link[l], Turn(m, id[link[l]]))]]
  BY <1>5
<1> QED
  BY <1>6, <1>7, Zenon DEF IsFind

\* find_node is one of those functions, at the root.
LEMMA FindUnfolds ==
  ASSUME NEW c, NEW m, \E f : IsFind(f, c.link, c.id, m)
  PROVE  \E f : IsFind(f, c.link, c.id, m) /\ find_node(c, m) = f[Root]
<1> DEFINE P(f) == f = [l \in Links |->
          LET x == c.link[l] IN
          IF x = Null \/ c.id[x] = m THEN l
          ELSE f[<<x, IF m < c.id[x] THEN "left" ELSE "right">>]]
<1>1. PICK a : a = CHOOSE f : P(f)
  OBVIOUS
<1>2. find_node(c, m) = a[Root]
  BY <1>1 DEF find_node
<1>3. \A f : P(f) <=> IsFind(f, c.link, c.id, m)
  BY DEF IsFind, Stops, Child, Turn
<1> HIDE DEF P
<1>4. P(a)
  BY <1>1, <1>3
<1> QED
  BY <1>2, <1>3, <1>4

\* Where a search ends that begins at l.
Ends(link, id, u, m, l, k) ==
  /\ k \in Links /\ At(u, k, l)
  /\ Stops(link, id, m, k)
  /\ \A z \in u[l], s \in Sides : At(u, k, Child(z, s)) => Ordered(m, s, id[z])
  /\ \A j \in Links : At(u, j, l) /\ link[j] # Null /\ id[link[j]] = m => j = k
  /\ \A y \in u[l] : id[y] = m => link[k] = y

\* Where the search stops it has ended.
LEMMA EndsHere ==
  ASSUME NEW link, NEW id, NEW u, Tree(link, id, u), NEW m \in Nat,
         NEW l \in Links, Stops(link, id, m, l)
  PROVE  Ends(link, id, u, m, l, l)
<1>1. ASSUME NEW z \in u[l], NEW s \in Sides, At(u, l, Child(z, s))
      PROVE  FALSE
  <2>1. z \in Addr /\ Child(z, s) \in Links
    <3>1. z \in Addr
      BY TreeFacts
    <3> QED
      BY <3>1, Places
  <2>2. u[l] \subseteq u[Child(z, s)]
    BY <1>1, <2>1, AtDown
  <2>3. z \in u[Child(z, s)]
    BY <2>2
  <2>4. Ordered(id[z], s, id[z]) /\ id[z] \in Nat
    BY <2>1, <2>3 DEF Tree
  <2> QED
    BY <2>4 DEF Ordered
<1>2. ASSUME NEW y \in u[l], id[y] = m
      PROVE  link[l] = y
  <2>1. link[l] # Null /\ link[l] \in u[l]
    BY TreeFacts
  <2>2. id[link[l]] = m
    BY <2>1 DEF Stops
  <2> QED
    BY <1>2, <2>1, <2>2, IdsDiffer
<1>3. ASSUME NEW j \in Links, At(u, j, l), link[j] # Null, id[link[j]] = m, j # l
      PROVE  FALSE
  <2>1. PICK s \in Sides : link[l] # Null /\ At(u, j, Child(link[l], s))
    BY <1>3, AtDown
  <2>2. Child(link[l], s) \in Links /\ link[l] \notin u[Child(link[l], s)]
    BY <2>1, TreeFacts
  <2>3. link[j] \in u[j] /\ u[j] \subseteq u[Child(link[l], s)] /\ u[j] \subseteq u[l]
    BY <1>3, <2>1, <2>2, AtDown, TreeFacts
  <2>4. link[l] = link[j]
    BY <1>2, <1>3, <2>3
  <2> QED
    BY <2>2, <2>3, <2>4
<1> QED
  BY <1>1, <1>2, <1>3 DEF Ends, At

\* Where the search ends from the child it turns to, it ends from above.
LEMMA EndsBelow ==
  ASSUME NEW link, NEW id, NEW u, Tree(link, id, u), NEW m \in Nat,
         NEW l \in Links, ~Stops(link, id, m, l),
         NEW k, Ends(link, id, u, m, Child(link[l], Turn(m, id[link[l]])), k)
  PROVE  Ends(link, id, u, m, l, k)
<1>1. PICK x, t : x = link[l] /\ t = Turn(m, id[link[l]])
  OBVIOUS
<1>2. /\ x # Null /\ x \in Addr /\ id[x] # m /\ id[x] \in Nat /\ t \in Sides
      /\ Ordered(m, t, id[x])
  <2>1. link[l] # Null /\ id[link[l]] # m
    BY DEF Stops
  <2>2. link[l] \in Addr
    BY <2>1, TreeFacts
  <2>3. id[link[l]] \in Nat
    BY <2>2 DEF Tree
  <2> QED
    BY <1>1, <2>1, <2>2, <2>3 DEF Turn, Sides, Ordered
<1>3. Child(x, t) \in Links /\ u[Child(x, t)] \subseteq u[l]
  BY <1>1, <1>2, TreeFacts
<1>4. /\ k \in Links /\ At(u, k, Child(x, t))
      /\ Stops(link, id, m, k)
      /\ \A z \in u[Child(x, t)], s \in Sides : At(u, k, Child(z, s)) => Ordered(m, s, id[z])
      /\ \A j \in Links : At(u, j, Child(x, t)) /\ link[j] # Null /\ id[link[j]] = m => j = k
      /\ \A y \in u[Child(x, t)] : id[y] = m => link[k] = y
  BY <1>1 DEF Ends
<1>5. At(u, k, l)
  BY <1>1, <1>2, <1>4, AtUp
<1>6. \A y \in u[l] : y = x \/ \E s \in Sides : y \in u[Child(x, s)]
  BY <1>1, TreeFacts
<1>7. ASSUME NEW s \in Sides, NEW y \in u[Child(x, s)], id[y] = m
      PROVE  s = t
  <2>1. Ordered(m, s, id[x])
    BY <1>2, <1>7 DEF Tree
  <2> QED
    BY <1>2, <2>1 DEF Ordered, Sides
<1>8. ASSUME NEW y \in u[l], id[y] = m
      PROVE  link[k] = y
  BY <1>2, <1>4, <1>6, <1>7, <1>8
<1>9. ASSUME NEW j \in Links, At(u, j, l), link[j] # Null, id[link[j]] = m
      PROVE  j = k
  <2>1. j # l
    BY <1>1, <1>2, <1>9
  <2>2. PICK s \in Sides : At(u, j, Child(x, s))
    BY <1>1, <1>9, <2>1, AtDown
  <2>3. Child(x, s) \in Links
    BY <1>2, Places
  <2>4. link[j] \in u[Child(x, s)]
    BY <1>9, <2>2, <2>3, AtDown, TreeFacts
  <2>5. s = t
    BY <1>7, <1>9, <2>4
  <2> QED
    BY <1>4, <1>9, <2>2, <2>5
<1>10. ASSUME NEW z \in u[l], NEW s \in Sides, At(u, k, Child(z, s))
       PROVE  Ordered(m, s, id[z])
  <2>1. CASE z = x
    <3>1. s = t
      BY <1>2, <1>4, <1>10, <2>1, OneSide
    <3> QED
      BY <1>2, <2>1, <3>1
  <2>2. CASE \E r \in Sides : z \in u[Child(x, r)]
    <3>1. PICK r \in Sides : z \in u[Child(x, r)]
      BY <2>2
    <3>2. Child(x, r) \in Links
      BY <1>2, Places
    <3>3. u[Child(z, s)] \subseteq u[Child(x, r)]
      BY <3>1, <3>2, UnderIn
    <3>4. At(u, k, Child(x, r))
      BY <1>10, <3>1, <3>3 DEF At, Child
    <3>5. r = t
      BY <1>2, <1>4, <3>4, OneSide
    <3> QED
      BY <1>4, <1>10, <3>1, <3>5
  <2> QED
    BY <1>6, <2>1, <2>2
<1> QED
  BY <1>4, <1>5, <1>8, <1>9, <1>10 DEF Ends

\* By induction the search ends from every place.
LEMMA FindEnds ==
  ASSUME NEW link, NEW id, NEW u, Tree(link, id, u), NEW m \in Nat,
         NEW f, IsFind(f, link, id, m)
  PROVE  \A l \in Links : Ends(link, id, u, m, l, f[l])
<1> DEFINE B == {l \in Links : Ends(link, id, u, m, l, f[l])}
<1>1. ASSUME NEW l \in Links, \A k \in Links : u[k] \subseteq u[l] /\ u[k] # u[l] => k \in B
      PROVE  l \in B
  <2>1. f[l] = IF Stops(link, id, m, l) THEN l
               ELSE f[Child(link[l], Turn(m, id[link[l]]))]
    BY DEF IsFind
  <2>2. CASE Stops(link, id, m, l)
    <3>1. Ends(link, id, u, m, l, l)
      BY <2>2, EndsHere
    <3> QED
      BY <2>1, <2>2, <3>1
  <2>3. CASE ~Stops(link, id, m, l)
    <3>1. link[l] # Null /\ Turn(m, id[link[l]]) \in Sides
      BY <2>3 DEF Stops, Turn, Sides
    <3>2. Child(link[l], Turn(m, id[link[l]])) \in B
      BY <1>1, <3>1, TreeFacts
    <3>3. f[l] = f[Child(link[l], Turn(m, id[link[l]]))]
      BY <2>1, <2>3
    <3>4. Ends(link, id, u, m, Child(link[l], Turn(m, id[link[l]])), f[l])
      BY <3>2, <3>3
    <3>5. Ends(link, id, u, m, l, f[l])
      <4> HIDE DEF B
      <4> QED
        BY <2>3, <3>4, EndsBelow
    <3> QED
      BY <3>5
  <2> QED
    BY <2>2, <2>3
<1>2. u \in [Links -> SUBSET Addr]
  BY TreeFacts
<1> HIDE DEF B
<1>3. \A l \in Links : l \in B
  BY <1>1, <1>2, TreeInduction
<1> QED
  BY <1>3 DEF B

\* A search from the root ends at the link to the node or where it belongs.
LEMMA FindNode ==
  ASSUME NEW c, NEW u, NEW m \in Nat, Tree(c.link, c.id, u)
  PROVE  Ends(c.link, c.id, u, m, Root, find_node(c, m))
<1>1. PICK f : IsFind(f, c.link, c.id, m) /\ find_node(c, m) = f[Root]
  BY FindExists, FindUnfolds
<1>2. Root \in Links
  BY Places
<1> QED
  BY <1>1, <1>2, FindEnds

-----------------------------------------------------------------------------
(* Outermost: the walk to the last node of one side. *)

Other(side) == IF side = "left" THEN "right" ELSE "left"

\* The recursion of Outermost.
IsOutermost(f, link, side) ==
  f = [k \in {k \in Links : link[k] # Null} |->
         IF link[Child(link[k], side)] = Null THEN k ELSE f[Child(link[k], side)]]

\* The walk of find_replacement_node to one side is well founded.
LEMMA OutermostExists ==
  ASSUME NEW link, NEW id, NEW u, Tree(link, id, u), NEW side \in Sides
  PROVE  \E f : IsOutermost(f, link, side)
<1> DEFINE D == {k \in Links : link[k] # Null}
           stop == {k \in D : link[Child(link[k], side)] = Null}
           to == [k \in D |-> Child(link[k], side)]
<1>1. \A l \in D \ stop : to[l] \in D /\ u[to[l]] \subseteq u[l] /\ u[to[l]] # u[l]
  BY TreeFacts
<1>2. u \in [Links -> SUBSET Addr]
  BY TreeFacts
<1>3. \E f : IsWalk(f, D, stop, to)
  <2>1. D \subseteq Links
    OBVIOUS
  <2> HIDE DEF D, stop, to
  <2> QED
    BY <1>1, <1>2, <2>1, WalkExists
<1>4. PICK f : IsWalk(f, D, stop, to)
  BY <1>3
<1>5. \A k \in D : f[k] = IF link[Child(link[k], side)] = Null THEN k
                          ELSE f[Child(link[k], side)]
  BY <1>4 DEF IsWalk
<1>6. f = [k \in D |-> f[k]]
  BY <1>4 DEF IsWalk
<1>7. [k \in D |-> f[k]] =
        [k \in D |-> IF link[Child(link[k], side)] = Null THEN k ELSE f[Child(link[k], side)]]
  BY <1>5
<1> QED
  BY <1>6, <1>7, Zenon DEF IsOutermost

\* Outermost is such a walk, from l.
LEMMA OutermostUnfolds ==
  ASSUME NEW c, NEW l, NEW side, \E f : IsOutermost(f, c.link, side)
  PROVE  \E f : IsOutermost(f, c.link, side) /\ Outermost(c, l, side) = f[l]
<1> DEFINE P(f) == f = [k \in {k \in Links : c.link[k] # Null} |->
          IF c.link[<<c.link[k], side>>] = Null THEN k ELSE f[<<c.link[k], side>>]]
<1>1. PICK a : a = CHOOSE f : P(f)
  OBVIOUS
<1>2. Outermost(c, l, side) = a[l]
  BY <1>1 DEF Outermost
<1>3. \A f : P(f) <=> IsOutermost(f, c.link, side)
  BY DEF IsOutermost, Child
<1> HIDE DEF P
<1>4. P(a)
  BY <1>1, <1>3
<1> QED
  BY <1>2, <1>3, <1>4

\* k points to the node under l that is the last one on this side.
Last1(link, id, u, side, l, k) ==
  /\ k \in Links /\ At(u, k, l) /\ link[k] # Null
  /\ link[Child(link[k], side)] = Null
  /\ \A y \in u[l] : y = link[k] \/ Ordered(id[y], Other(side), id[link[k]])

\* By induction the walk ends at the outermost node of that side.
LEMMA OutermostEnds ==
  ASSUME NEW link, NEW id, NEW u, Tree(link, id, u), NEW side \in Sides,
         NEW f, IsOutermost(f, link, side)
  PROVE  \A l \in Links : link[l] # Null => Last1(link, id, u, side, l, f[l])
<1> DEFINE B == {l \in Links : link[l] # Null => Last1(link, id, u, side, l, f[l])}
<1>1. ASSUME NEW l \in Links, \A k \in Links : u[k] \subseteq u[l] /\ u[k] # u[l] => k \in B
      PROVE  l \in B
  <2> SUFFICES ASSUME link[l] # Null
               PROVE  Last1(link, id, u, side, l, f[l])
    OBVIOUS
  <2>1. f[l] = IF link[Child(link[l], side)] = Null THEN l ELSE f[Child(link[l], side)]
    BY DEF IsOutermost
  <2>2. PICK x, n : x = link[l] /\ n = Child(x, side)
    OBVIOUS
  <2>3. /\ x \in Addr /\ x # Null /\ n \in Links /\ n \in {k \in Links : u[k] \subseteq u[l] /\ u[k] # u[l]}
    BY <2>2, TreeFacts
  <2>4. \A s \in Sides : \A y \in u[Child(x, s)] : Ordered(id[y], s, id[x]) /\ y \in Addr
    BY <2>3, Places, TreeFacts DEF Tree
  <2>5. \A y \in u[l] : y = x \/ y \in u[n] \/ y \in u[Child(x, Other(side))]
    BY <2>2, TreeFacts DEF Other, Sides
  <2>6. \A y \in Addr : id[y] \in Nat
    BY DEF Tree
  <2>7. CASE link[n] = Null
    <3>1. u[n] = {}
      BY <2>3, <2>7 DEF Tree
    <3>2. f[l] = l
      BY <2>1, <2>2, <2>7
    <3>3. \A y \in u[l] : y = x \/ Ordered(id[y], Other(side), id[x])
      BY <2>4, <2>5, <3>1 DEF Other, Sides
    <3> QED
      BY <2>2, <2>3, <2>7, <3>2, <3>3 DEF Last1, At
  <2>8. CASE link[n] # Null
    <3>1. n \in B
      BY <1>1, <2>3
    <3>2. f[l] = f[n]
      BY <2>1, <2>2, <2>8
    <3>3. Last1(link, id, u, side, n, f[l])
      BY <2>8, <3>1, <3>2
    <3>4. PICK k, y : k = f[l] /\ y = link[k]
      OBVIOUS
    <3>5. /\ k \in Links /\ At(u, k, n) /\ y # Null
          /\ link[Child(y, side)] = Null
          /\ \A w \in u[n] : w = y \/ Ordered(id[w], Other(side), id[y])
      BY <3>3, <3>4 DEF Last1
    <3>6. At(u, k, l)
      BY <2>2, <2>3, <3>5, AtUp
    <3>7. y \in u[n] /\ y \in Addr
      BY <2>3, <3>4, <3>5, AtDown, TreeFacts
    <3>8. Ordered(id[y], side, id[x])
      BY <2>2, <2>4, <3>7
    <3>9. ASSUME NEW w \in u[l]
          PROVE  w = y \/ Ordered(id[w], Other(side), id[y])
      <4>1. CASE w = x
        BY <2>3, <2>6, <3>7, <3>8, <4>1 DEF Ordered, Other, Sides
      <4>2. CASE w \in u[n]
        BY <3>5, <4>2
      <4>3. CASE w \in u[Child(x, Other(side))]
        <5>1. Ordered(id[w], Other(side), id[x]) /\ w \in Addr
          BY <2>4, <4>3 DEF Other, Sides
        <5> QED
          BY <2>3, <2>6, <3>7, <3>8, <5>1 DEF Ordered, Other, Sides
      <4> QED
        BY <2>5, <4>1, <4>2, <4>3
    <3> QED
      BY <3>4, <3>5, <3>6, <3>9 DEF Last1
  <2> QED
    BY <2>7, <2>8
<1>2. u \in [Links -> SUBSET Addr]
  BY TreeFacts
<1> HIDE DEF B
<1>3. \A l \in Links : l \in B
  BY <1>1, <1>2, TreeInduction
<1> QED
  BY <1>3 DEF B

\* Outermost gives the link to the last node of that side.
LEMMA OutermostIs ==
  ASSUME NEW c, NEW u, Tree(c.link, c.id, u), NEW side \in Sides, NEW l \in Links,
         c.link[l] # Null
  PROVE  Last1(c.link, c.id, u, side, l, Outermost(c, l, side))
<1>1. PICK f : IsOutermost(f, c.link, side) /\ Outermost(c, l, side) = f[l]
  BY OutermostExists, OutermostUnfolds
<1> QED
  BY <1>1, OutermostEnds

-----------------------------------------------------------------------------
(* A node added where a search ends, and a leaf removed. *)

\* Entries outside the tree have no children, but for x.
Bare(u, x) == \A z \in Addr, s \in Sides : z \notin u[Root] /\ z # x => u[Child(z, s)] = {}

\* The links with x, without children, at l.
GraftedLink(link, l, x) ==
  [k \in Links |-> IF k = l THEN x
                   ELSE IF k = Child(x, "left") \/ k = Child(x, "right") THEN Null
                   ELSE link[k]]

GraftedUnder(u, l, x) ==
  [k \in Links |-> IF k = Child(x, "left") \/ k = Child(x, "right") THEN {}
                   ELSE IF At(u, l, k) THEN u[k] \cup {x} ELSE u[k]]

\* A node is added where the search for its identifier ends.
LEMMA Grafted ==
  ASSUME NEW link, NEW id, NEW u, Tree(link, id, u), NEW x \in Addr, x \notin u[Root],
         Bare(u, x), NEW m \in Nat, NEW l, Ends(link, id, u, m, Root, l), link[l] = Null
  PROVE  /\ Tree(GraftedLink(link, l, x), [id EXCEPT ![x] = m], GraftedUnder(u, l, x))
         /\ GraftedUnder(u, l, x)[Root] = u[Root] \cup {x}
<1> DEFINE nl == GraftedLink(link, l, x)
           nu == GraftedUnder(u, l, x)
           ni == [id EXCEPT ![x] = m]
           own == {Child(x, "left"), Child(x, "right")}
<1>1. /\ u \in [Links -> SUBSET Addr] /\ link \in [Links -> Addr \cup {Null}]
      /\ id \in [Addr -> Nat] /\ \A k \in Links : u[k] \subseteq u[Root]
  BY DEF Tree
<1>2. /\ l \in Links /\ At(u, l, Root)
      /\ \A z \in u[Root], s \in Sides : At(u, l, Child(z, s)) => Ordered(m, s, id[z])
  BY DEF Ends
<1>3. /\ Root \in Links /\ \A z \in Addr, s \in Sides : Child(z, s) \in Links /\ Child(z, s) # Root
      /\ x # Null /\ \A z \in Addr : z # Null
  BY Places
<1>4. l \notin own
  <2> SUFFICES ASSUME NEW s \in Sides, l = Child(x, s)
               PROVE  FALSE
    BY DEF Sides
  <2>1. l # Root
    BY <1>3
  <2>2. l[1] = x
    BY DEF Child
  <2> QED
    BY <1>2, <2>1, <2>2 DEF At
<1>5. /\ \A k \in Links : k \notin own => nl[k] = IF k = l THEN x ELSE link[k]
      /\ nl[l] = x /\ \A k \in own : nl[k] = Null /\ nu[k] = {}
      /\ \A k \in Links : k \notin own => nu[k] = IF At(u, l, k) THEN u[k] \cup {x} ELSE u[k]
  BY <1>2, <1>3, <1>4 DEF GraftedLink, GraftedUnder, Sides
<1>6. nl \in [Links -> Addr \cup {Null}] /\ nu \in [Links -> SUBSET Addr] /\ ni \in [Addr -> Nat]
  BY <1>1 DEF GraftedLink, GraftedUnder
<1>7. nu[Root] = u[Root] \cup {x}
  BY <1>2, <1>3, <1>5 DEF Sides
<1>8. \A k \in Links : nu[k] \subseteq nu[Root]
  BY <1>1, <1>5, <1>7
<1>9. u[l] = {}
  BY <1>2 DEF Tree
<1>10. \A z \in Addr, s \in Sides : z # x => Child(z, s) \notin own
  BY DEF Child
<1>11. ASSUME NEW k \in Links, nl[k] = Null
       PROVE  nu[k] = {}
  <2>1. CASE k \in own
    BY <1>5, <2>1
  <2>2. CASE k \notin own
    <3>1. k # l /\ link[k] = Null
      BY <1>3, <1>5, <1>11, <2>2
    <3>2. u[k] = {}
      BY <3>1 DEF Tree
    <3>3. ~At(u, l, k)
      BY <3>1, <3>2 DEF At
    <3> QED
      BY <1>5, <2>2, <3>2, <3>3
  <2> QED
    BY <2>1, <2>2
<1>12. ASSUME NEW k \in Links, nl[k] # Null
       PROVE  nu[k] = {nl[k]} \cup nu[Child(nl[k], "left")] \cup nu[Child(nl[k], "right")]
  <2>1. k \notin own
    BY <1>5, <1>12
  <2>2. CASE k = l
    <3>1. nl[k] = x /\ nu[k] = {x}
      BY <1>5, <1>9, <2>1, <2>2 DEF At
    <3>2. nu[Child(x, "left")] = {} /\ nu[Child(x, "right")] = {}
      BY <1>5
    <3> QED
      BY <3>1, <3>2
  <2>3. CASE k # l
    <3>1. PICK w : w = link[k]
      OBVIOUS
    <3>2. nl[k] = w /\ w # Null
      BY <1>5, <1>12, <2>1, <2>3, <3>1
    <3>3. w \in u[k] /\ w \in Addr /\ w # x
      BY <1>1, <3>1, <3>2, TreeFacts
    <3>4. u[k] = {w} \cup u[Child(w, "left")] \cup u[Child(w, "right")]
      BY <3>1, <3>2 DEF Tree
    <3>5. /\ Child(w, "left") \notin own /\ Child(w, "right") \notin own
          /\ Child(w, "left") \in Links /\ Child(w, "right") \in Links
      BY <1>3, <1>10, <3>3 DEF Sides
    <3>6. At(u, l, k) <=> At(u, l, Child(w, "left")) \/ At(u, l, Child(w, "right"))
      <4>1. ASSUME At(u, l, k)
            PROVE  At(u, l, Child(w, "left")) \/ At(u, l, Child(w, "right"))
        BY <1>2, <2>3, <3>1, <4>1, AtDown DEF Sides
      <4>2. ASSUME NEW s \in Sides, At(u, l, Child(w, s))
            PROVE  At(u, l, k)
        BY <1>2, <3>1, <3>2, <4>2, AtUp
      <4> QED
        BY <4>1, <4>2 DEF Sides
    <3>7. /\ nu[k] = IF At(u, l, k) THEN u[k] \cup {x} ELSE u[k]
          /\ nu[Child(w, "left")] = IF At(u, l, Child(w, "left"))
               THEN u[Child(w, "left")] \cup {x} ELSE u[Child(w, "left")]
          /\ nu[Child(w, "right")] = IF At(u, l, Child(w, "right"))
               THEN u[Child(w, "right")] \cup {x} ELSE u[Child(w, "right")]
      BY <1>5, <2>1, <3>5
    <3> HIDE DEF nu, nl, own
    <3> QED
      BY <3>2, <3>4, <3>6, <3>7
  <2> QED
    BY <2>2, <2>3
<1>13. ASSUME NEW z \in Addr, NEW s \in Sides, NEW y \in nu[Child(z, s)]
       PROVE  Ordered(ni[y], s, ni[z])
  <2>1. z # x
    BY <1>5, <1>13 DEF Sides
  <2>2. Child(z, s) \notin own /\ Child(z, s) \in Links
    BY <1>3, <1>10, <2>1
  <2>3. ni[z] = id[z]
    BY <1>1, <2>1
  <2>4. CASE y = x
    <3>1. x \notin u[Child(z, s)]
      BY <1>1, <2>2
    <3>2. At(u, l, Child(z, s))
      BY <1>5, <1>13, <2>2, <2>4, <3>1
    <3>3. z \in u[Root]
      <4> SUFFICES ASSUME z \notin u[Root]
                   PROVE  FALSE
        OBVIOUS
      <4>1. u[Child(z, s)] = {}
        BY <2>1 DEF Bare
      <4>2. l = Child(z, s)
        BY <3>2, <4>1 DEF At
      <4> QED
        BY <1>2, <1>3, <4>2 DEF At, Child
    <3>4. Ordered(m, s, id[z])
      BY <1>2, <3>2, <3>3
    <3>5. ni[y] = m
      BY <1>1, <2>4
    <3> QED
      BY <2>3, <3>4, <3>5
  <2>5. CASE y # x
    <3>1. y \in u[Child(z, s)]
      <4>1. nu[Child(z, s)] = IF At(u, l, Child(z, s)) THEN u[Child(z, s)] \cup {x}
                              ELSE u[Child(z, s)]
        BY <1>5, <2>2
      <4> HIDE DEF nu
      <4> QED
        BY <1>13, <2>5, <4>1
    <3>2. y \in Addr /\ Ordered(id[y], s, id[z])
      BY <1>1, <2>2, <3>1 DEF Tree
    <3>3. ni[y] = id[y]
      BY <1>1, <2>5, <3>2
    <3> QED
      BY <2>3, <3>2, <3>3
  <2> QED
    BY <2>4, <2>5
<1> HIDE DEF nl, nu, ni
<1>14. Tree(nl, ni, nu)
  BY <1>6, <1>8, <1>11, <1>12, <1>13 DEF Tree
<1> QED
  BY <1>7, <1>14 DEF nl, nu, ni

\* A node without children is taken out.
LEMMA LeafRemoved ==
  ASSUME NEW link, NEW id, NEW u, Tree(link, id, u), NEW x \in Addr,
         NEW a \in Links, link[a] = x, \A k \in Links : link[k] = x => k = a,
         \A s \in Sides : u[Child(x, s)] = {}
  PROVE  Tree([link EXCEPT ![a] = Null], id, [k \in Links |-> u[k] \ {x}])
<1> DEFINE nl == [link EXCEPT ![a] = Null]
           nu == [k \in Links |-> u[k] \ {x}]
<1>1. /\ u \in [Links -> SUBSET Addr] /\ link \in [Links -> Addr \cup {Null}]
      /\ id \in [Addr -> Nat] /\ \A k \in Links : u[k] \subseteq u[Root]
  BY DEF Tree
<1>2. \A k \in Links : nl[k] = IF k = a THEN Null ELSE link[k]
  BY <1>1
<1>3. \A k \in Links : nu[k] = u[k] \ {x}
  OBVIOUS
<1>4. x # Null /\ Root \in Links /\ \A z \in Addr, s \in Sides : Child(z, s) \in Links
  BY Places
<1>5. nl \in [Links -> Addr \cup {Null}] /\ nu \in [Links -> SUBSET Addr]
  BY <1>1
<1>6. u[a] = {x}
  <2>1. u[a] = {link[a]} \cup u[Child(link[a], "left")] \cup u[Child(link[a], "right")]
    BY <1>4 DEF Tree
  <2> QED
    BY <2>1 DEF Sides
<1> HIDE DEF nl, nu
<1>7. \A k \in Links : nl[k] = Null => nu[k] = {}
  BY <1>2, <1>3, <1>6 DEF Tree
<1>8. ASSUME NEW k \in Links, nl[k] # Null
      PROVE  nu[k] = {nl[k]} \cup nu[Child(nl[k], "left")] \cup nu[Child(nl[k], "right")]
  <2>1. PICK w : w = link[k]
    OBVIOUS
  <2>2. nl[k] = w /\ w # Null /\ w # x
    BY <1>2, <1>8, <2>1
  <2>3. u[k] = {w} \cup u[Child(w, "left")] \cup u[Child(w, "right")]
    BY <2>1, <2>2 DEF Tree
  <2>4. Child(w, "left") \in Links /\ Child(w, "right") \in Links
    BY <2>1, <2>2, TreeFacts DEF Sides
  <2>5. /\ nu[k] = u[k] \ {x} /\ nu[Child(w, "left")] = u[Child(w, "left")] \ {x}
        /\ nu[Child(w, "right")] = u[Child(w, "right")] \ {x}
    BY <1>3, <2>4
  <2> QED
    BY <2>2, <2>3, <2>5
<1>9. \A z \in Addr, s \in Sides : \A y \in nu[Child(z, s)] : Ordered(id[y], s, id[z])
  BY <1>3, <1>4 DEF Tree
<1>10. \A k \in Links : nu[k] \subseteq nu[Root]
  BY <1>1, <1>3, <1>4
<1>11. Tree(nl, id, nu)
  BY <1>1, <1>5, <1>7, <1>8, <1>9, <1>10 DEF Tree
<1> QED
  BY <1>11 DEF nl, nu

-----------------------------------------------------------------------------
(* remove_node of an entry x with a child: y, the last of one side below x, takes the
   place of x, and the only child of y takes the place of y. *)

\* The replacement y, to which b points, takes the place of x, to which a points;
\* z takes the place of y.
MovedLink(link, a, b, y, z) == [k \in Links |-> IF k = a THEN y ELSE IF k = b THEN z ELSE link[k]]

ReplacedLink(link, a, b, x, y, z) ==
  [k \in Links |-> IF k = Child(y, "left") THEN MovedLink(link, a, b, y, z)[Child(x, "left")]
                   ELSE IF k = Child(y, "right") THEN MovedLink(link, a, b, y, z)[Child(x, "right")]
                   ELSE MovedLink(link, a, b, y, z)[k]]

MovedUnder(u, x, y) == [k \in Links |-> IF x \in u[k] THEN u[k] \ {x} ELSE u[k] \ {y}]

ReplacedUnder(u, x, y) ==
  [k \in Links |-> IF k = Child(y, "left") THEN MovedUnder(u, x, y)[Child(x, "left")]
                   ELSE IF k = Child(y, "right") THEN MovedUnder(u, x, y)[Child(x, "right")]
                   ELSE MovedUnder(u, x, y)[k]]

\* y may replace x, from the side s.
Replaces(link, id, u, a, b, x, y, z, s) ==
  /\ x \in Addr /\ a \in Links /\ link[a] = x /\ \A k \in Links : link[k] = x => k = a
  /\ y \in Addr /\ b \in Links /\ link[b] = y /\ \A k \in Links : link[k] = y => k = b
  /\ s \in Sides /\ At(u, b, Child(x, s))
  /\ link[Child(y, Other(s))] = Null /\ z = link[Child(y, s)]
  /\ \A w \in u[Child(x, s)] : w = y \/ Ordered(id[w], s, id[y])

\* How x, its replacement y and the links to them lie to each other.
LEMMA ReplacementFacts ==
  ASSUME NEW link, NEW id, NEW u, Tree(link, id, u), NEW a, NEW b, NEW x, NEW y, NEW z, NEW s,
         Replaces(link, id, u, a, b, x, y, z, s)
  PROVE  /\ x # y /\ y \in u[Child(x, s)] /\ Ordered(id[y], s, id[x])
         /\ \A t \in Sides : x \notin u[Child(x, t)] /\ y \notin u[Child(y, t)] /\ x \notin u[Child(y, t)]
         /\ y \notin u[Child(x, Other(s))] /\ Other(s) \in Sides /\ Other(s) # s
         /\ x \notin u[b] /\ u[b] = {y} \cup u[Child(y, s)]
         /\ \A k \in Links : x \in u[k] => y \in u[k]
         /\ \A t \in Sides : a # Child(x, t) /\ a # Child(y, t) /\ b # Child(y, t)
         /\ a # b
<1>1. /\ x \in Addr /\ y \in Addr /\ id[x] \in Nat /\ id[y] \in Nat /\ x # Null /\ y # Null
      /\ \A t \in Sides : Child(x, t) \in Links /\ Child(y, t) \in Links
  BY Places DEF Replaces, Tree
<1>2. \A v \in Addr, t \in Sides : v \notin u[Child(v, t)]
  <2> SUFFICES ASSUME NEW v \in Addr, NEW t \in Sides, v \in u[Child(v, t)]
               PROVE  FALSE
    OBVIOUS
  <2>1. Ordered(id[v], t, id[v]) /\ id[v] \in Nat
    BY DEF Tree
  <2> QED
    BY <2>1 DEF Ordered
<1>3. s \in Sides /\ Other(s) \in Sides /\ Other(s) # s
  BY DEF Replaces, Sides, Other
<1>4. y \in u[b] /\ u[b] \subseteq u[Child(x, s)]
  BY <1>1, <1>3, AtDown, TreeFacts DEF Replaces
<1>5. y \in u[Child(x, s)] /\ Ordered(id[y], s, id[x])
  BY <1>1, <1>3, <1>4 DEF Tree
<1>6. x # y
  BY <1>1, <1>2, <1>3, <1>5
<1>7. y \notin u[Child(x, Other(s))]
  <2> SUFFICES ASSUME y \in u[Child(x, Other(s))]
               PROVE  FALSE
    OBVIOUS
  <2>1. Ordered(id[y], Other(s), id[x])
    BY <1>1, <1>3 DEF Tree
  <2> QED
    BY <1>1, <1>3, <1>5, <2>1 DEF Ordered, Other, Sides
<1>8. x \notin u[b]
  BY <1>1, <1>2, <1>3, <1>4
<1>9. u[b] = {y} \cup u[Child(y, s)]
  <2>1. u[b] = {y} \cup u[Child(y, "left")] \cup u[Child(y, "right")]
    BY <1>1 DEF Tree, Replaces
  <2>2. u[Child(y, Other(s))] = {}
    BY <1>1, <1>3 DEF Tree, Replaces
  <2> QED
    BY <1>3, <2>1, <2>2 DEF Sides, Other
<1>10. \A t \in Sides : x \notin u[Child(y, t)]
  <2>1. \A t \in Sides : u[Child(y, t)] \subseteq u[b]
    BY <1>1, TreeFacts DEF Replaces
  <2> QED
    BY <1>8, <2>1
<1>11. \A k \in Links : x \in u[k] => y \in u[k]
  BY <1>3, <1>5, UnderIn
<1>12. \A t \in Sides : a # Child(x, t) /\ a # Child(y, t) /\ b # Child(y, t)
  <2>1. link[a] = x /\ link[b] = y
    BY DEF Replaces
  <2>2. \A t \in Sides : link[Child(x, t)] # x /\ link[Child(y, t)] # x /\ link[Child(y, t)] # y
    <3>1. \A t \in Sides : x \notin u[Child(x, t)] /\ x \notin u[Child(y, t)] /\ y \notin u[Child(y, t)]
      BY <1>1, <1>2, <1>10
    <3> QED
      BY <1>1, <3>1, TreeFacts
  <2> QED
    BY <2>1, <2>2
<1>13. a # b
  BY <1>6 DEF Replaces
<1> QED
  BY <1>1, <1>2, <1>3, <1>5, <1>6, <1>7, <1>8, <1>9, <1>10, <1>11, <1>12, <1>13

\* The link whose content k gets.
Source(x, y, k) ==
  IF k = Child(y, "left") THEN Child(x, "left")
  ELSE IF k = Child(y, "right") THEN Child(x, "right") ELSE k

ChildrenMoved(u, nu, x, y) ==
  \A v \in Addr, t \in Sides :
    nu[Child(v, t)] = IF v = y THEN u[Child(x, t)] \ {y}
                      ELSE IF x \in u[Child(v, t)] THEN u[Child(v, t)] \ {x}
                      ELSE u[Child(v, t)] \ {y}

\* The place j, which is not of y, then points to v, with w under it.
Moves(link, u, a, b, x, y, z, j, w, v) ==
  /\ j \in Links /\ j # Child(y, "left") /\ j # Child(y, "right")
  /\ w = IF x \in u[j] THEN u[j] \ {x} ELSE u[j] \ {y}
  /\ v = IF j = a THEN y ELSE IF j = b THEN z ELSE link[j]

\* Every place but those of y is as it should be.
LEMMA PlaceMoved ==
  ASSUME NEW link, NEW id, NEW u, Tree(link, id, u), NEW a, NEW b, NEW x, NEW y, NEW z, NEW s,
         Replaces(link, id, u, a, b, x, y, z, s),
         NEW nu, ChildrenMoved(u, nu, x, y),
         NEW j, NEW w, NEW v, Moves(link, u, a, b, x, y, z, j, w, v)
  PROVE  /\ v = Null => w = {}
         /\ v # Null => v \in Addr /\
              w = {v} \cup nu[Child(v, "left")] \cup nu[Child(v, "right")]
<1>1. /\ x \in Addr /\ y \in Addr /\ x # Null /\ y # Null /\ s \in Sides
      /\ a \in Links /\ b \in Links /\ link[a] = x /\ link[b] = y
      /\ \A k \in Links : (link[k] = x => k = a) /\ (link[k] = y => k = b)
      /\ link[Child(y, Other(s))] = Null /\ z = link[Child(y, s)]
      /\ \A t \in Sides : Child(x, t) \in Links /\ Child(y, t) \in Links
  BY Places DEF Replaces
<1>0. /\ j \in Links /\ j # Child(y, "left") /\ j # Child(y, "right")
      /\ w = IF x \in u[j] THEN u[j] \ {x} ELSE u[j] \ {y}
      /\ v = IF j = a THEN y ELSE IF j = b THEN z ELSE link[j]
      /\ \A q \in Addr, t \in Sides :
           nu[Child(q, t)] = IF q = y THEN u[Child(x, t)] \ {y}
                             ELSE IF x \in u[Child(q, t)] THEN u[Child(q, t)] \ {x}
                             ELSE u[Child(q, t)] \ {y}
  BY DEF Moves, ChildrenMoved
<1>2. /\ x # y /\ y \in u[Child(x, s)]
      /\ \A t \in Sides : x \notin u[Child(x, t)] /\ y \notin u[Child(y, t)] /\ x \notin u[Child(y, t)]
      /\ y \notin u[Child(x, Other(s))] /\ Other(s) \in Sides /\ Other(s) # s
      /\ x \notin u[b] /\ u[b] = {y} \cup u[Child(y, s)]
      /\ \A k \in Links : x \in u[k] => y \in u[k]
      /\ a # b
  BY ReplacementFacts
<1>3. CASE j = a
  <2>1. v = y /\ w = u[a] \ {x}
    BY <1>0, <1>1, <1>3, TreeFacts
  <2>2. u[a] = {x} \cup u[Child(x, "left")] \cup u[Child(x, "right")]
    BY <1>1 DEF Tree
  <2>3. /\ nu[Child(y, "left")] = u[Child(x, "left")] \ {y}
        /\ nu[Child(y, "right")] = u[Child(x, "right")] \ {y}
    BY <1>0, <1>1 DEF Sides
  <2>4. /\ x \notin u[Child(x, "left")] /\ x \notin u[Child(x, "right")]
        /\ y \in u[Child(x, "left")] \/ y \in u[Child(x, "right")]
    BY <1>1, <1>2 DEF Sides
  <2>5. w = {y} \cup nu[Child(y, "left")] \cup nu[Child(y, "right")]
    BY <1>2, <2>1, <2>2, <2>3, <2>4
  <2> QED
    BY <1>1, <2>1, <2>5
<1>4. CASE j = b
  <2>1. v = z /\ w = u[b] \ {y}
    BY <1>0, <1>2, <1>4
  <2>2. w = u[Child(y, s)]
    <3>1. y \notin u[Child(y, s)] /\ u[b] = {y} \cup u[Child(y, s)]
      BY <1>1, <1>2
    <3> QED
      BY <2>1, <3>1
  <2>3. CASE z = Null
    BY <1>1, <2>1, <2>2, <2>3 DEF Tree
  <2>4. CASE z # Null
    <3>1. u[Child(y, s)] = {z} \cup u[Child(z, "left")] \cup u[Child(z, "right")]
      BY <1>1, <2>4 DEF Tree
    <3>2. z \in Addr /\ z \in u[Child(y, s)]
      BY <1>1, <2>4, TreeFacts
    <3>3. z # y /\ y \notin u[Child(y, s)] /\ x \notin u[Child(y, s)]
      BY <1>1, <1>2, <3>2
    <3>4. \A t \in Sides : nu[Child(z, t)] = u[Child(z, t)]
      <4>1. \A t \in Sides : u[Child(z, t)] \subseteq u[Child(y, s)]
        BY <3>1 DEF Sides
      <4> SUFFICES ASSUME NEW t \in Sides
                   PROVE  nu[Child(z, t)] = u[Child(z, t)]
        OBVIOUS
      <4>2. nu[Child(z, t)] = IF x \in u[Child(z, t)] THEN u[Child(z, t)] \ {x}
                              ELSE u[Child(z, t)] \ {y}
        BY <1>0, <3>2, <3>3
      <4>3. x \notin u[Child(z, t)] /\ y \notin u[Child(z, t)]
        BY <3>3, <4>1
      <4> QED
        BY <4>2, <4>3
    <3> QED
      BY <2>1, <2>2, <2>4, <3>1, <3>2, <3>4 DEF Sides
  <2> QED
    BY <2>3, <2>4
<1>5. CASE j # a /\ j # b
  <2>1. v = link[j]
    BY <1>0, <1>5
  <2>2. CASE v = Null
    BY <1>0, <2>1, <2>2 DEF Tree
  <2>3. CASE v # Null
    <3>1. u[j] = {v} \cup u[Child(v, "left")] \cup u[Child(v, "right")]
      BY <1>0, <2>1, <2>3 DEF Tree
    <3>2. v \in Addr /\ v # x /\ v # y
      BY <1>0, <1>1, <1>5, <2>1, <2>3, TreeFacts
    <3>3. \A t \in Sides : nu[Child(v, t)] =
            IF x \in u[Child(v, t)] THEN u[Child(v, t)] \ {x} ELSE u[Child(v, t)] \ {y}
      BY <1>0, <3>2
    <3>4. CASE x \notin u[j]
      <4>1. \A t \in Sides : nu[Child(v, t)] = u[Child(v, t)] \ {y}
        BY <3>1, <3>3, <3>4 DEF Sides
      <4>2. w = u[j] \ {y}
        BY <1>0, <3>4
      <4> QED
        BY <2>3, <3>1, <3>2, <4>1, <4>2 DEF Sides
    <3>5. CASE x \in u[j]
      <4>1. PICK t \in Sides : x \in u[Child(v, t)]
        BY <3>1, <3>2, <3>5 DEF Sides
      <4>2. Other(t) \in Sides /\ Child(v, t) \in Links /\ Child(v, Other(t)) \in Links
        BY <3>2, Places DEF Other, Sides
      <4>3. y \in u[Child(v, t)]
        BY <1>2, <4>1, <4>2
      <4>4. ~(x \in u[Child(v, Other(t))]) /\ ~(y \in u[Child(v, Other(t))])
        <5>1. \A q \in Addr : id[q] \in Nat
          BY DEF Tree
        <5>2. \A q \in {x, y} : Ordered(id[q], t, id[v])
          BY <3>2, <4>1, <4>3 DEF Tree
        <5>3. \A q \in {x, y} : q \in u[Child(v, Other(t))] => Ordered(id[q], Other(t), id[v])
          BY <3>2, <4>2 DEF Tree
        <5>4. \A q \in {x, y} : ~(Ordered(id[q], t, id[v]) /\ Ordered(id[q], Other(t), id[v]))
          BY <1>1, <3>2, <5>1 DEF Ordered, Other
        <5> QED
          BY <5>2, <5>3, <5>4
      <4>5. /\ nu[Child(v, t)] = u[Child(v, t)] \ {x}
            /\ nu[Child(v, Other(t))] = u[Child(v, Other(t))]
        <5>1. nu[Child(v, t)] = u[Child(v, t)] \ {x}
          BY <3>3, <4>1
        <5>2. nu[Child(v, Other(t))] = u[Child(v, Other(t))] \ {y}
          BY <3>3, <4>2, <4>4
        <5> QED
          BY <4>4, <5>1, <5>2
      <4>6. u[j] = {v} \cup u[Child(v, t)] \cup u[Child(v, Other(t))]
        BY <3>1 DEF Other, Sides
      <4>7. w = {v} \cup nu[Child(v, t)] \cup nu[Child(v, Other(t))]
        BY <1>0, <3>2, <3>5, <4>4, <4>5, <4>6
      <4>8. w = {v} \cup nu[Child(v, "left")] \cup nu[Child(v, "right")]
        BY <4>7 DEF Other, Sides
      <4> QED
        BY <2>3, <3>2, <4>8
    <3> QED
      BY <3>4, <3>5
  <2> QED
    BY <2>2, <2>3
<1> QED
  BY <1>3, <1>4, <1>5

\* With y in the place of x, and without its own place, the tree is a tree.
LEMMA Replaced ==
  ASSUME NEW link, NEW id, NEW u, Tree(link, id, u), NEW a, NEW b, NEW x, NEW y, NEW z, NEW s,
         Replaces(link, id, u, a, b, x, y, z, s)
  PROVE  /\ Tree(ReplacedLink(link, a, b, x, y, z), id, ReplacedUnder(u, x, y))
         /\ x \in u[Root] => ReplacedUnder(u, x, y)[Root] = u[Root] \ {x}
         /\ ChildrenMoved(u, ReplacedUnder(u, x, y), x, y)
<1>1. PICK nl, nu : nl = ReplacedLink(link, a, b, x, y, z) /\ nu = ReplacedUnder(u, x, y)
  OBVIOUS
<1>2. /\ x \in Addr /\ y \in Addr /\ x # Null /\ y # Null /\ s \in Sides
      /\ Root \in Links
      /\ \A v \in Addr, t \in Sides : Child(v, t) \in Links /\ Child(v, t) # Root
  BY Places DEF Replaces
<1>3. /\ x # y /\ Ordered(id[y], s, id[x])
      /\ \A t \in Sides : x \notin u[Child(x, t)]
      /\ y \notin u[Child(x, Other(s))] /\ Other(s) \in Sides /\ Other(s) # s
      /\ \A k \in Links : x \in u[k] => y \in u[k]
  BY ReplacementFacts
<1>4. /\ u \in [Links -> SUBSET Addr] /\ link \in [Links -> Addr \cup {Null}]
      /\ id \in [Addr -> Nat] /\ \A k \in Links : u[k] \subseteq u[Root]
  BY DEF Tree
<1> DEFINE w(k) == IF x \in u[k] THEN u[k] \ {x} ELSE u[k] \ {y}
           v(k) == IF k = a THEN y ELSE IF k = b THEN z ELSE link[k]
<1>5. \A k \in Links :
        /\ Source(x, y, k) \in Links
        /\ Source(x, y, k) # Child(y, "left") /\ Source(x, y, k) # Child(y, "right")
        /\ nl[k] = v(Source(x, y, k)) /\ nu[k] = w(Source(x, y, k))
  <2>1. \A t \in Sides : /\ Child(x, t) \in Links
                         /\ Child(x, t) # Child(y, "left") /\ Child(x, t) # Child(y, "right")
    BY <1>2, <1>3 DEF Child
  <2> QED
    BY <1>1, <2>1 DEF Source, ReplacedLink, ReplacedUnder, MovedLink, MovedUnder, Sides
<1>6. \A q \in Addr, t \in Sides :
        nu[Child(q, t)] = IF q = y THEN u[Child(x, t)] \ {y}
                          ELSE IF x \in u[Child(q, t)] THEN u[Child(q, t)] \ {x}
                          ELSE u[Child(q, t)] \ {y}
  <2> SUFFICES ASSUME NEW q \in Addr, NEW t \in Sides
               PROVE  nu[Child(q, t)] = IF q = y THEN u[Child(x, t)] \ {y}
                          ELSE IF x \in u[Child(q, t)] THEN u[Child(q, t)] \ {x}
                          ELSE u[Child(q, t)] \ {y}
    OBVIOUS
  <2>1. nu[Child(q, t)] = w(Source(x, y, Child(q, t)))
    BY <1>2, <1>5
  <2>2. CASE q = y
    <3>1. Source(x, y, Child(q, t)) = Child(x, t)
      BY <2>2 DEF Source, Child, Sides
    <3> QED
      BY <1>3, <2>1, <2>2, <3>1
  <2>3. CASE q # y
    <3>1. Source(x, y, Child(q, t)) = Child(q, t)
      BY <2>3 DEF Source, Child
    <3> QED
      BY <2>1, <2>3, <3>1
  <2> QED
    BY <2>2, <2>3
<1>7. ASSUME NEW k \in Links
      PROVE  /\ nl[k] = Null => nu[k] = {}
             /\ nl[k] # Null => nl[k] \in Addr /\
                  nu[k] = {nl[k]} \cup nu[Child(nl[k], "left")] \cup nu[Child(nl[k], "right")]
  <2>1. PICK j : j = Source(x, y, k)
    OBVIOUS
  <2>2. /\ j \in Links /\ j # Child(y, "left") /\ j # Child(y, "right")
        /\ nl[k] = IF j = a THEN y ELSE IF j = b THEN z ELSE link[j]
        /\ nu[k] = IF x \in u[j] THEN u[j] \ {x} ELSE u[j] \ {y}
    BY <1>5, <2>1
  <2>3. PICK ww, vv : /\ ww = IF x \in u[j] THEN u[j] \ {x} ELSE u[j] \ {y}
                      /\ vv = IF j = a THEN y ELSE IF j = b THEN z ELSE link[j]
    OBVIOUS
  <2>4. nl[k] = vv /\ nu[k] = ww
    BY <2>2, <2>3
  <2> HIDE DEF v, w
  <2>5. /\ vv = Null => ww = {}
        /\ vv # Null => vv \in Addr /\
             ww = {vv} \cup nu[Child(vv, "left")] \cup nu[Child(vv, "right")]
    <3>1. Moves(link, u, a, b, x, y, z, j, ww, vv)
      BY <2>2, <2>3 DEF Moves
    <3>2. ChildrenMoved(u, nu, x, y)
      BY <1>6 DEF ChildrenMoved
    <3> QED
      BY <3>1, <3>2, PlaceMoved
  <2> QED
    BY <2>4, <2>5
<1>8. \A k \in Links : nu[k] \subseteq u[Root] \ {x}
  <2> SUFFICES ASSUME NEW k \in Links
               PROVE  nu[k] \subseteq u[Root] \ {x}
    OBVIOUS
  <2>1. PICK j \in Links : nu[k] = IF x \in u[j] THEN u[j] \ {x} ELSE u[j] \ {y}
    BY <1>5
  <2>2. u[j] \subseteq u[Root]
    BY <1>4
  <2> QED
    BY <2>1, <2>2
<1>9. nu[Root] = IF x \in u[Root] THEN u[Root] \ {x} ELSE u[Root] \ {y}
  <2>1. Source(x, y, Root) = Root
    BY <1>2 DEF Source, Sides
  <2> QED
    BY <1>2, <1>5, <2>1
<1>10. \A k \in Links : nu[k] \subseteq nu[Root]
  <2>1. CASE x \in u[Root]
    BY <1>8, <1>9, <2>1
  <2>2. CASE x \notin u[Root]
    <3>1. \A k \in Links : x \notin u[k]
      BY <1>4, <2>2
    <3>2. \A k \in Links : nu[k] = u[Source(x, y, k)] \ {y}
      BY <1>5, <3>1
    <3> QED
      BY <1>4, <1>5, <1>9, <2>2, <3>2
  <2> QED
    BY <2>1, <2>2
<1>11. ASSUME NEW q \in Addr, NEW t \in Sides, NEW p \in nu[Child(q, t)]
       PROVE  Ordered(id[p], t, id[q])
  <2>1. CASE q # y
    <3>1. p \in u[Child(q, t)]
      BY <1>6, <1>11, <2>1
    <3> QED
      BY <3>1 DEF Tree
  <2>2. CASE q = y
    <3>1. p \in u[Child(x, t)] /\ p # y
      BY <1>6, <1>11, <2>2
    <3>2. CASE t = s
      BY <2>2, <3>1, <3>2 DEF Replaces
    <3>3. CASE t # s
      <4>1. Ordered(id[p], t, id[x]) /\ p \in Addr
        BY <1>2, <1>4, <3>1 DEF Tree
      <4>2. id[p] \in Nat /\ id[x] \in Nat /\ id[y] \in Nat
        BY <1>2, <1>4, <4>1
      <4> QED
        BY <1>2, <1>3, <2>2, <3>3, <4>1, <4>2 DEF Ordered, Sides
    <3> QED
      BY <3>2, <3>3
  <2> QED
    BY <2>1, <2>2
<1>12. nl \in [Links -> Addr \cup {Null}] /\ nu \in [Links -> SUBSET Addr]
  <2>1. \A k \in Links : nl[k] \in Addr \cup {Null} /\ nu[k] \in SUBSET Addr
    <3>1. u[Root] \subseteq Addr
      BY <1>2, <1>4
    <3> QED
      BY <1>7, <1>8, <3>1
  <2>2. nl = [k \in Links |-> nl[k]] /\ nu = [k \in Links |-> nu[k]]
    BY <1>1 DEF ReplacedLink, ReplacedUnder
  <2> HIDE DEF v, w
  <2> QED
    BY <2>1, <2>2
<1>13. Tree(nl, id, nu)
  BY <1>4, <1>7, <1>10, <1>11, <1>12 DEF Tree
<1>14. ChildrenMoved(u, nu, x, y)
  BY <1>6 DEF ChildrenMoved
<1> QED
  BY <1>1, <1>9, <1>13, <1>14

-----------------------------------------------------------------------------
(* The cache.                                                                *)
Shape(c) ==
  /\ c = [used |-> c.used, head |-> c.head, tail |-> c.tail, init_done |-> c.init_done,
          link |-> c.link, prev |-> c.prev, next |-> c.next, id |-> c.id, val |-> c.val,
          live |-> c.live]

\* No entry outside the tree has a child.
Tidy(u) == \A z \in Addr, s \in Sides : z \notin u[Root] => u[Child(z, s)] = {}

\* The search for an entry's own identifier gives the one link that points to it.
LEMMA OneLink ==
  ASSUME NEW c, NEW u, Tree(c.link, c.id, u), Tidy(u), NEW x \in u[Root]
  PROVE  LET a == find_node(c, c.id[x]) IN
         a \in Links /\ c.link[a] = x /\ \A k \in Links : c.link[k] = x => k = a
<1>1. PICK a, m : m = c.id[x] /\ a = find_node(c, m)
  OBVIOUS
<1>2. x \in Addr /\ m \in Nat /\ x # Null
  BY <1>1, Places DEF Tree
<1>3. Ends(c.link, c.id, u, m, Root, a)
  BY <1>1, <1>2, FindNode
<1>4. a \in Links /\ c.link[a] = x
  BY <1>1, <1>3 DEF Ends
<1>5. ASSUME NEW k \in Links, c.link[k] = x
      PROVE  k = a
  <2>1. At(u, k, Root)
    <3> SUFFICES ASSUME NEW z \in Addr, NEW s \in Sides, k = Child(z, s), z \notin u[Root]
                 PROVE  FALSE
      BY Places DEF At, Child
    <3>1. u[k] = {}
      BY DEF Tidy
    <3>2. x \in u[k]
      BY <1>2, <1>5, TreeFacts
    <3> QED
      BY <3>1, <3>2
  <2> QED
    BY <1>1, <1>2, <1>3, <1>5, <2>1 DEF Ends
<1> QED
  BY <1>1, <1>4, <1>5

-----------------------------------------------------------------------------
(* The links as remove_node writes them. *)

WithLink(c, nl) == [c EXCEPT !.link = nl]

\* Writing the links leaves the rest of the context.
LEMMA LinkWritten ==
  ASSUME NEW c, Shape(c), NEW nl, NEW ml
  PROVE  /\ Shape(WithLink(c, nl)) /\ WithLink(c, nl).link = nl
         /\ WithLink(WithLink(c, nl), ml) = WithLink(c, ml)
         /\ WithLink(c, nl).used = c.used /\ WithLink(c, nl).head = c.head
         /\ WithLink(c, nl).tail = c.tail /\ WithLink(c, nl).init_done = c.init_done
         /\ WithLink(c, nl).prev = c.prev /\ WithLink(c, nl).next = c.next
         /\ WithLink(c, nl).id = c.id /\ WithLink(c, nl).val = c.val
         /\ WithLink(c, nl).live = c.live
<1>1. PICK q : q = WithLink(c, nl)
  OBVIOUS
<1>2. q = [used |-> c.used, head |-> c.head, tail |-> c.tail, init_done |-> c.init_done,
           link |-> nl, prev |-> c.prev, next |-> c.next, id |-> c.id, val |-> c.val,
           live |-> c.live]
  BY <1>1 DEF WithLink, Shape
<1>3. WithLink(q, ml) =
        [used |-> c.used, head |-> c.head, tail |-> c.tail, init_done |-> c.init_done,
         link |-> ml, prev |-> c.prev, next |-> c.next, id |-> c.id, val |-> c.val,
         live |-> c.live]
  BY <1>2 DEF WithLink
<1>4. WithLink(c, ml) =
        [used |-> c.used, head |-> c.head, tail |-> c.tail, init_done |-> c.init_done,
         link |-> ml, prev |-> c.prev, next |-> c.next, id |-> c.id, val |-> c.val,
         live |-> c.live]
  BY DEF WithLink, Shape
<1>5. Shape(q) /\ q.link = nl
  BY <1>2 DEF Shape
<1>6. /\ q.used = c.used /\ q.head = c.head /\ q.tail = c.tail /\ q.init_done = c.init_done
      /\ q.prev = c.prev /\ q.next = c.next /\ q.id = c.id /\ q.val = c.val
      /\ q.live = c.live
  BY <1>2
<1> QED
  BY <1>1, <1>3, <1>4, <1>5, <1>6

\* set_link writes one link.
LEMMA SetLink ==
  ASSUME NEW c, Shape(c), NEW l, NEW v
  PROVE  set_link(c, l, v) = WithLink(c, [c.link EXCEPT ![l] = v])
BY DEF set_link, WithLink, Shape

TwoLinks(c, l, v, k, w) == [c EXCEPT !.link[l] = v, !.link[k] = w]

\* Two links written one after the other.
LEMMA TwoLinksSet ==
  ASSUME NEW c, Shape(c), NEW l, NEW v, NEW k, NEW w
  PROVE  TwoLinks(c, l, v, k, w) =
           WithLink(c, [[c.link EXCEPT ![l] = v] EXCEPT ![k] = w])
BY DEF TwoLinks, WithLink, Shape

WrittenLink(ml, x, y) ==
  [[ml EXCEPT ![Child(y, "left")] = ml[Child(x, "left")]]
      EXCEPT ![Child(y, "right")] = ml[Child(x, "right")]]

\* The links that remove_node writes are those of ReplacedLink.
MovedInto(ml, link, a, b, x, y, z) ==
  /\ link \in [Links -> Addr \cup {Null}] /\ a \in Links /\ b \in Links
  /\ x \in Addr /\ y \in Addr /\ z \in Addr \cup {Null} /\ a # b /\ x # y
  /\ \A t \in Sides : a # Child(y, t) /\ b # Child(y, t)
  /\ ml = [[link EXCEPT ![b] = z] EXCEPT ![a] = y]

\* The writes of remove_node, made one after the other, are those of ReplacedLink.
LEMMA LinksReplaced ==
  ASSUME NEW link, NEW a, NEW b, NEW x, NEW y, NEW z, NEW ml,
         MovedInto(ml, link, a, b, x, y, z)
  PROVE  WrittenLink(ml, x, y) = ReplacedLink(link, a, b, x, y, z)
<1>0. /\ link \in [Links -> Addr \cup {Null}] /\ a \in Links /\ b \in Links
      /\ x \in Addr /\ y \in Addr /\ a # b
      /\ ml = [[link EXCEPT ![b] = z] EXCEPT ![a] = y]
  BY DEF MovedInto
<1>1. \A k \in Links : ml[k] = MovedLink(link, a, b, y, z)[k]
  BY <1>0 DEF MovedLink
<1>2. \A t \in Sides : Child(x, t) \in Links /\ Child(y, t) \in Links
  BY <1>0, Places
<1>3. Child(y, "left") # Child(y, "right") /\ "left" \in Sides /\ "right" \in Sides
  BY DEF Child, Sides
<1>4. DOMAIN ml = Links
  BY <1>0
<1>5. PICK l, r : l = Child(y, "left") /\ r = Child(y, "right")
  OBVIOUS
<1>6. PICK p, q : p = ml[Child(x, "left")] /\ q = ml[Child(x, "right")]
  OBVIOUS
<1>7. p = MovedLink(link, a, b, y, z)[Child(x, "left")]
      /\ q = MovedLink(link, a, b, y, z)[Child(x, "right")]
  BY <1>1, <1>2, <1>3, <1>6
<1>8. l \in Links /\ r \in Links /\ l # r
  BY <1>2, <1>3, <1>5
<1>9. ReplacedLink(link, a, b, x, y, z) =
        [k \in Links |-> IF k = l THEN p ELSE IF k = r THEN q ELSE ml[k]]
  BY <1>1, <1>5, <1>7 DEF ReplacedLink
<1> HIDE DEF MovedLink, ReplacedLink
<1>10. ml = [k \in Links |-> ml[k]]
  BY <1>0
<1>11. [[ml EXCEPT ![l] = p] EXCEPT ![r] = q] =
        [k \in Links |-> IF k = l THEN p ELSE IF k = r THEN q ELSE ml[k]]
  BY <1>8, <1>10
<1>12. WrittenLink(ml, x, y) = [[ml EXCEPT ![l] = p] EXCEPT ![r] = q]
  BY <1>5, <1>6, Zenon DEF WrittenLink
<1> QED
  BY <1>9, <1>11, <1>12

\* find_replacement_node gives a node that may replace x.
LEMMA ReplacementIs ==
  ASSUME NEW c, NEW u, Shape(c), Tree(c.link, c.id, u), Tidy(u), NEW x \in u[Root],
         NEW a, a = find_node(c, c.id[x]), NEW b, b = find_replacement_node(c, x),
         \E t \in Sides : c.link[Child(x, t)] # Null
  PROVE  \E s \in Sides :
           /\ b # Root
           /\ Replaces(c.link, c.id, u, a, b, x, c.link[b], c.link[Child(c.link[b], s)], s)
           /\ c.link[Child(c.link[b], s)] =
                IF c.link[<<c.link[b], "left">>] # Null THEN c.link[<<c.link[b], "left">>]
                ELSE c.link[<<c.link[b], "right">>]
<1>1. PICK s \in Sides : c.link[Child(x, s)] # Null /\ b = Outermost(c, Child(x, s), Other(s))
  <2>1. CASE c.link[Child(x, "left")] # Null
    <3>1. b = Outermost(c, Child(x, "left"), "right")
      BY <2>1 DEF find_replacement_node, Child
    <3> QED
      BY <2>1, <3>1 DEF Other, Sides
  <2>2. CASE c.link[Child(x, "left")] = Null
    <3>1. c.link[Child(x, "right")] # Null
      BY <2>2 DEF Sides
    <3>2. b = Outermost(c, Child(x, "right"), "left")
      BY <2>2, <3>1 DEF find_replacement_node, Child
    <3> QED
      BY <3>1, <3>2 DEF Other, Sides
  <2> QED
    BY <2>1, <2>2
<1>2. /\ x \in Addr /\ Root \in Links /\ Child(x, s) \in Links
      /\ Other(s) \in Sides /\ Other(Other(s)) = s
  <2>1. x \in Addr
    BY Places DEF Tree
  <2> QED
    BY <2>1, Places DEF Other, Sides
<1>3. Last1(c.link, c.id, u, Other(s), Child(x, s), b)
  BY <1>1, <1>2, OutermostIs
<1>4. PICK y : y = c.link[b]
  OBVIOUS
<1>5. /\ b \in Links /\ At(u, b, Child(x, s)) /\ y # Null
      /\ c.link[Child(y, Other(s))] = Null
      /\ \A w \in u[Child(x, s)] : w = y \/ Ordered(c.id[w], s, c.id[y])
  BY <1>2, <1>3, <1>4 DEF Last1
<1>6. y \in Addr /\ y \in u[Root]
  <2>1. y \in u[b] /\ y \in Addr
    BY <1>4, <1>5, TreeFacts
  <2> QED
    BY <1>5, <2>1 DEF Tree
<1>7. a \in Links /\ c.link[a] = x /\ \A k \in Links : c.link[k] = x => k = a
  BY OneLink
<1>8. \A k \in Links : c.link[k] = y => k = b
  <2>1. \A k \in Links : c.link[k] = y => k = find_node(c, c.id[y])
    BY <1>6, OneLink
  <2> QED
    BY <1>4, <1>5, <2>1
<1>9. b # Root
  <2>1. u[Child(x, s)] \subseteq Addr
    BY <1>2, TreeFacts
  <2>2. SUFFICES ASSUME b = Root
                 PROVE  FALSE
    OBVIOUS
  <2>3. Child(x, s) # Root /\ Root[1] = Null
    BY DEF Child, Root, Sides
  <2>4. Null \in u[Child(x, s)]
    BY <1>5, <2>2, <2>3 DEF At
  <2> QED
    BY <2>1, <2>4, Places
<1>10. Replaces(c.link, c.id, u, a, b, x, y, c.link[Child(y, s)], s)
  BY <1>1, <1>2, <1>4, <1>5, <1>6, <1>7, <1>8 DEF Replaces
<1>11. c.link[Child(y, s)] = IF c.link[<<y, "left">>] # Null THEN c.link[<<y, "left">>]
                             ELSE c.link[<<y, "right">>]
  BY <1>5 DEF Child, Other, Sides
<1> QED
  BY <1>4, <1>9, <1>10, <1>11

-----------------------------------------------------------------------------
(* remove_node as a whole. *)

\* The tree of r is that of c without x.
Removed(c, u, x, r) ==
  \E nl, nu : /\ r = WithLink(c, nl) /\ Tree(nl, c.id, nu)
              /\ nu[Root] = u[Root] \ {x} /\ Bare(nu, x)

\* A removal that adds no child to entries outside the tree leaves them bare.
LEMMA BareLess ==
  ASSUME NEW u, NEW nu, NEW x, Tidy(u), nu[Root] = u[Root] \ {x},
         \A z \in Addr, s \in Sides : z \notin u[Root] => nu[Child(z, s)] \subseteq u[Child(z, s)]
  PROVE  Bare(nu, x)
BY DEF Bare, Tidy

\* remove_node of an entry without children.
LEMMA LeafGone ==
  ASSUME NEW c, NEW u, Shape(c), Tree(c.link, c.id, u), Tidy(u), NEW x \in u[Root],
         \A t \in Sides : c.link[Child(x, t)] = Null
  PROVE  Removed(c, u, x, remove_node(c, x))
<1>1. PICK a : a = find_node(c, c.id[x])
  OBVIOUS
<1>2. a \in Links /\ c.link[a] = x /\ \A k \in Links : c.link[k] = x => k = a
  BY <1>1, OneLink
<1>3. x \in Addr /\ u \in [Links -> SUBSET Addr] /\ Root \in Links
  <2>1. u \in [Links -> SUBSET Addr]
    BY DEF Tree
  <2> QED
    BY <2>1, Places
<1>4. \A s \in Sides : u[Child(x, s)] = {} /\ Child(x, s) \in Links
  BY <1>3, Places DEF Tree
<1> DEFINE nl == [c.link EXCEPT ![a] = Null]
           nu == [k \in Links |-> u[k] \ {x}]
<1>5. Tree(nl, c.id, nu)
  BY <1>2, <1>3, <1>4, LeafRemoved
<1>6. find_replacement_node(c, x) = Root
  BY DEF find_replacement_node, Child, Sides
<1>7. remove_node(c, x) = set_link(c, a, Null)
  BY <1>1, <1>6 DEF remove_node
<1>8. remove_node(c, x) = WithLink(c, nl)
  BY <1>7, SetLink
<1>9. nu[Root] = u[Root] \ {x}
  BY <1>3
<1>10. \A z \in Addr, s \in Sides : nu[Child(z, s)] \subseteq u[Child(z, s)]
  BY <1>3, Places
<1> HIDE DEF nl, nu
<1>11. Bare(nu, x)
  BY <1>9, <1>10, BareLess
<1> QED
  BY <1>5, <1>8, <1>9, <1>11 DEF Removed

\* remove_node of an entry with a child.
LEMMA InnerGone ==
  ASSUME NEW c, NEW u, Shape(c), Tree(c.link, c.id, u), Tidy(u), NEW x \in u[Root],
         \E t \in Sides : c.link[Child(x, t)] # Null
  PROVE  Removed(c, u, x, remove_node(c, x))
<1>1. PICK a, b, link : a = find_node(c, c.id[x]) /\ b = find_replacement_node(c, x)
                        /\ link = c.link
  OBVIOUS
<1>2. PICK s \in Sides :
           /\ b # Root
           /\ Replaces(link, c.id, u, a, b, x, link[b], link[Child(link[b], s)], s)
           /\ link[Child(link[b], s)] =
                IF link[<<link[b], "left">>] # Null THEN link[<<link[b], "left">>]
                ELSE link[<<link[b], "right">>]
  BY <1>1, ReplacementIs
<1>3. PICK y, z : y = link[b] /\ z = link[Child(y, s)]
  OBVIOUS
<1>4. /\ Replaces(link, c.id, u, a, b, x, y, z, s)
      /\ z = IF link[<<y, "left">>] # Null THEN link[<<y, "left">>] ELSE link[<<y, "right">>]
  BY <1>2, <1>3
<1>5. PICK ml : ml = [[link EXCEPT ![b] = z] EXCEPT ![a] = y]
  OBVIOUS
<1>6. PICK md : md = set_link(set_link(c, b, z), a, y)
  OBVIOUS
<1>7. md = WithLink(c, ml) /\ Shape(md) /\ md.link = ml
  <2>1. set_link(c, b, z) = WithLink(c, [link EXCEPT ![b] = z])
    BY <1>1, SetLink
  <2>2. Shape(set_link(c, b, z)) /\ set_link(c, b, z).link = [link EXCEPT ![b] = z]
    BY <2>1, LinkWritten
  <2>3. md = WithLink(set_link(c, b, z), ml)
    <3>1. PICK q, l1 : q = set_link(c, b, z) /\ l1 = [link EXCEPT ![b] = z]
      OBVIOUS
    <3>2. Shape(q) /\ q.link = l1
      BY <2>2, <3>1
    <3>3. set_link(q, a, y) = WithLink(q, [q.link EXCEPT ![a] = y])
      BY <3>2, SetLink
    <3>4. ml = [l1 EXCEPT ![a] = y]
      BY <1>5, <3>1
    <3> QED
      BY <1>6, <3>1, <3>2, <3>3, <3>4, Zenon
  <2>4. md = WithLink(c, ml)
    BY <2>1, <2>3, LinkWritten
  <2> QED
    BY <2>4, LinkWritten
<1>8. PICK fl : fl = [[ml EXCEPT ![Child(y, "left")] = ml[Child(x, "left")]]
                        EXCEPT ![Child(y, "right")] = ml[Child(x, "right")]]
  OBVIOUS
<1>9. remove_node(c, x) =
        [md EXCEPT !.link[<<y, "left">>] = md.link[<<x, "left">>],
                   !.link[<<y, "right">>] = md.link[<<x, "right">>]]
  BY <1>1, <1>2, <1>3, <1>4, <1>6, Zenon DEF remove_node
<1>10. remove_node(c, x) =
         TwoLinks(md, Child(y, "left"), ml[Child(x, "left")],
                  Child(y, "right"), ml[Child(x, "right")])
  BY <1>7, <1>9, Zenon DEF TwoLinks, Child
<1>11. remove_node(c, x) = WithLink(md, fl)
  <2>1. PICK l, v, k, w : /\ l = Child(y, "left") /\ v = ml[Child(x, "left")]
                          /\ k = Child(y, "right") /\ w = ml[Child(x, "right")]
    OBVIOUS
  <2>2. remove_node(c, x) = TwoLinks(md, l, v, k, w)
    BY <1>10, <2>1, Zenon
  <2>3. fl = [[ml EXCEPT ![l] = v] EXCEPT ![k] = w]
    BY <1>8, <2>1, Zenon
  <2>4. TwoLinks(md, l, v, k, w) = WithLink(md, [[md.link EXCEPT ![l] = v] EXCEPT ![k] = w])
    BY <1>7, TwoLinksSet
  <2> QED
    BY <1>7, <2>2, <2>3, <2>4, Zenon
<1>12. remove_node(c, x) = WithLink(c, fl)
  BY <1>7, <1>11, LinkWritten
<1>13. fl = ReplacedLink(link, a, b, x, y, z)
  <2>1. /\ link \in [Links -> Addr \cup {Null}] /\ a \in Links /\ b \in Links
        /\ x \in Addr /\ y \in Addr /\ a # b
        /\ \A t \in Sides : a # Child(y, t) /\ b # Child(y, t)
    <3>1. /\ a \in Links /\ b \in Links /\ x \in Addr /\ y \in Addr
      BY <1>4 DEF Replaces
    <3>2. Tree(link, c.id, u)
      BY <1>1
    <3>3. link \in [Links -> Addr \cup {Null}]
      BY <3>2 DEF Tree
    <3>4. a # b /\ \A t \in Sides : a # Child(y, t) /\ b # Child(y, t)
      BY <1>4, <3>2, ReplacementFacts
    <3> QED
      BY <3>1, <3>3, <3>4
  <2>2. z \in Addr \cup {Null}
    BY <1>1, <1>3, <2>1, Places, TreeFacts
  <2>3. x # y
    BY <1>1, <1>4, ReplacementFacts
  <2> QED
    <3>1. MovedInto(ml, link, a, b, x, y, z)
      BY <1>5, <2>1, <2>2, <2>3, Zenon DEF MovedInto
    <3>2. WrittenLink(ml, x, y) = ReplacedLink(link, a, b, x, y, z)
      BY <3>1, LinksReplaced
    <3> QED
      BY <1>8, <3>2, Zenon DEF WrittenLink
<1> DEFINE nu == ReplacedUnder(u, x, y)
<1>14. /\ Tree(fl, c.id, nu) /\ nu[Root] = u[Root] \ {x}
       /\ \A v \in Addr, t \in Sides :
            nu[Child(v, t)] = IF v = y THEN u[Child(x, t)] \ {y}
                              ELSE IF x \in u[Child(v, t)] THEN u[Child(v, t)] \ {x}
                              ELSE u[Child(v, t)] \ {y}
  <2>1. Tree(link, c.id, u)
    BY <1>1
  <2>2. Tree(ReplacedLink(link, a, b, x, y, z), c.id, nu)
    BY <1>4, <2>1, Replaced
  <2>3. nu[Root] = u[Root] \ {x}
    BY <1>4, <2>1, Replaced
  <2>4. ChildrenMoved(u, nu, x, y)
    BY <1>4, <2>1, Replaced
  <2> HIDE DEF nu
  <2> QED
    BY <1>13, <2>2, <2>3, <2>4 DEF ChildrenMoved
<1>15. y \in u[Root]
  <2>1. y \in u[b] /\ b \in Links
    <3>1. b \in Links /\ y \in Addr
      BY <1>4 DEF Replaces
    <3> QED
      BY <1>1, <1>3, <3>1, Places, TreeFacts
  <2> QED
    BY <2>1 DEF Tree
<1> HIDE DEF nu
<1>16. \A v \in Addr, t \in Sides : v \notin u[Root] => nu[Child(v, t)] \subseteq u[Child(v, t)]
  BY ZenonT(60), <1>14, <1>15
<1>17. Bare(nu, x)
  BY <1>14, <1>16, BareLess
<1> QED
  BY <1>12, <1>14, <1>17 DEF Removed

\* A node taken out leaves a tree of the others.
LEMMA NodeRemoved ==
  ASSUME NEW c, NEW u, Shape(c), Tree(c.link, c.id, u), Tidy(u), NEW x \in u[Root]
  PROVE  Removed(c, u, x, remove_node(c, x))
BY LeafGone, InnerGone

-----------------------------------------------------------------------------
(* The list of use: the writes of DropTail, PushHead and Unlink. *)

(* The list: s[1] is its head.                                               *)
List(h, t, pv, nx, s, n) ==
  /\ n \in Nat /\ s \in [1..n -> Addr]
  /\ pv \in [Addr -> Addr \cup {Null}] /\ nx \in [Addr -> Addr \cup {Null}]
  /\ \A j, k \in 1..n : s[j] = s[k] => j = k
  /\ n = 0 => h = Null /\ t = Null
  /\ n > 0 => h = s[1] /\ t = s[n]
  /\ \A k \in 1..n : /\ nx[s[k]] = IF k = n THEN Null ELSE s[k + 1]
                     /\ pv[s[k]] = IF k = 1 THEN Null ELSE s[k - 1]

ListOf(c, s, n) == List(c.head, c.tail, c.prev, c.next, s, n)

WithList(c, h, t, pv, nx) == [c EXCEPT !.head = h, !.tail = t, !.prev = pv, !.next = nx]

\* r is c but for the list.
SameTree(r, c) ==
  /\ r.used = c.used /\ r.init_done = c.init_done /\ r.link = c.link /\ r.id = c.id
  /\ r.val = c.val /\ r.live = c.live

\* Writing the list, as a record.
LEMMA WithListIs ==
  ASSUME NEW c, NEW h, NEW t, NEW pv, NEW nx, Shape(c)
  PROVE  WithList(c, h, t, pv, nx) =
           [used |-> c.used, head |-> h, tail |-> t, init_done |-> c.init_done,
            link |-> c.link, prev |-> pv, next |-> nx, id |-> c.id, val |-> c.val,
            live |-> c.live]
<1>1. PICK r : r = WithList(c, h, t, pv, nx)
  OBVIOUS
<1>2. r = [used |-> c.used, head |-> h, tail |-> t, init_done |-> c.init_done,
           link |-> c.link, prev |-> pv, next |-> nx, id |-> c.id, val |-> c.val,
           live |-> c.live]
  BY <1>1 DEF WithList, Shape
<1> QED
  BY <1>1, <1>2

\* Writing the list leaves the tree and the entries.
LEMMA ListWritten ==
  ASSUME NEW c, Shape(c), NEW h, NEW t, NEW pv, NEW nx,
         NEW r, r = WithList(c, h, t, pv, nx)
  PROVE  /\ Shape(r) /\ SameTree(r, c)
         /\ r.head = h /\ r.tail = t /\ r.prev = pv /\ r.next = nx
<1>1. r = [used |-> c.used, head |-> h, tail |-> t, init_done |-> c.init_done,
           link |-> c.link, prev |-> pv, next |-> nx, id |-> c.id, val |-> c.val,
           live |-> c.live]
  BY WithListIs
<1> QED
  BY <1>1 DEF Shape, SameTree

\* DropTail only writes the list.
LEMMA DropTailIs ==
  ASSUME NEW c, Shape(c)
  PROVE  DropTail(c) =
           LET t == c.prev[c.tail] IN
           IF t = Null THEN WithList(c, Null, Null, c.prev, c.next)
           ELSE WithList(c, c.head, t, c.prev, [c.next EXCEPT ![t] = Null])
<1>1. PICK t : t = c.prev[c.tail]
  OBVIOUS
<1>2. CASE t = Null
  <2>1. DropTail(c) = [c EXCEPT !.tail = Null, !.head = Null]
    BY <1>1, <1>2 DEF DropTail
  <2>2. [c EXCEPT !.tail = Null, !.head = Null] = WithList(c, Null, Null, c.prev, c.next)
    BY DEF WithList, Shape
  <2> QED
    BY <1>1, <1>2, <2>1, <2>2
<1>3. CASE t # Null
  <2>1. DropTail(c) = [c EXCEPT !.tail = t, !.next[t] = Null]
    BY <1>1, <1>3 DEF DropTail
  <2>2. [c EXCEPT !.tail = t, !.next[t] = Null] =
          WithList(c, c.head, t, c.prev, [c.next EXCEPT ![t] = Null])
    BY DEF WithList, Shape
  <2> QED
    BY <1>1, <1>3, <2>1, <2>2
<1> QED
  BY <1>2, <1>3

\* PushHead only writes the list.
LEMMA PushHeadIs ==
  ASSUME NEW c, Shape(c), NEW x
  PROVE  PushHead(c, x) =
           IF c.head = Null
             THEN WithList(c, x, x, [c.prev EXCEPT ![x] = Null], [c.next EXCEPT ![x] = c.head])
             ELSE WithList(c, x, c.tail, [[c.prev EXCEPT ![c.head] = x] EXCEPT ![x] = Null],
                           [c.next EXCEPT ![x] = c.head])
<1>1. CASE c.head = Null
  <2>1. PushHead(c, x) =
          [[c EXCEPT !.tail = x] EXCEPT !.prev[x] = Null, !.next[x] = c.head, !.head = x]
    BY <1>1 DEF PushHead
  <2>2. [[c EXCEPT !.tail = x] EXCEPT !.prev[x] = Null, !.next[x] = c.head, !.head = x] =
          WithList(c, x, x, [c.prev EXCEPT ![x] = Null], [c.next EXCEPT ![x] = c.head])
    BY DEF WithList, Shape
  <2> QED
    BY <1>1, <2>1, <2>2
<1>2. CASE c.head # Null
  <2>1. PushHead(c, x) =
          [[c EXCEPT !.prev[c.head] = x] EXCEPT !.prev[x] = Null, !.next[x] = c.head, !.head = x]
    BY <1>2 DEF PushHead
  <2>2. [[c EXCEPT !.prev[c.head] = x] EXCEPT !.prev[x] = Null, !.next[x] = c.head, !.head = x] =
          WithList(c, x, c.tail, [[c.prev EXCEPT ![c.head] = x] EXCEPT ![x] = Null],
                           [c.next EXCEPT ![x] = c.head])
    BY DEF WithList, Shape
  <2> QED
    BY <1>2, <2>1, <2>2
<1> QED
  BY <1>1, <1>2

\* Unlink only writes the list.
LEMMA UnlinkIs ==
  ASSUME NEW c, Shape(c), NEW x
  PROVE  Unlink(c, x) =
           LET p == c.prev[x]
               n == c.next[x]
           IN  IF n = Null
                 THEN WithList(c, c.head, p, c.prev, [c.next EXCEPT ![p] = n])
                 ELSE WithList(c, c.head, c.tail, [c.prev EXCEPT ![n] = p],
                               [c.next EXCEPT ![p] = n])
<1>1. PICK p, n : p = c.prev[x] /\ n = c.next[x]
  OBVIOUS
<1>2. PICK q : q = [c EXCEPT !.next[p] = n]
  OBVIOUS
<1>3. q = [used |-> c.used, head |-> c.head, tail |-> c.tail, init_done |-> c.init_done,
           link |-> c.link, prev |-> c.prev, next |-> [c.next EXCEPT ![p] = n], id |-> c.id,
           val |-> c.val, live |-> c.live]
  BY <1>2 DEF Shape
<1>4. CASE n = Null
  <2>1. Unlink(c, x) = [q EXCEPT !.tail = p]
    BY <1>1, <1>2, <1>4 DEF Unlink
  <2>2. [q EXCEPT !.tail = p] = WithList(c, c.head, p, c.prev, [c.next EXCEPT ![p] = n])
    <3>1. PICK w : w = [c.next EXCEPT ![p] = n]
      OBVIOUS
    <3>2. [q EXCEPT !.tail = p] =
            [used |-> c.used, head |-> c.head, tail |-> p, init_done |-> c.init_done,
             link |-> c.link, prev |-> c.prev, next |-> w, id |-> c.id,
             val |-> c.val, live |-> c.live]
      BY <1>3, <3>1
    <3>3. WithList(c, c.head, p, c.prev, w) =
            [used |-> c.used, head |-> c.head, tail |-> p, init_done |-> c.init_done,
             link |-> c.link, prev |-> c.prev, next |-> w, id |-> c.id,
             val |-> c.val, live |-> c.live]
      BY WithListIs
    <3> QED
      BY <3>1, <3>2, <3>3
  <2> QED
    BY <1>1, <1>4, <2>1, <2>2
<1>5. CASE n # Null
  <2>1. Unlink(c, x) = [q EXCEPT !.prev[n] = p]
    BY <1>1, <1>2, <1>5 DEF Unlink
  <2>2. [q EXCEPT !.prev[n] = p] =
          WithList(c, c.head, c.tail, [c.prev EXCEPT ![n] = p], [c.next EXCEPT ![p] = n])
    <3>1. PICK w, v : w = [c.next EXCEPT ![p] = n] /\ v = [c.prev EXCEPT ![n] = p]
      OBVIOUS
    <3>2. q.prev = c.prev
      BY <1>3
    <3>3. [q EXCEPT !.prev[n] = p] = [q EXCEPT !.prev = v]
      BY <3>1, <3>2
    <3>4. [q EXCEPT !.prev = v] =
            [used |-> c.used, head |-> c.head, tail |-> c.tail, init_done |-> c.init_done,
             link |-> c.link, prev |-> v, next |-> w, id |-> c.id,
             val |-> c.val, live |-> c.live]
      BY <1>3, <3>1
    <3>5. WithList(c, c.head, c.tail, v, w) =
            [used |-> c.used, head |-> c.head, tail |-> c.tail, init_done |-> c.init_done,
             link |-> c.link, prev |-> v, next |-> w, id |-> c.id,
             val |-> c.val, live |-> c.live]
      BY WithListIs
    <3> QED
      BY <3>1, <3>3, <3>4, <3>5
  <2> QED
    BY <1>1, <1>5, <2>1, <2>2
<1> QED
  BY <1>4, <1>5

-----------------------------------------------------------------------------
\* Sequences with one element less or more.
WithoutLast(s, n) == [k \in 1..(n - 1) |-> s[k]]
Without(s, n, p) == [k \in 1..(n - 1) |-> IF k < p THEN s[k] ELSE s[k + 1]]
Before(x, s, n) == [k \in 1..(n + 1) |-> IF k = 1 THEN x ELSE s[k - 1]]

\* A list without its last entry is a list.
LEMMA ShorterList ==
  ASSUME NEW h, NEW t, NEW pv, NEW nx, NEW s, NEW n, List(h, t, pv, nx, s, n), n > 1
  PROVE  /\ pv[t] = s[n - 1] /\ pv[t] # Null
         /\ List(h, s[n - 1], pv, [nx EXCEPT ![s[n - 1]] = Null], WithoutLast(s, n), n - 1)
<1>1. /\ n \in Nat /\ s \in [1..n -> Addr] /\ n - 1 \in Nat /\ n - 1 \in 1..n
      /\ pv \in [Addr -> Addr \cup {Null}] /\ nx \in [Addr -> Addr \cup {Null}]
      /\ \A j, k \in 1..n : s[j] = s[k] => j = k
      /\ h = s[1] /\ t = s[n]
      /\ \A k \in 1..n : /\ nx[s[k]] = IF k = n THEN Null ELSE s[k + 1]
                         /\ pv[s[k]] = IF k = 1 THEN Null ELSE s[k - 1]
  BY DEF List
<1>2. PICK d : d = WithoutLast(s, n)
  OBVIOUS
<1>3. PICK e : e = s[n - 1]
  OBVIOUS
<1>4. PICK nn : nn = [nx EXCEPT ![e] = Null]
  OBVIOUS
<1>5. /\ d \in [1..(n - 1) -> Addr] /\ \A k \in 1..(n - 1) : d[k] = s[k] /\ k \in 1..n
  BY <1>1, <1>2 DEF WithoutLast
<1>6. e \in Addr /\ e # Null
  BY <1>1, <1>3, Places
<1>7. nn \in [Addr -> Addr \cup {Null}]
  BY <1>1, <1>4
<1>8. \A k \in 1..(n - 1) : nn[s[k]] = IF k = n - 1 THEN Null ELSE s[k + 1]
  <2> SUFFICES ASSUME NEW k \in 1..(n - 1)
               PROVE  nn[s[k]] = IF k = n - 1 THEN Null ELSE s[k + 1]
    OBVIOUS
  <2>1. k \in 1..n /\ k # n /\ s[k] \in Addr
    BY <1>1
  <2>2. s[k] = e <=> k = n - 1
    BY <1>1, <1>3, <2>1
  <2>3. nn[s[k]] = IF s[k] = e THEN Null ELSE nx[s[k]]
    BY <1>1, <1>4, <2>1
  <2> QED
    BY <1>1, <2>1, <2>2, <2>3
<1>9. pv[t] = e
  BY <1>1, <1>3
<1>10. \A j, k \in 1..(n - 1) : d[j] = d[k] => j = k
  BY <1>1, <1>5
<1>11. \A k \in 1..(n - 1) : /\ nn[d[k]] = IF k = n - 1 THEN Null ELSE d[k + 1]
                             /\ pv[d[k]] = IF k = 1 THEN Null ELSE d[k - 1]
  <2> SUFFICES ASSUME NEW k \in 1..(n - 1)
               PROVE  /\ nn[d[k]] = IF k = n - 1 THEN Null ELSE d[k + 1]
                      /\ pv[d[k]] = IF k = 1 THEN Null ELSE d[k - 1]
    OBVIOUS
  <2>1. d[k] = s[k] /\ k \in 1..n
    BY <1>5
  <2>2. k # n - 1 => k + 1 \in 1..(n - 1)
    BY <1>1
  <2>3. k # 1 => k - 1 \in 1..(n - 1)
    BY <1>1
  <2> QED
    BY <1>1, <1>5, <1>8, <2>1, <2>2, <2>3
<1>12. h = d[1] /\ e = d[n - 1]
  BY <1>1, <1>3, <1>5
<1>13. List(h, e, pv, nn, d, n - 1)
  BY <1>1, <1>5, <1>7, <1>10, <1>11, <1>12 DEF List
<1> QED
  BY <1>2, <1>3, <1>4, <1>6, <1>9, <1>13

-----------------------------------------------------------------------------
(* What those writes do to the sequence of entries. *)

\* What a list says of its ends and its links.
LEMMA ListFacts ==
  ASSUME NEW h, NEW t, NEW pv, NEW nx, NEW s, NEW n, List(h, t, pv, nx, s, n)
  PROVE  /\ n \in Nat /\ s \in [1..n -> Addr]
         /\ pv \in [Addr -> Addr \cup {Null}] /\ nx \in [Addr -> Addr \cup {Null}]
         /\ \A j, k \in 1..n : s[j] = s[k] => j = k
         /\ n = 0 => h = Null /\ t = Null
         /\ n > 0 => h = s[1] /\ t = s[n] /\ h \in Addr /\ h # Null /\ t \in Addr /\ t # Null
         /\ \A k \in 1..n : /\ nx[s[k]] = IF k = n THEN Null ELSE s[k + 1]
                            /\ pv[s[k]] = IF k = 1 THEN Null ELSE s[k - 1]
<1>1. n > 0 => 1 \in 1..n /\ n \in 1..n
  BY DEF List
<1>2. n > 0 => s[1] \in Addr /\ s[n] \in Addr
  BY <1>1 DEF List
<1> QED
  BY <1>2, Places DEF List

\* A new head.
LEMMA LongerList ==
  ASSUME NEW h, NEW t, NEW pv, NEW nx, NEW s, NEW n, NEW x, List(h, t, pv, nx, s, n),
         x \in Addr, \A k \in 1..n : s[k] # x,
         NEW nt, nt = IF n = 0 THEN x ELSE t,
         NEW np, np = IF n = 0 THEN [pv EXCEPT ![x] = Null]
                      ELSE [[pv EXCEPT ![h] = x] EXCEPT ![x] = Null]
  PROVE  List(x, nt, np, [nx EXCEPT ![x] = h], Before(x, s, n), n + 1)
<1>1. /\ n \in Nat /\ s \in [1..n -> Addr] /\ n + 1 \in Nat
      /\ pv \in [Addr -> Addr \cup {Null}] /\ nx \in [Addr -> Addr \cup {Null}]
      /\ \A j, k \in 1..n : s[j] = s[k] => j = k
      /\ n = 0 => h = Null /\ t = Null
      /\ n > 0 => h = s[1] /\ t = s[n] /\ h \in Addr /\ h # Null /\ t \in Addr /\ t # Null
      /\ \A k \in 1..n : /\ nx[s[k]] = IF k = n THEN Null ELSE s[k + 1]
                         /\ pv[s[k]] = IF k = 1 THEN Null ELSE s[k - 1]
  BY ListFacts
<1>2. PICK d, nn : d = Before(x, s, n) /\ nn = [nx EXCEPT ![x] = h]
  OBVIOUS
<1>3. /\ d \in [1..(n + 1) -> Addr] /\ d[1] = x
      /\ \A k \in 2..(n + 1) : d[k] = s[k - 1] /\ k - 1 \in 1..n /\ d[k] # x
  <2>1. \A k \in 2..(n + 1) : k - 1 \in 1..n /\ k \in 1..(n + 1) /\ k # 1
    BY <1>1
  <2>2. 1 \in 1..(n + 1)
    BY <1>1
  <2>3. \A k \in 1..(n + 1) : k = 1 \/ k \in 2..(n + 1)
    BY <1>1
  <2>4. \A k \in 1..(n + 1) : d[k] = IF k = 1 THEN x ELSE s[k - 1]
    BY <1>2 DEF Before
  <2>5. \A k \in 1..(n + 1) : d[k] \in Addr
    BY <1>1, <2>1, <2>3, <2>4
  <2>6. d = [k \in 1..(n + 1) |-> d[k]]
    BY <1>2 DEF Before
  <2> QED
    BY <2>1, <2>2, <2>4, <2>5, <2>6
<1>4. nn \in [Addr -> Addr \cup {Null}] /\ nn[x] = h /\ \A z \in Addr : z # x => nn[z] = nx[z]
  BY <1>1, <1>2
<1>5. /\ np \in [Addr -> Addr \cup {Null}] /\ np[x] = Null
      /\ \A z \in Addr : z # x /\ (n = 0 \/ z # h) => np[z] = pv[z]
      /\ n > 0 /\ h # x => np[h] = x
  BY <1>1
<1>6. \A j, k \in 1..(n + 1) : d[j] = d[k] => j = k
  <2> SUFFICES ASSUME NEW j \in 1..(n + 1), NEW k \in 1..(n + 1), d[j] = d[k]
               PROVE  j = k
    OBVIOUS
  <2>1. (j = 1 \/ j \in 2..(n + 1)) /\ (k = 1 \/ k \in 2..(n + 1))
    BY <1>1
  <2> QED
    BY <1>1, <1>3, <2>1
<1>7. ASSUME NEW k \in 1..(n + 1)
      PROVE  /\ nn[d[k]] = IF k = n + 1 THEN Null ELSE d[k + 1]
             /\ np[d[k]] = IF k = 1 THEN Null ELSE d[k - 1]
  <2>1. CASE k = 1
    <3>1. CASE n = 0
      BY <1>1, <1>3, <1>4, <1>5, <2>1, <3>1
    <3>2. CASE n # 0
      <4>1. 2 \in 2..(n + 1) /\ n > 0
        BY <1>1, <3>2
      <4>2. d[2] = s[1]
        BY <1>3, <4>1
      <4> QED
        BY <1>1, <1>3, <1>4, <1>5, <2>1, <4>1, <4>2
    <3> QED
      BY <3>1, <3>2
  <2>2. CASE k # 1
    <3>1. k \in 2..(n + 1) /\ n > 0
      BY <1>1, <2>2
    <3>2. PICK j \in 1..n : j = k - 1
      BY <1>3, <3>1
    <3>3. d[k] = s[j] /\ d[k] # x /\ s[j] \in Addr
      BY <1>1, <1>3, <3>1, <3>2
    <3>4. nn[d[k]] = IF j = n THEN Null ELSE s[j + 1]
      BY <1>1, <1>4, <3>3
    <3>5. j # n => k + 1 \in 2..(n + 1) /\ d[k + 1] = s[j + 1]
      <4> SUFFICES ASSUME j # n
                   PROVE  k + 1 \in 2..(n + 1) /\ d[k + 1] = s[j + 1]
        OBVIOUS
      <4>1. k + 1 \in 2..(n + 1) /\ (k + 1) - 1 = j + 1
        BY <1>1, <3>1, <3>2
      <4> QED
        BY <1>3, <4>1
    <3>6. CASE j = 1
      <4>1. s[j] = h /\ h # x
        BY <1>1, <3>1, <3>3, <3>6
      <4>2. np[d[k]] = x
        BY <1>5, <3>1, <3>3, <4>1
      <4>3. d[k - 1] = x
        BY <1>3, <3>2, <3>6
      <4> QED
        BY <2>2, <3>2, <3>4, <3>5, <4>2, <4>3
    <3>7. CASE j # 1
      <4>1. s[j] # h
        <5>1. 1 \in 1..n /\ h = s[1]
          BY <1>1, <3>1
        <5> QED
          BY <1>1, <3>7, <5>1
      <4>2. np[d[k]] = pv[s[j]]
        BY <1>5, <3>3, <4>1
      <4>3. pv[s[j]] = s[j - 1]
        BY <1>1, <3>7
      <4>4. j \in 2..(n + 1) /\ d[j] = s[j - 1]
        BY <1>1, <1>3, <3>7
      <4> QED
        BY <2>2, <3>2, <3>4, <3>5, <4>2, <4>3, <4>4
    <3> QED
      BY <3>6, <3>7
  <2> QED
    BY <2>1, <2>2
<1>8. nt = d[n + 1]
  <2>1. CASE n = 0
    BY <1>3, <2>1
  <2>2. CASE n # 0
    <3>1. n + 1 \in 2..(n + 1) /\ (n + 1) - 1 = n /\ n > 0
      BY <1>1, <2>2
    <3> QED
      BY <1>1, <1>3, <2>2, <3>1
  <2> QED
    BY <2>1, <2>2
<1>9. n + 1 > 0 /\ n + 1 # 0
  BY <1>1
<1>10. List(x, nt, np, nn, d, n + 1)
  BY <1>1, <1>3, <1>4, <1>5, <1>6, <1>7, <1>8, <1>9 DEF List
<1> QED
  BY <1>2, <1>10

\* The entry at p, not the head, is taken out.
LEMMA ListWithout ==
  ASSUME NEW h, NEW t, NEW pv, NEW nx, NEW s, NEW n, NEW p, List(h, t, pv, nx, s, n),
         p \in 2..n,
         NEW nt, nt = IF p = n THEN s[p - 1] ELSE t,
         NEW np, np = IF p = n THEN pv ELSE [pv EXCEPT ![s[p + 1]] = s[p - 1]],
         NEW nn, nn = [nx EXCEPT ![s[p - 1]] = nx[s[p]]]
  PROVE  List(h, nt, np, nn, Without(s, n, p), n - 1)
<1>1. /\ n \in Nat /\ s \in [1..n -> Addr] /\ n - 1 \in Nat /\ n > 0 /\ n - 1 > 0
      /\ pv \in [Addr -> Addr \cup {Null}] /\ nx \in [Addr -> Addr \cup {Null}]
      /\ \A j, k \in 1..n : s[j] = s[k] => j = k
      /\ h = s[1] /\ t = s[n]
      /\ \A k \in 1..n : /\ nx[s[k]] = IF k = n THEN Null ELSE s[k + 1]
                         /\ pv[s[k]] = IF k = 1 THEN Null ELSE s[k - 1]
  BY ListFacts
<1>2. PICK d : d = Without(s, n, p)
  OBVIOUS
<1>3. PICK a, b : a = s[p - 1] /\ b = s[p]
  OBVIOUS
<1>4. p \in 1..n /\ p - 1 \in 1..n /\ a \in Addr /\ b \in Addr
  <2>1. p \in 1..n /\ p - 1 \in 1..n
    BY <1>1
  <2> QED
    BY <1>1, <1>3, <2>1
<1>5. \A k \in 1..(n - 1) :
        /\ d[k] = IF k < p THEN s[k] ELSE s[k + 1]
        /\ k \in 1..n /\ k + 1 \in 1..n
  BY <1>1, <1>2 DEF Without
<1>6. d \in [1..(n - 1) -> Addr]
  <2>1. \A k \in 1..(n - 1) : d[k] \in Addr
    BY <1>1, <1>5
  <2>2. d = [k \in 1..(n - 1) |-> d[k]]
    BY <1>2 DEF Without
  <2> QED
    BY <2>1, <2>2
<1>7. \A j, k \in 1..(n - 1) : d[j] = d[k] => j = k
  <2> SUFFICES ASSUME NEW j \in 1..(n - 1), NEW k \in 1..(n - 1), d[j] = d[k]
               PROVE  j = k
    OBVIOUS
  <2>1. \A i \in 1..(n - 1) : d[i] = IF i < p THEN s[i] ELSE s[i + 1]
    BY <1>5
  <2> QED
    BY <1>1, <1>5, <2>1
<1>8. PICK nb : nb = nx[b]
  OBVIOUS
<1>9. nb = IF p = n THEN Null ELSE s[p + 1]
  BY <1>1, <1>3, <1>4, <1>8
<1>10. /\ nn \in [Addr -> Addr \cup {Null}] /\ nn[a] = nb
       /\ \A z \in Addr : z # a => nn[z] = nx[z]
  <2>1. nn = [nx EXCEPT ![a] = nb]
    BY <1>3, <1>8
  <2>2. nb \in Addr \cup {Null}
    BY <1>1, <1>4, <1>8
  <2> QED
    BY <1>1, <1>4, <2>1, <2>2
<1>11. /\ np \in [Addr -> Addr \cup {Null}]
       /\ p # n => s[p + 1] \in Addr /\ np[s[p + 1]] = a
       /\ \A z \in Addr : (p = n \/ z # s[p + 1]) => np[z] = pv[z]
  <2>1. CASE p = n
    BY <1>1, <2>1
  <2>2. CASE p # n
    <3>1. p + 1 \in 1..n
      BY <1>1, <2>2
    <3>2. PICK w : w = s[p + 1]
      OBVIOUS
    <3>3. w \in Addr /\ np = [pv EXCEPT ![w] = a]
      BY <1>1, <1>3, <2>2, <3>1, <3>2
    <3> QED
      BY <1>1, <1>4, <3>2, <3>3
  <2> QED
    BY <2>1, <2>2
<1>12. ASSUME NEW k \in 1..(n - 1)
       PROVE  nn[d[k]] = IF k = n - 1 THEN Null ELSE d[k + 1]
  <2>1. k \in 1..n /\ k + 1 \in 1..n
    BY <1>5
  <2>2. k # n - 1 => k + 1 \in 1..(n - 1) /\ d[k + 1] = IF k + 1 < p THEN s[k + 1] ELSE s[k + 2]
    <3> SUFFICES ASSUME k # n - 1
                 PROVE  k + 1 \in 1..(n - 1) /\ d[k + 1] = IF k + 1 < p THEN s[k + 1] ELSE s[k + 2]
      OBVIOUS
    <3>1. k + 1 \in 1..(n - 1) /\ (k + 1) + 1 = k + 2
      BY <1>1
    <3> QED
      BY <1>5, <3>1
  <2>3. CASE k < p - 1
    <3>1. d[k] = s[k] /\ k + 1 < p /\ k # n /\ k # n - 1 /\ k # p - 1
      BY <1>1, <1>5, <2>3
    <3>2. s[k] # a /\ s[k] \in Addr
      BY <1>1, <1>3, <1>4, <2>1, <3>1
    <3>3. nn[d[k]] = s[k + 1]
      BY <1>1, <1>10, <2>1, <3>1, <3>2
    <3> QED
      BY <2>2, <3>1, <3>3
  <2>4. CASE k = p - 1
    <3>1. d[k] = a /\ ~(k + 1 < p) /\ k + 1 = p /\ k + 2 = p + 1
      BY <1>1, <1>3, <1>5, <2>4
    <3>2. nn[d[k]] = IF p = n THEN Null ELSE s[p + 1]
      BY <1>9, <1>10, <3>1
    <3>3. p = n <=> k = n - 1
      BY <1>1, <3>1
    <3> QED
      BY <2>2, <3>1, <3>2, <3>3
  <2>5. CASE k > p - 1
    <3>1. d[k] = s[k + 1] /\ ~(k + 1 < p) /\ k + 1 # p - 1
      BY <1>1, <1>5, <2>5
    <3>2. s[k + 1] # a /\ s[k + 1] \in Addr
      BY <1>1, <1>3, <1>4, <2>1, <3>1
    <3>3. nn[d[k]] = IF k + 1 = n THEN Null ELSE s[(k + 1) + 1]
      BY <1>1, <1>10, <2>1, <3>1, <3>2
    <3>4. (k + 1) + 1 = k + 2 /\ (k + 1 = n <=> k = n - 1)
      BY <1>1
    <3> QED
      BY <2>2, <3>1, <3>3, <3>4
  <2> QED
    BY <1>1, <2>3, <2>4, <2>5
<1>13. ASSUME NEW k \in 1..(n - 1)
       PROVE  np[d[k]] = IF k = 1 THEN Null ELSE d[k - 1]
  <2>1. k \in 1..n /\ k + 1 \in 1..n
    BY <1>5
  <2>2. k # 1 => k - 1 \in 1..(n - 1) /\ d[k - 1] = IF k - 1 < p THEN s[k - 1] ELSE s[k]
    <3> SUFFICES ASSUME k # 1
                 PROVE  k - 1 \in 1..(n - 1) /\ d[k - 1] = IF k - 1 < p THEN s[k - 1] ELSE s[k]
      OBVIOUS
    <3>1. k - 1 \in 1..(n - 1) /\ (k - 1) + 1 = k
      BY <1>1
    <3> QED
      BY <1>5, <3>1
  <2>3. CASE k < p
    <3>1. d[k] = s[k] /\ s[k] \in Addr /\ k - 1 < p
      BY <1>1, <1>5, <2>1, <2>3
    <3>2. p # n => s[k] # s[p + 1]
      BY <1>1, <2>1, <2>3
    <3>3. np[d[k]] = pv[s[k]]
      BY <1>11, <3>1, <3>2
    <3> QED
      BY <1>1, <2>1, <2>2, <3>1, <3>3
  <2>4. CASE k = p
    <3>1. d[k] = s[p + 1] /\ k - 1 < p /\ p # n /\ k # 1
      BY <1>1, <1>5, <2>4
    <3>2. np[d[k]] = a
      BY <1>11, <3>1
    <3> QED
      BY <1>3, <2>2, <2>4, <3>1, <3>2
  <2>5. CASE k > p
    <3>1. d[k] = s[k + 1] /\ s[k + 1] \in Addr /\ ~(k - 1 < p) /\ k # 1 /\ k + 1 # 1
      BY <1>1, <1>5, <2>1, <2>5
    <3>2. p # n /\ s[k + 1] # s[p + 1]
      <4>1. p # n /\ p + 1 \in 1..n /\ k + 1 # p + 1
        BY <1>1, <2>5
      <4> QED
        BY <1>1, <2>1, <4>1
    <3>3. np[d[k]] = pv[s[k + 1]]
      BY <1>11, <3>1, <3>2
    <3>4. pv[s[k + 1]] = s[(k + 1) - 1] /\ (k + 1) - 1 = k
      BY <1>1, <2>1, <3>1
    <3> QED
      BY <2>2, <3>1, <3>3, <3>4
  <2> QED
    BY <1>1, <2>3, <2>4, <2>5
<1>14. h = d[1] /\ nt = d[n - 1]
  <2>1. 1 \in 1..(n - 1) /\ n - 1 \in 1..(n - 1) /\ 1 < p /\ (n - 1) + 1 = n
    BY <1>1
  <2>2. d[1] = s[1]
    BY <1>5, <2>1
  <2>3. d[n - 1] = IF n - 1 < p THEN s[n - 1] ELSE s[n]
    BY <1>5, <2>1
  <2>4. n - 1 < p <=> p = n
    BY <1>1
  <2> QED
    BY <1>1, <2>2, <2>3, <2>4
<1>15. List(h, nt, np, nn, d, n - 1)
  BY <1>1, <1>6, <1>7, <1>10, <1>11, <1>12, <1>13, <1>14 DEF List
<1> QED
  BY <1>2, <1>15

-----------------------------------------------------------------------------
(* The inductive invariant of the cache, and the room that MakeRoom gives. *)

\* s goes through all of S.
OnTo(s, n, S) == (\A k \in 1..n : s[k] \in S) /\ \A x \in S : \E k \in 1..n : s[k] = x

\* The arrays without a part in tree and list.
Data(c) == c.val \in [Addr -> Vals \cup {NotFound}] /\ c.live \in [Addr -> BOOLEAN]

\* The invariant, with the witnesses u and s.
Sound(c, u, s) ==
  /\ Shape(c) /\ c.used \in 0..Capacity /\ Data(c)
  /\ Tree(c.link, c.id, u) /\ u[Root] = 1..c.used /\ Tidy(u)
  /\ ListOf(c, s, c.used) /\ OnTo(s, c.used, 1..c.used)
  /\ ~c.init_done => c.used = 0

\* r has room at x for a new entry; s are the n that stay.
Roomy(r, x, u, s, n) ==
  /\ Shape(r) /\ x \in Addr /\ Data(r)
  /\ r.used \in 1..Capacity /\ n \in Nat /\ r.used = n + 1
  /\ Tree(r.link, r.id, u) /\ u[Root] = (1..r.used) \ {x} /\ x \in 1..r.used /\ Bare(u, x)
  /\ ListOf(r, s, n) /\ OnTo(s, n, (1..r.used) \ {x})

\* MakeRoom while the array is not full: a fresh entry.
LEMMA RoomTaken ==
  ASSUME NEW c, NEW u, NEW s, Sound(c, u, s), c.used # Capacity,
         NEW r, r = [c EXCEPT !.used = @ + 1]
  PROVE  /\ Roomy(r, c.used + 1, u, s, c.used)
         /\ r.id = c.id /\ r.val = c.val /\ r.live = c.live
<1>1. PICK n : n = c.used
  OBVIOUS
<1>2. /\ Shape(c) /\ n \in 0..Capacity /\ Data(c)
      /\ Tree(c.link, c.id, u) /\ u[Root] = 1..n /\ Tidy(u)
      /\ ListOf(c, s, n) /\ OnTo(s, n, 1..n)
  BY <1>1 DEF Sound
<1>3. PICK h, t, i, l, pv, nx, d, v, w :
        /\ h = c.head /\ t = c.tail /\ i = c.init_done /\ l = c.link /\ pv = c.prev
        /\ nx = c.next /\ d = c.id /\ v = c.val /\ w = c.live
  OBVIOUS
<1>31. r = [used |-> n + 1, head |-> h, tail |-> t, init_done |-> i,
            link |-> l, prev |-> pv, next |-> nx, id |-> d, val |-> v, live |-> w]
  BY <1>1, <1>2, <1>3 DEF Shape
<1>32. /\ r.used = n + 1 /\ r.head = h /\ r.tail = t /\ r.init_done = i
       /\ r.link = l /\ r.prev = pv /\ r.next = nx
       /\ r.id = d /\ r.val = v /\ r.live = w
  BY ONLY <1>31
<1>33. Shape(r)
  BY ONLY <1>31, <1>32 DEF Shape
<1>4. /\ Shape(r) /\ r.used = n + 1 /\ r.head = c.head /\ r.tail = c.tail
      /\ r.link = c.link /\ r.prev = c.prev /\ r.next = c.next
      /\ r.id = c.id /\ r.val = c.val /\ r.live = c.live
  BY ONLY <1>3, <1>32, <1>33
<1>5. n \in Nat /\ n + 1 \in 1..Capacity /\ n + 1 \in Addr /\ 1..n = (1..(n + 1)) \ {n + 1}
  BY <1>1, <1>2, LruAssumption DEF Addr
<1>6. Data(r) /\ ListOf(r, s, n) /\ Tree(r.link, r.id, u)
  BY <1>2, <1>4 DEF Data, ListOf
<1>7. Bare(u, n + 1)
  BY <1>2 DEF Bare, Tidy
<1>8. n + 1 \in 1..(n + 1)
  BY <1>5
<1>9. OnTo(s, n, (1..r.used) \ {n + 1}) /\ u[Root] = (1..r.used) \ {n + 1}
  BY <1>2, <1>4, <1>5
<1>10. Roomy(r, n + 1, u, s, n)
  BY <1>4, <1>5, <1>6, <1>7, <1>8, <1>9 DEF Roomy
<1> QED
  BY <1>1, <1>4, <1>10

\* DropTail leaves the list without its last entry.
LEMMA TailDropped ==
  ASSUME NEW c, NEW s, NEW n, Shape(c), ListOf(c, s, n), n > 0,
         NEW r, r = DropTail(c)
  PROVE  Shape(r) /\ SameTree(r, c) /\ ListOf(r, WithoutLast(s, n), n - 1)
<1>1. PICK h, t, pv, nx : h = c.head /\ t = c.tail /\ pv = c.prev /\ nx = c.next
  OBVIOUS
<1>2. List(h, t, pv, nx, s, n)
  BY <1>1 DEF ListOf
<1>3. /\ n \in Nat /\ t = s[n]
      /\ pv[t] = IF n = 1 THEN Null ELSE s[n - 1]
      /\ pv \in [Addr -> Addr \cup {Null}] /\ nx \in [Addr -> Addr \cup {Null}]
  <2>1. /\ n \in Nat /\ t = s[n]
        /\ \A k \in 1..n : pv[s[k]] = IF k = 1 THEN Null ELSE s[k - 1]
        /\ pv \in [Addr -> Addr \cup {Null}] /\ nx \in [Addr -> Addr \cup {Null}]
    BY <1>2, ListFacts
  <2>2. n \in 1..n
    BY <2>1
  <2> QED
    BY <2>1, <2>2
<1>4. CASE n = 1
  <2>1. r = WithList(c, Null, Null, pv, nx)
    BY <1>1, <1>3, <1>4, DropTailIs
  <2>2. Shape(r) /\ SameTree(r, c) /\ r.head = Null /\ r.tail = Null /\ r.prev = pv /\ r.next = nx
    BY <2>1, ListWritten
  <2>3. PICK d : d = WithoutLast(s, n)
    OBVIOUS
  <2>4. List(Null, Null, pv, nx, d, 0)
    <3>1. d \in [1..0 -> Addr]
      BY <1>4, <2>3 DEF WithoutLast
    <3>2. \A k \in 1..0 : FALSE
      OBVIOUS
    <3> QED
      BY <1>3, <3>1, <3>2 DEF List
  <2> QED
    BY <1>4, <2>2, <2>3, <2>4 DEF ListOf
<1>5. CASE n # 1
  <2>1. n > 1
    BY <1>3, <1>5
  <2>2. pv[t] = s[n - 1] /\ pv[t] # Null
        /\ List(h, s[n - 1], pv, [nx EXCEPT ![s[n - 1]] = Null], WithoutLast(s, n), n - 1)
    BY <1>2, <2>1, ShorterList
  <2>3. r = WithList(c, h, s[n - 1], pv, [nx EXCEPT ![s[n - 1]] = Null])
    BY <1>1, <2>2, DropTailIs
  <2>4. /\ Shape(r) /\ SameTree(r, c) /\ r.head = h /\ r.tail = s[n - 1] /\ r.prev = pv
        /\ r.next = [nx EXCEPT ![s[n - 1]] = Null]
    BY <2>3, ListWritten
  <2> QED
    BY <2>2, <2>4 DEF ListOf
<1> QED
  BY <1>4, <1>5

\* MakeRoom of a full array: the entry of the tail, out of list and tree.
LEMMA RoomMade ==
  ASSUME NEW c, NEW u, NEW s, Sound(c, u, s), c.used = Capacity, Capacity # 0,
         NEW r, r = remove_node(DropTail(c), c.tail)
  PROVE  /\ \E nu : Roomy(r, c.tail, nu, WithoutLast(s, c.used), c.used - 1)
         /\ c.tail = s[c.used] /\ r.id = c.id /\ r.val = c.val /\ r.live = c.live
<1>1. PICK n, x, d : n = c.used /\ x = c.tail /\ d = DropTail(c)
  OBVIOUS
<1>2. /\ Shape(c) /\ n = Capacity /\ Data(c)
      /\ Tree(c.link, c.id, u) /\ u[Root] = 1..n /\ Tidy(u)
      /\ ListOf(c, s, n) /\ OnTo(s, n, 1..n)
  BY <1>1 DEF Sound
<1>3. n \in Nat /\ n > 0 /\ n \in 1..n
  BY <1>2, LruAssumption
<1>4. /\ x = s[n] /\ x \in Addr /\ x \in 1..n /\ s \in [1..n -> Addr]
      /\ \A j, k \in 1..n : s[j] = s[k] => j = k
  <2>1. List(c.head, x, c.prev, c.next, s, n)
    BY <1>1, <1>2 DEF ListOf
  <2>2. PICK h, pv, nx : List(h, x, pv, nx, s, n)
    BY <2>1
  <2>3. /\ x = s[n] /\ x \in Addr /\ s \in [1..n -> Addr]
        /\ \A j, k \in 1..n : s[j] = s[k] => j = k
    BY <1>3, <2>2, ListFacts
  <2>4. s[n] \in 1..n
    BY <1>2, <1>3 DEF OnTo
  <2> QED
    BY <2>3, <2>4
<1>5. Shape(d) /\ SameTree(d, c) /\ ListOf(d, WithoutLast(s, n), n - 1)
  BY <1>1, <1>2, <1>3, TailDropped
<1>6. d.used = n /\ d.link = c.link /\ d.id = c.id /\ d.val = c.val /\ d.live = c.live
  BY <1>1, <1>5 DEF SameTree
<1>7. Removed(d, u, x, r)
  BY <1>1, <1>2, <1>4, <1>5, <1>6, NodeRemoved
<1>8. PICK nl, nu : /\ r = WithLink(d, nl) /\ Tree(nl, d.id, nu)
                    /\ nu[Root] = u[Root] \ {x} /\ Bare(nu, x)
  BY <1>7 DEF Removed
<1>9. /\ Shape(r) /\ r.link = nl /\ r.used = n /\ r.id = c.id /\ r.val = c.val /\ r.live = c.live
      /\ r.head = d.head /\ r.tail = d.tail /\ r.prev = d.prev /\ r.next = d.next
  BY <1>5, <1>6, <1>8, LinkWritten
<1>10. ListOf(r, WithoutLast(s, n), n - 1)
  BY <1>5, <1>9 DEF ListOf
<1>11. OnTo(WithoutLast(s, n), n - 1, (1..n) \ {x})
  <2>1. \A k \in 1..(n - 1) : k \in 1..n /\ k # n /\ WithoutLast(s, n)[k] = s[k]
    BY <1>3 DEF WithoutLast
  <2>2. \A k \in 1..(n - 1) : s[k] \in (1..n) \ {x}
    BY <1>2, <1>3, <1>4, <2>1 DEF OnTo
  <2>3. \A y \in (1..n) \ {x} : \E k \in 1..(n - 1) : s[k] = y
    <3> SUFFICES ASSUME NEW y \in (1..n) \ {x}
                 PROVE  \E k \in 1..(n - 1) : s[k] = y
      OBVIOUS
    <3>1. PICK k \in 1..n : s[k] = y
      BY <1>2 DEF OnTo
    <3>2. k \in 1..(n - 1)
      BY <1>3, <1>4, <3>1
    <3> QED
      BY <3>1, <3>2
  <2> QED
    BY <2>1, <2>2, <2>3 DEF OnTo
<1>12. Data(r) /\ r.used \in 1..Capacity /\ n - 1 \in Nat /\ r.used = (n - 1) + 1
  BY <1>2, <1>3, <1>9 DEF Data
<1>13. Roomy(r, x, nu, WithoutLast(s, n), n - 1)
  BY <1>2, <1>4, <1>6, <1>8, <1>9, <1>10, <1>11, <1>12 DEF Roomy
<1> QED
  BY <1>1, <1>4, <1>9, <1>13

-----------------------------------------------------------------------------
(* A new entry. *)

\* The last writes of lru_save.
Entered(q, x, m, v) ==
  [q EXCEPT !.init_done = TRUE, !.id[x] = m, !.val[x] = v, !.live[x] = TRUE]

\* What lru_save makes of the room at x.
Added1(r, x, m, v) ==
  Entered(PushHead(TwoLinks(set_link(r, find_node(r, m), x), Child(x, "left"), Null,
                            Child(x, "right"), Null), x), x, m, v)

EnteredIn(e, q, x, m, v) ==
  /\ Shape(e) /\ e.used = q.used /\ e.head = q.head /\ e.tail = q.tail
  /\ e.init_done = TRUE /\ e.link = q.link /\ e.prev = q.prev /\ e.next = q.next
  /\ e.id = [q.id EXCEPT ![x] = m] /\ e.val = [q.val EXCEPT ![x] = v]
  /\ e.live = [q.live EXCEPT ![x] = TRUE]

\* The last writes of lru_save touch one entry.
LEMMA EnteredIs ==
  ASSUME NEW q, Shape(q), NEW x, NEW m, NEW v, NEW e, e = Entered(q, x, m, v)
  PROVE  EnteredIn(e, q, x, m, v)
<1>1. PICK n, h, t, l, pv, nx, d, w, b :
        /\ n = q.used /\ h = q.head /\ t = q.tail /\ l = q.link /\ pv = q.prev
        /\ nx = q.next /\ d = [q.id EXCEPT ![x] = m] /\ w = [q.val EXCEPT ![x] = v]
        /\ b = [q.live EXCEPT ![x] = TRUE]
  OBVIOUS
<1>2. e = [used |-> n, head |-> h, tail |-> t, init_done |-> TRUE,
           link |-> l, prev |-> pv, next |-> nx, id |-> d, val |-> w, live |-> b]
  BY <1>1 DEF Entered, Shape
<1>3. /\ e.used = n /\ e.head = h /\ e.tail = t /\ e.init_done = TRUE
      /\ e.link = l /\ e.prev = pv /\ e.next = nx
      /\ e.id = d /\ e.val = w /\ e.live = b
  BY ONLY <1>2
<1>4. Shape(e)
  BY ONLY <1>2, <1>3 DEF Shape
<1> QED
  BY ONLY <1>1, <1>3, <1>4 DEF EnteredIn

\* Before the new entry is in the list, the tree has it.
LEMMA PlaceGiven ==
  ASSUME NEW r, NEW x, NEW u, NEW s, NEW n, Roomy(r, x, u, s, n), NEW m \in Nat,
         \A y \in u[Root] : r.id[y] # m,
         NEW b, b = TwoLinks(set_link(r, find_node(r, m), x), Child(x, "left"), Null,
                             Child(x, "right"), Null)
  PROVE  \E nl, nu : /\ b = WithLink(r, nl) /\ Tree(nl, [r.id EXCEPT ![x] = m], nu)
                     /\ nu[Root] = 1..r.used /\ Tidy(nu)
<1>1. PICK l : l = find_node(r, m)
  OBVIOUS
<1>2. PICK lk, d : lk = r.link /\ d = r.id
  OBVIOUS
<1>3. /\ Shape(r) /\ Tree(lk, d, u) /\ x \in Addr /\ u[Root] = (1..r.used) \ {x}
      /\ x \in 1..r.used /\ Bare(u, x)
  BY <1>2 DEF Roomy
<1>4. Ends(lk, d, u, m, Root, l)
  BY <1>1, <1>2, <1>3, FindNode
<1>5. l \in Links /\ At(u, l, Root) /\ Stops(lk, d, m, l)
  BY <1>4 DEF Ends
<1>6. l # Child(x, "left") /\ l # Child(x, "right")
  <2>1. ASSUME NEW side \in Sides, l = Child(x, side)
        PROVE  FALSE
    <3>1. l[1] = x /\ l # Root
      BY <1>3, <2>1, Places DEF Child
    <3>2. x \in u[Root]
      BY <1>5, <3>1 DEF At
    <3> QED
      BY <1>3, <3>2
  <2> QED
    BY <2>1 DEF Sides
<1>7. lk[l] = Null
  <2>1. SUFFICES ASSUME lk[l] # Null
                 PROVE  FALSE
    OBVIOUS
  <2>2. d[lk[l]] = m
    BY <1>5, <2>1 DEF Stops
  <2>3. lk[l] \in u[l]
    BY <1>3, <1>5, <2>1, TreeFacts
  <2>4. u[l] \subseteq u[Root]
    BY <1>3, <1>5 DEF Tree
  <2> QED
    BY <1>2, <2>2, <2>3, <2>4
<1>8. /\ Tree(GraftedLink(lk, l, x), [d EXCEPT ![x] = m], GraftedUnder(u, l, x))
      /\ GraftedUnder(u, l, x)[Root] = u[Root] \cup {x}
  BY <1>3, <1>4, <1>7, Grafted
<1>9. b = WithLink(r, GraftedLink(lk, l, x))
  <2>1. PICK k, g : k = [lk EXCEPT ![l] = x]
                 /\ g = [[k EXCEPT ![Child(x, "left")] = Null] EXCEPT ![Child(x, "right")] = Null]
    OBVIOUS
  <2>2. set_link(r, l, x) = WithLink(r, k)
    BY <1>2, <1>3, <2>1, SetLink
  <2>3. Shape(WithLink(r, k)) /\ WithLink(r, k).link = k
        /\ WithLink(WithLink(r, k), g) = WithLink(r, g)
    BY <1>3, LinkWritten
  <2>4. b = WithLink(WithLink(r, k), g)
    <3>1. PICK w : w = WithLink(r, k)
      OBVIOUS
    <3>2. b = TwoLinks(w, Child(x, "left"), Null, Child(x, "right"), Null)
      BY <1>1, <2>2, <3>1
    <3>3. Shape(w) /\ w.link = k
      BY <2>3, <3>1
    <3>4. b = WithLink(w, [[w.link EXCEPT ![Child(x, "left")] = Null]
                                EXCEPT ![Child(x, "right")] = Null])
      BY <3>2, <3>3, TwoLinksSet
    <3>5. b = WithLink(w, g)
      BY <2>1, <3>3, <3>4
    <3> QED
      BY <3>1, <3>5
  <2>5. g = GraftedLink(lk, l, x)
    <3>1. lk \in [Links -> Addr \cup {Null}]
      BY <1>3 DEF Tree
    <3>2. Child(x, "left") \in Links /\ Child(x, "right") \in Links
      BY <1>3, Places DEF Sides
    <3>3. g \in [Links -> Addr \cup {Null}]
      BY <1>3, <1>5, <2>1, <3>1, <3>2
    <3>4. \A j \in Links : g[j] = IF j = l THEN x
                                  ELSE IF j = Child(x, "left") \/ j = Child(x, "right") THEN Null
                                  ELSE lk[j]
      BY <1>5, <1>6, <2>1, <3>1, <3>2
    <3>5. g = [j \in Links |-> g[j]]
      BY <3>3
    <3> QED
      BY <3>4, <3>5 DEF GraftedLink
  <2> QED
    BY <2>3, <2>4, <2>5
<1>10. Tidy(GraftedUnder(u, l, x))
  <2> SUFFICES ASSUME NEW z \in Addr, NEW side \in Sides, z \notin u[Root] \cup {x}
               PROVE  GraftedUnder(u, l, x)[Child(z, side)] = {}
    BY <1>8 DEF Tidy
  <2>1. Child(z, side) \in Links /\ Child(z, side) # Root /\ u[Child(z, side)] = {}
    BY <1>3, Places DEF Bare
  <2>2. ~At(u, l, Child(z, side))
    <3>1. l # Child(z, side)
      BY <1>5, <2>1 DEF At, Child
    <3> QED
      BY <2>1, <3>1 DEF At
  <2> QED
    BY <2>1, <2>2 DEF GraftedUnder
<1>11. GraftedUnder(u, l, x)[Root] = 1..r.used
  BY <1>3, <1>8
<1> QED
  BY <1>2, <1>8, <1>9, <1>10, <1>11

\* PushHead puts x before the list.
LEMMA Headed ==
  ASSUME NEW c, NEW s, NEW n, NEW x, Shape(c), ListOf(c, s, n), x \in Addr,
         \A k \in 1..n : s[k] # x, NEW r, r = PushHead(c, x)
  PROVE  Shape(r) /\ SameTree(r, c) /\ ListOf(r, Before(x, s, n), n + 1)
<1>1. PICK h, t, pv, nx : h = c.head /\ t = c.tail /\ pv = c.prev /\ nx = c.next
  OBVIOUS
<1>2. List(h, t, pv, nx, s, n)
  BY <1>1 DEF ListOf
<1>3. n \in Nat /\ (n = 0 => h = Null) /\ (n > 0 => h # Null)
  BY <1>2, ListFacts
<1>4. PICK nt, np, nn :
        /\ nt = IF n = 0 THEN x ELSE t
        /\ np = IF n = 0 THEN [pv EXCEPT ![x] = Null]
                ELSE [[pv EXCEPT ![h] = x] EXCEPT ![x] = Null]
        /\ nn = [nx EXCEPT ![x] = h]
  OBVIOUS
<1>5. List(x, nt, np, nn, Before(x, s, n), n + 1)
  BY <1>2, <1>4, LongerList
<1>6. r = WithList(c, x, nt, np, nn)
  <2>1. r = IF h = Null
              THEN WithList(c, x, x, [pv EXCEPT ![x] = Null], [nx EXCEPT ![x] = h])
              ELSE WithList(c, x, t, [[pv EXCEPT ![h] = x] EXCEPT ![x] = Null],
                            [nx EXCEPT ![x] = h])
    BY <1>1, PushHeadIs
  <2>2. CASE n = 0
    BY <1>3, <1>4, <2>1, <2>2
  <2>3. CASE n # 0
    BY <1>3, <1>4, <2>1, <2>3
  <2> QED
    BY <2>2, <2>3
<1>7. Shape(r) /\ SameTree(r, c) /\ r.head = x /\ r.tail = nt /\ r.prev = np /\ r.next = nn
  BY <1>6, ListWritten
<1> QED
  BY <1>5, <1>7 DEF ListOf

\* With x before it the sequence goes through one entry more.
LEMMA BeforeOnTo ==
  ASSUME NEW x, NEW s, NEW n \in Nat, NEW S, x \notin S, OnTo(s, n, S)
  PROVE  OnTo(Before(x, s, n), n + 1, S \cup {x})
<1>1. PICK b : b = Before(x, s, n)
  OBVIOUS
<1>2. b[1] = x /\ \A k \in 1..n : k + 1 \in 1..(n + 1) /\ b[k + 1] = s[k]
  BY <1>1 DEF Before
<1>3. \A k \in 1..(n + 1) : b[k] = x \/ (k - 1 \in 1..n /\ b[k] = s[k - 1])
  BY <1>1 DEF Before
<1>4. \A k \in 1..(n + 1) : b[k] \in S \cup {x}
  BY <1>3 DEF OnTo
<1>5. 1 \in 1..(n + 1)
  OBVIOUS
<1>6. \A y \in S \cup {x} : \E k \in 1..(n + 1) : b[k] = y
  <2> SUFFICES ASSUME NEW y \in S \cup {x}
               PROVE  \E k \in 1..(n + 1) : b[k] = y
    OBVIOUS
  <2>1. CASE y = x
    BY <1>2, <1>5, <2>1
  <2>2. CASE y \in S
    <3>1. PICK k \in 1..n : s[k] = y
      BY <2>2 DEF OnTo
    <3> QED
      BY <1>2, <3>1
  <2> QED
    BY <2>1, <2>2
<1> QED
  BY <1>1, <1>4, <1>6 DEF OnTo

\* e has m at x and is otherwise as r is.
WithEntry(e, r, x, m, v, n) ==
  /\ e.used = n + 1 /\ e.id = [r.id EXCEPT ![x] = m]
  /\ e.val = [r.val EXCEPT ![x] = v] /\ e.live = [r.live EXCEPT ![x] = TRUE]

\* lru_save at a place with room leaves the cache sound, with one entry more.
LEMMA Inserted ==
  ASSUME NEW r, NEW x, NEW u, NEW s, NEW n, Roomy(r, x, u, s, n), NEW m \in Nat,
         \A y \in u[Root] : r.id[y] # m, NEW v \in Vals, NEW e, e = Added1(r, x, m, v)
  PROVE  (\E nu : Sound(e, nu, Before(x, s, n))) /\ WithEntry(e, r, x, m, v, n)
<1>1. PICK b, q :
        /\ b = TwoLinks(set_link(r, find_node(r, m), x), Child(x, "left"), Null,
                        Child(x, "right"), Null)
        /\ q = PushHead(b, x)
  OBVIOUS
<1>2. e = Entered(q, x, m, v)
  BY <1>1 DEF Added1
<1>3. /\ Shape(r) /\ x \in Addr /\ Data(r) /\ r.used \in 1..Capacity /\ n \in Nat /\ r.used = n + 1
      /\ x \in 1..r.used /\ ListOf(r, s, n) /\ OnTo(s, n, (1..r.used) \ {x})
  BY DEF Roomy
<1>4. PICK nl, nu : /\ b = WithLink(r, nl) /\ Tree(nl, [r.id EXCEPT ![x] = m], nu)
                    /\ nu[Root] = 1..r.used /\ Tidy(nu)
  BY <1>1, PlaceGiven
<1>5. /\ Shape(b) /\ b.link = nl /\ b.used = r.used /\ b.head = r.head /\ b.tail = r.tail
      /\ b.prev = r.prev /\ b.next = r.next /\ b.id = r.id /\ b.val = r.val /\ b.live = r.live
  BY <1>3, <1>4, LinkWritten
<1>6. ListOf(b, s, n)
  BY <1>3, <1>5 DEF ListOf
<1>7. \A k \in 1..n : s[k] # x
  BY <1>3 DEF OnTo
<1>8. Shape(q) /\ SameTree(q, b) /\ ListOf(q, Before(x, s, n), n + 1)
  BY <1>1, <1>3, <1>5, <1>6, <1>7, Headed
<1>9. q.used = r.used /\ q.link = nl /\ q.id = r.id /\ q.val = r.val /\ q.live = r.live
  BY <1>5, <1>8 DEF SameTree
<1>10. /\ Shape(e) /\ e.used = q.used /\ e.head = q.head /\ e.tail = q.tail
       /\ e.init_done = TRUE /\ e.link = q.link /\ e.prev = q.prev /\ e.next = q.next
       /\ e.id = [q.id EXCEPT ![x] = m] /\ e.val = [q.val EXCEPT ![x] = v]
       /\ e.live = [q.live EXCEPT ![x] = TRUE]
  <2>1. EnteredIn(e, q, x, m, v)
    BY <1>2, <1>8, EnteredIs
  <2> QED
    BY ONLY <2>1 DEF EnteredIn
<1>11. /\ e.used = n + 1 /\ e.link = nl /\ e.id = [r.id EXCEPT ![x] = m]
       /\ e.val = [r.val EXCEPT ![x] = v] /\ e.live = [r.live EXCEPT ![x] = TRUE]
  BY <1>3, <1>9, <1>10
<1>12. ListOf(e, Before(x, s, n), e.used)
  BY <1>8, <1>10, <1>11 DEF ListOf
<1>13. OnTo(Before(x, s, n), e.used, 1..e.used)
  <2>1. OnTo(Before(x, s, n), n + 1, ((1..r.used) \ {x}) \cup {x})
    BY <1>3, BeforeOnTo
  <2>2. ((1..r.used) \ {x}) \cup {x} = 1..e.used
    BY <1>3, <1>11
  <2> QED
    BY <1>11, <2>1, <2>2
<1>14. Data(e)
  <2>1. PICK va, li : va = r.val /\ li = r.live /\ va \in [Addr -> Vals \cup {NotFound}]
                      /\ li \in [Addr -> BOOLEAN]
    BY <1>3 DEF Data
  <2>2. [va EXCEPT ![x] = v] \in [Addr -> Vals \cup {NotFound}]
    BY <1>3, <2>1
  <2>3. [li EXCEPT ![x] = TRUE] \in [Addr -> BOOLEAN]
    BY <1>3, <2>1
  <2> QED
    BY <1>11, <2>1, <2>2, <2>3 DEF Data
<1>15. Sound(e, nu, Before(x, s, n))
  <2>1. e.used \in 0..Capacity /\ nu[Root] = 1..e.used
    BY <1>3, <1>4, <1>11
  <2>2. Tree(e.link, e.id, nu)
    BY <1>4, <1>11
  <2> QED
    BY <1>4, <1>10, <1>12, <1>13, <1>14, <2>1, <2>2 DEF Sound
<1>16. WithEntry(e, r, x, m, v, n)
  BY <1>11 DEF WithEntry
<1> QED
  BY <1>15, <1>16

-----------------------------------------------------------------------------
(* A search, and an entry that moves to the head. *)

\* x is what a search for m gives.
Sought(c, u, m, x) ==
  /\ x = Null => \A y \in u[Root] : c.id[y] # m
  /\ x # Null => x \in u[Root] /\ c.id[x] = m

\* A search gives the entry with that identifier if there is one, and Null if not.
LEMMA Searched ==
  ASSUME NEW c, NEW u, Tree(c.link, c.id, u), NEW m \in Nat,
         NEW x, x = c.link[find_node(c, m)]
  PROVE  Sought(c, u, m, x)
<1>1. PICK l, lk, d : l = find_node(c, m) /\ lk = c.link /\ d = c.id
  OBVIOUS
<1>2. Ends(lk, d, u, m, Root, l) /\ Tree(lk, d, u)
  BY <1>1, FindNode
<1>3. /\ l \in Links /\ Stops(lk, d, m, l)
      /\ \A y \in u[Root] : d[y] = m => lk[l] = y
  BY <1>2 DEF Ends
<1>4. x = lk[l] /\ (x # Null => d[x] = m)
  BY <1>1, <1>3 DEF Stops
<1>5. x # Null => x \in u[Root]
  <2>1. x # Null => x \in u[l]
    BY <1>2, <1>3, <1>4, TreeFacts
  <2>2. u[l] \subseteq u[Root]
    BY <1>2, <1>3 DEF Tree
  <2> QED
    BY <2>1, <2>2
<1>6. Null \notin u[Root]
  BY <1>2, Places DEF Tree
<1>7. x = Null => \A y \in u[Root] : d[y] # m
  BY <1>3, <1>4, <1>6
<1> QED
  BY <1>1, <1>4, <1>5, <1>7 DEF Sought

\* Unlink leaves the list without the entry at p.
LEMMA Unlinked ==
  ASSUME NEW c, NEW s, NEW n, NEW p, Shape(c), ListOf(c, s, n), p \in 2..n,
         NEW r, r = Unlink(c, s[p])
  PROVE  Shape(r) /\ SameTree(r, c) /\ ListOf(r, Without(s, n, p), n - 1)
<1>1. PICK h, t, pv, nx : h = c.head /\ t = c.tail /\ pv = c.prev /\ nx = c.next
  OBVIOUS
<1>2. List(h, t, pv, nx, s, n)
  BY <1>1 DEF ListOf
<1>3. /\ n \in Nat /\ s \in [1..n -> Addr]
      /\ \A k \in 1..n : /\ nx[s[k]] = IF k = n THEN Null ELSE s[k + 1]
                         /\ pv[s[k]] = IF k = 1 THEN Null ELSE s[k - 1]
  BY <1>2, ListFacts
<1>4. p \in 1..n /\ pv[s[p]] = s[p - 1] /\ nx[s[p]] = IF p = n THEN Null ELSE s[p + 1]
  <2>1. p \in 1..n /\ p # 1
    BY <1>3
  <2> QED
    BY <1>3, <2>1
<1>5. nx[s[p]] = Null <=> p = n
  <2>1. p # n => p + 1 \in 1..n
    BY <1>3, <1>4
  <2> QED
    BY <1>3, <1>4, <2>1, Places
<1>6. PICK nt, np, nn :
        /\ nt = IF p = n THEN s[p - 1] ELSE t
        /\ np = IF p = n THEN pv ELSE [pv EXCEPT ![s[p + 1]] = s[p - 1]]
        /\ nn = [nx EXCEPT ![s[p - 1]] = nx[s[p]]]
  OBVIOUS
<1>7. List(h, nt, np, nn, Without(s, n, p), n - 1)
  BY <1>2, <1>6, ListWithout
<1>8. r = WithList(c, h, nt, np, nn)
  <2>1. PICK x, a, b : x = s[p] /\ a = pv[x] /\ b = nx[x]
    OBVIOUS
  <2>2. r = IF b = Null
              THEN WithList(c, h, a, pv, [nx EXCEPT ![a] = b])
              ELSE WithList(c, h, t, [pv EXCEPT ![b] = a], [nx EXCEPT ![a] = b])
    BY <1>1, <2>1, UnlinkIs
  <2>3. a = s[p - 1] /\ nn = [nx EXCEPT ![a] = b] /\ (b = Null <=> p = n)
    BY <1>4, <1>5, <1>6, <2>1
  <2>4. CASE p = n
    BY <1>6, <2>2, <2>3, <2>4
  <2>5. CASE p # n
    <3>1. b = s[p + 1]
      BY <1>4, <2>1, <2>5
    <3>2. np = [pv EXCEPT ![b] = a] /\ nt = t
      BY <1>6, <2>3, <2>5, <3>1
    <3> QED
      BY <2>2, <2>3, <2>5, <3>2
  <2> QED
    BY <2>4, <2>5
<1>9. Shape(r) /\ SameTree(r, c) /\ r.head = h /\ r.tail = nt /\ r.prev = np /\ r.next = nn
  BY <1>8, ListWritten
<1> QED
  BY <1>7, <1>9 DEF ListOf

\* Without its entry at p the sequence goes through one entry less.
LEMMA WithoutOnTo ==
  ASSUME NEW s, NEW n \in Nat, NEW S, NEW p \in 1..n, OnTo(s, n, S),
         \A j, k \in 1..n : s[j] = s[k] => j = k
  PROVE  OnTo(Without(s, n, p), n - 1, S \ {s[p]})
<1>1. PICK b : b = Without(s, n, p)
  OBVIOUS
<1>2. \A k \in 1..(n - 1) : b[k] = IF k < p THEN s[k] ELSE s[k + 1]
  BY <1>1 DEF Without
<1>3. \A k \in 1..(n - 1) : b[k] \in S \ {s[p]}
  <2> SUFFICES ASSUME NEW k \in 1..(n - 1)
               PROVE  b[k] \in S \ {s[p]}
    OBVIOUS
  <2>1. PICK j \in 1..n : b[k] = s[j] /\ j # p
    <3>1. CASE k < p
      BY <1>2, <3>1
    <3>2. CASE ~(k < p)
      BY <1>2, <3>2
    <3> QED
      BY <3>1, <3>2
  <2> QED
    BY <2>1 DEF OnTo
<1>4. \A y \in S \ {s[p]} : \E k \in 1..(n - 1) : b[k] = y
  <2> SUFFICES ASSUME NEW y \in S \ {s[p]}
               PROVE  \E k \in 1..(n - 1) : b[k] = y
    OBVIOUS
  <2>1. PICK j \in 1..n : s[j] = y
    BY DEF OnTo
  <2>2. j # p
    BY <2>1
  <2>3. CASE j < p
    BY <1>2, <2>1, <2>3
  <2>4. CASE j > p
    <3>1. j - 1 \in 1..(n - 1) /\ ~(j - 1 < p) /\ (j - 1) + 1 = j
      BY <2>4
    <3>2. b[j - 1] = s[j]
      BY <1>2, <3>1
    <3> QED
      BY <2>1, <3>1, <3>2
  <2> QED
    BY <2>2, <2>3, <2>4
<1> QED
  BY <1>1, <1>3, <1>4 DEF OnTo

\* An entry that is not the head moves there.
LEMMA MovedToHead ==
  ASSUME NEW c, NEW u, NEW s, Sound(c, u, s), NEW x, x \in u[Root], x # c.head,
         NEW e, e = PushHead(Unlink(c, x), x)
  PROVE  /\ \E p \in 2..c.used : s[p] = x /\
              Sound(e, u, Before(x, Without(s, c.used, p), c.used - 1))
         /\ e.used = c.used /\ e.id = c.id /\ e.val = c.val /\ e.live = c.live
<1>1. PICK n : n = c.used
  OBVIOUS
<1>2. /\ Shape(c) /\ n \in 0..Capacity /\ Data(c)
      /\ Tree(c.link, c.id, u) /\ u[Root] = 1..n /\ Tidy(u)
      /\ ListOf(c, s, n) /\ OnTo(s, n, 1..n)
  BY <1>1 DEF Sound
<1>3. /\ n \in Nat /\ s \in [1..n -> Addr] /\ (\A j, k \in 1..n : s[j] = s[k] => j = k)
      /\ n > 0 => c.head = s[1]
  <2>1. PICK h, t, pv, nx : h = c.head /\ t = c.tail /\ pv = c.prev /\ nx = c.next
    OBVIOUS
  <2>2. List(h, t, pv, nx, s, n)
    BY <1>2, <2>1 DEF ListOf
  <2> QED
    BY <2>1, <2>2, ListFacts
<1>4. PICK p \in 2..n : s[p] = x
  <2>1. PICK p \in 1..n : s[p] = x
    BY <1>2 DEF OnTo
  <2>2. p # 1
    BY <1>3, <2>1
  <2> QED
    BY <1>3, <2>1, <2>2
<1>5. p \in 1..n /\ x \in Addr
  BY <1>3, <1>4
<1>6. PICK d : d = Unlink(c, x)
  OBVIOUS
<1>7. Shape(d) /\ SameTree(d, c) /\ ListOf(d, Without(s, n, p), n - 1)
  BY <1>2, <1>4, <1>6, Unlinked
<1>8. OnTo(Without(s, n, p), n - 1, (1..n) \ {x})
  BY <1>2, <1>3, <1>4, <1>5, WithoutOnTo
<1>9. PICK w, k : w = Without(s, n, p) /\ k = n - 1
  OBVIOUS
<1>10. k \in Nat /\ k + 1 = n
  BY <1>3, <1>5, <1>9
<1>11. Shape(e) /\ SameTree(e, d) /\ ListOf(e, Before(x, w, k), k + 1)
  <2>1. \A j \in 1..k : w[j] # x
    BY <1>8, <1>9 DEF OnTo
  <2> QED
    BY <1>5, <1>6, <1>7, <1>9, <2>1, Headed
<1>12. /\ e.used = c.used /\ e.init_done = c.init_done /\ e.link = c.link /\ e.id = c.id
       /\ e.val = c.val /\ e.live = c.live
  BY <1>7, <1>11 DEF SameTree
<1>13. OnTo(Before(x, w, k), n, 1..n)
  <2>1. OnTo(Before(x, w, k), k + 1, ((1..n) \ {x}) \cup {x})
    BY <1>8, <1>9, <1>10, BeforeOnTo
  <2>2. ((1..n) \ {x}) \cup {x} = 1..n
    BY <1>2
  <2> QED
    BY <1>10, <2>1, <2>2
<1>14. Data(e)
  BY <1>2, <1>12 DEF Data
<1>15. c.init_done \/ c.used = 0
  BY DEF Sound
<1>16. Sound(e, u, Before(x, w, k))
  BY <1>1, <1>2, <1>10, <1>11, <1>12, <1>13, <1>14, <1>15 DEF Sound
<1> QED
  BY <1>1, <1>4, <1>9, <1>12, <1>16

-----------------------------------------------------------------------------
(* The three operations. *)

\* e holds what c holds.
SameSessions(e, c) == e.used = c.used /\ e.id = c.id /\ e.val = c.val /\ e.live = c.live

\* Setting init_done disturbs nothing.
LEMMA FlagSet ==
  ASSUME NEW c, NEW u, NEW s, Sound(c, u, s), NEW e, e = [c EXCEPT !.init_done = TRUE]
  PROVE  Sound(e, u, s) /\ SameSessions(e, c)
<1>1. PICK n, h, t, l, pv, nx, d, v, w :
        /\ n = c.used /\ h = c.head /\ t = c.tail /\ l = c.link /\ pv = c.prev
        /\ nx = c.next /\ d = c.id /\ v = c.val /\ w = c.live
  OBVIOUS
<1>2. /\ Shape(c) /\ n \in 0..Capacity /\ Data(c) /\ Tree(l, d, u) /\ u[Root] = 1..n
      /\ Tidy(u) /\ ListOf(c, s, n) /\ OnTo(s, n, 1..n)
  BY <1>1 DEF Sound
<1>3. e = [used |-> n, head |-> h, tail |-> t, init_done |-> TRUE,
           link |-> l, prev |-> pv, next |-> nx, id |-> d, val |-> v, live |-> w]
  BY <1>1, <1>2 DEF Shape
<1>4. /\ e.used = n /\ e.head = h /\ e.tail = t /\ e.init_done = TRUE
      /\ e.link = l /\ e.prev = pv /\ e.next = nx
      /\ e.id = d /\ e.val = v /\ e.live = w
  BY ONLY <1>3
<1>5. Shape(e)
  BY ONLY <1>3, <1>4 DEF Shape
<1>6. ListOf(e, s, n) /\ Data(e)
  BY <1>1, <1>2, <1>4 DEF ListOf, Data
<1> QED
  BY <1>1, <1>2, <1>4, <1>5, <1>6 DEF Sound, SameSessions

DisabledIn(e, c, x) ==
  /\ e.used = c.used /\ e.id = c.id /\ e.val = c.val
  /\ e.live = [c.live EXCEPT ![x] = FALSE]

\* Disabling an entry disturbs neither tree nor list.
LEMMA Disabled ==
  ASSUME NEW c, NEW u, NEW s, Sound(c, u, s), NEW x \in Addr,
         NEW e, e = [c EXCEPT !.live[x] = FALSE]
  PROVE  Sound(e, u, s) /\ DisabledIn(e, c, x)
<1>1. PICK n, h, t, i, l, pv, nx, d, v, w, b :
        /\ n = c.used /\ h = c.head /\ t = c.tail /\ i = c.init_done /\ l = c.link
        /\ pv = c.prev /\ nx = c.next /\ d = c.id /\ v = c.val /\ w = c.live
        /\ b = [w EXCEPT ![x] = FALSE]
  OBVIOUS
<1>2. /\ Shape(c) /\ n \in 0..Capacity /\ Tree(l, d, u) /\ u[Root] = 1..n
      /\ v \in [Addr -> Vals \cup {NotFound}] /\ w \in [Addr -> BOOLEAN]
      /\ Tidy(u) /\ ListOf(c, s, n) /\ OnTo(s, n, 1..n) /\ (~i => n = 0)
  BY <1>1 DEF Sound, Data
<1>3. e = [used |-> n, head |-> h, tail |-> t, init_done |-> i,
           link |-> l, prev |-> pv, next |-> nx, id |-> d, val |-> v, live |-> b]
  BY <1>1, <1>2 DEF Shape
<1>4. /\ e.used = n /\ e.head = h /\ e.tail = t /\ e.init_done = i
      /\ e.link = l /\ e.prev = pv /\ e.next = nx
      /\ e.id = d /\ e.val = v /\ e.live = b
  BY ONLY <1>3
<1>5. Shape(e)
  BY ONLY <1>3, <1>4 DEF Shape
<1>6. ListOf(e, s, n)
  BY <1>1, <1>2, <1>4 DEF ListOf
<1>7. b \in [Addr -> BOOLEAN]
  BY <1>1, <1>2
<1>8. Data(e)
  BY <1>2, <1>4, <1>7 DEF Data
<1>9. Sound(e, u, s)
  BY <1>2, <1>4, <1>5, <1>6, <1>8 DEF Sound
<1>10. DisabledIn(e, c, x)
  BY <1>1, <1>4 DEF DisabledIn
<1> QED
  BY <1>9, <1>10

-----------------------------------------------------------------------------
\* The three operations as relations of the cache c before and e after them.
SavedTo(c, e, m, v) ==
  IF Capacity = 0 THEN e = c
  ELSE IF c.link[find_node(c, m)] # Null THEN e = [c EXCEPT !.init_done = TRUE]
  ELSE e = Added1(MakeRoom(c), EntryFor(c), m, v)

LoadedTo(c, e, a, m) ==
  LET x == c.link[find_node(c, m)] IN
  IF ~c.init_done \/ x = Null \/ (x # Null /\ ~c.live[x]) THEN e = c /\ a = NotFound
  ELSE a = c.val[x] /\ IF x = c.head THEN e = c ELSE e = PushHead(Unlink(c, x), x)

ForgottenTo(c, e, m) ==
  LET x == c.link[find_node(c, m)] IN
  IF c.init_done /\ x # Null THEN e = [c EXCEPT !.live[x] = FALSE] ELSE e = c

\* The cache has an entry for m.
Has(c, m) == \E y \in 1..c.used : c.id[y] = m

\* e is c with m at x in front of the entries os, which are n.
Grown(c, e, m, v, ns, x, os, n) ==
  /\ x \in Addr /\ ns = Before(x, os, n) /\ e.used = n + 1 /\ n \in Nat
  /\ e.id = [c.id EXCEPT ![x] = m] /\ e.val = [c.val EXCEPT ![x] = v]
  /\ e.live = [c.live EXCEPT ![x] = TRUE]
  /\ \A k \in 1..n : os[k] # x

\* What lru_save does to the sequence of sessions: nothing, or a new one comes first and
\* in a full cache the last one leaves.
SaveMeans(c, s, e, ns, m, v) ==
  \/ (Capacity = 0 \/ Has(c, m)) /\ ns = s /\ SameSessions(e, c)
  \/ /\ Capacity # 0 /\ ~Has(c, m) /\ c.used # Capacity
     /\ \E x : Grown(c, e, m, v, ns, x, s, c.used)
  \/ /\ Capacity # 0 /\ ~Has(c, m) /\ c.used = Capacity
     /\ \E x : Grown(c, e, m, v, ns, x, WithoutLast(s, c.used), c.used - 1)

\* A place with room is filled: sound, and with the new entry first.
LEMMA RoomFilled ==
  ASSUME NEW c, NEW r, NEW x, NEW u, NEW s, NEW n, Roomy(r, x, u, s, n), NEW m \in Nat,
         r.id = c.id, r.val = c.val, r.live = c.live, \A y \in u[Root] : r.id[y] # m,
         NEW v \in Vals, NEW e, e = Added1(r, x, m, v)
  PROVE  \E nu : Sound(e, nu, Before(x, s, n)) /\ Grown(c, e, m, v, Before(x, s, n), x, s, n)
<1>1. PICK ns : ns = Before(x, s, n)
  OBVIOUS
<1>2. (\E nu : Sound(e, nu, ns)) /\ WithEntry(e, r, x, m, v, n)
  BY <1>1, Inserted
<1>3. x \in Addr /\ n \in Nat /\ \A k \in 1..n : s[k] # x
  BY DEF Roomy, OnTo
<1>4. Grown(c, e, m, v, ns, x, s, n)
  BY <1>1, <1>2, <1>3 DEF Grown, WithEntry
<1> QED
  BY <1>1, <1>2, <1>4

\* lru_save leaves the cache sound and does what SaveMeans says.
LEMMA SaveStep ==
  ASSUME NEW c, NEW u, NEW s, Sound(c, u, s), NEW m \in Nat, NEW v \in Vals, NEW e,
         SavedTo(c, e, m, v)
  PROVE  \E nu, ns : Sound(e, nu, ns) /\ SaveMeans(c, s, e, ns, m, v)
<1>1. PICK y : y = c.link[find_node(c, m)]
  OBVIOUS
<1>2. Tree(c.link, c.id, u) /\ u[Root] = 1..c.used /\ c.used \in 0..Capacity
  BY DEF Sound
<1>3. Sought(c, u, m, y)
  BY <1>1, <1>2, Searched
<1>4. CASE Capacity = 0
  <2>1. e = c
    BY <1>4 DEF SavedTo
  <2> QED
    BY <1>4, <2>1 DEF SaveMeans, SameSessions
<1>5. CASE Capacity # 0 /\ y # Null
  <2>1. e = [c EXCEPT !.init_done = TRUE]
    BY <1>1, <1>5 DEF SavedTo
  <2>2. Has(c, m)
    BY <1>2, <1>3, <1>5 DEF Has, Sought
  <2>3. Sound(e, u, s) /\ SameSessions(e, c)
    BY <2>1, FlagSet
  <2> QED
    BY <2>2, <2>3 DEF SaveMeans
<1>6. CASE Capacity # 0 /\ y = Null
  <2>1. PICK r, x : r = MakeRoom(c) /\ x = EntryFor(c)
    OBVIOUS
  <2>2. e = Added1(r, x, m, v)
    BY <1>1, <1>6, <2>1 DEF SavedTo
  <2>3. ~Has(c, m) /\ \A z \in u[Root] : c.id[z] # m
    BY <1>2, <1>3, <1>6 DEF Has, Sought
  <2>4. CASE c.used # Capacity
    <3>1. x = c.used + 1 /\ r = [c EXCEPT !.used = @ + 1]
      BY <2>1, <2>4 DEF MakeRoom, EntryFor
    <3>2. /\ Roomy(r, x, u, s, c.used) /\ r.id = c.id /\ r.val = c.val /\ r.live = c.live
      BY <2>4, <3>1, RoomTaken
    <3>3. PICK n : n = c.used
      OBVIOUS
    <3>4. \A z \in u[Root] : r.id[z] # m
      BY <2>3, <3>2
    <3>5. \E nu : Sound(e, nu, Before(x, s, n)) /\ Grown(c, e, m, v, Before(x, s, n), x, s, n)
      BY <2>2, <3>2, <3>3, <3>4, RoomFilled
    <3> QED
      BY <1>6, <2>3, <2>4, <3>3, <3>5 DEF SaveMeans
  <2>5. CASE c.used = Capacity
    <3>1. x = c.tail /\ r = remove_node(DropTail(c), c.tail)
      BY <2>1, <2>5 DEF MakeRoom, EntryFor
    <3>2. PICK os, n : os = WithoutLast(s, c.used) /\ n = c.used - 1
      OBVIOUS
    <3>3. PICK nu : Roomy(r, x, nu, os, n)
      BY <1>6, <2>5, <3>1, <3>2, RoomMade
    <3>4. r.id = c.id /\ r.val = c.val /\ r.live = c.live
      BY <1>6, <2>5, <3>1, RoomMade
    <3>5. \A z \in nu[Root] : r.id[z] # m
      <4>1. nu[Root] = (1..r.used) \ {x} /\ r.used = n + 1
        BY <3>3 DEF Roomy
      <4>2. r.used = c.used
        BY <1>2, <3>2, <4>1, LruAssumption
      <4> QED
        BY <1>2, <2>3, <3>4, <4>1, <4>2
    <3>6. \E mu : Sound(e, mu, Before(x, os, n)) /\ Grown(c, e, m, v, Before(x, os, n), x, os, n)
      BY <2>2, <3>3, <3>4, <3>5, RoomFilled
    <3> QED
      BY <1>6, <2>3, <2>5, <3>2, <3>6 DEF SaveMeans
  <2> QED
    BY <2>4, <2>5
<1> QED
  BY <1>4, <1>5, <1>6

-----------------------------------------------------------------------------
\* Nothing live has identifier m, or the entry that has it is first from now on and
\* answers.
LoadMeans(c, s, e, ns, a, m) ==
  /\ SameSessions(e, c)
  /\ \/ ns = s /\ a = NotFound /\ \A k \in 1..c.used : c.id[s[k]] = m => ~c.live[s[k]]
     \/ ns = s /\ c.used > 0 /\ c.id[s[1]] = m /\ c.live[s[1]] /\ a = c.val[s[1]]
     \/ \E p \in 2..c.used : /\ c.id[s[p]] = m /\ c.live[s[p]] /\ a = c.val[s[p]]
                             /\ ns = Before(s[p], Without(s, c.used, p), c.used - 1)

\* lru_load leaves the cache sound and does what LoadMeans says.
LEMMA LoadStep ==
  ASSUME NEW c, NEW u, NEW s, Sound(c, u, s), NEW m \in Nat, NEW e, NEW a,
         LoadedTo(c, e, a, m)
  PROVE  \E ns : Sound(e, u, ns) /\ LoadMeans(c, s, e, ns, a, m)
<1>1. PICK x : x = c.link[find_node(c, m)]
  OBVIOUS
<1>2. /\ Tree(c.link, c.id, u) /\ u[Root] = 1..c.used /\ c.used \in 0..Capacity
      /\ OnTo(s, c.used, 1..c.used) /\ ListOf(c, s, c.used) /\ (~c.init_done => c.used = 0)
  BY DEF Sound
<1>3. Sought(c, u, m, x)
  BY <1>1, <1>2, Searched
<1>4. \A k \in 1..c.used : s[k] \in u[Root]
  BY <1>2 DEF OnTo
<1>5. CASE ~c.init_done \/ x = Null \/ (x # Null /\ ~c.live[x])
  <2>1. e = c /\ a = NotFound
    BY <1>1, <1>5 DEF LoadedTo
  <2>2. ASSUME NEW k \in 1..c.used, c.id[s[k]] = m
        PROVE  ~c.live[s[k]]
    <3>1. c.used # 0
      BY <2>2
    <3>2. x # Null
      BY <1>3, <1>4, <2>2 DEF Sought
    <3>3. x \in u[Root] /\ c.id[x] = m
      BY <1>3, <3>2 DEF Sought
    <3>4. s[k] = x
      BY <1>2, <1>4, <2>2, <3>3, IdsDiffer, Places
    <3> QED
      BY <1>2, <1>5, <3>1, <3>2, <3>4
  <2> QED
    BY <2>1, <2>2 DEF LoadMeans, SameSessions
<1>6. CASE ~(~c.init_done \/ x = Null \/ (x # Null /\ ~c.live[x]))
  <2>1. x # Null /\ c.live[x] /\ x \in u[Root] /\ c.id[x] = m
    BY <1>3, <1>6 DEF Sought
  <2>2. CASE x = c.head
    <3>1. e = c /\ a = c.val[x]
      BY <1>1, <1>6, <2>2 DEF LoadedTo
    <3>2. c.used > 0
      BY <1>2, <2>1
    <3>3. s[1] = x
      <4>1. PICK h, t, pv, nx : h = c.head /\ t = c.tail /\ pv = c.prev /\ nx = c.next
        OBVIOUS
      <4>2. List(h, t, pv, nx, s, c.used)
        BY <1>2, <4>1 DEF ListOf
      <4> QED
        BY <2>2, <3>2, <4>1, <4>2, ListFacts
    <3> QED
      BY <2>1, <3>1, <3>2, <3>3 DEF LoadMeans, SameSessions
  <2>3. CASE x # c.head
    <3>1. e = PushHead(Unlink(c, x), x) /\ a = c.val[x]
      BY <1>1, <1>6, <2>3 DEF LoadedTo
    <3>2. SameSessions(e, c)
      BY <2>1, <2>3, <3>1, MovedToHead DEF SameSessions
    <3>3. PICK p \in 2..c.used : s[p] = x /\
            Sound(e, u, Before(x, Without(s, c.used, p), c.used - 1))
      BY <2>1, <2>3, <3>1, MovedToHead
    <3> QED
      BY <2>1, <3>1, <3>2, <3>3 DEF LoadMeans
  <2> QED
    BY <2>2, <2>3
<1> QED
  BY <1>5, <1>6

\* An entry is disabled if there is one.
ForgetMeans(c, e, m) ==
  /\ e.used = c.used /\ e.id = c.id /\ e.val = c.val
  /\ \/ ~Has(c, m) /\ e.live = c.live
     \/ \E x \in 1..c.used : c.id[x] = m /\ e.live = [c.live EXCEPT ![x] = FALSE]

\* br_ssl_session_cache_lru_forget leaves the cache sound and disables one entry.
LEMMA ForgetStep ==
  ASSUME NEW c, NEW u, NEW s, Sound(c, u, s), NEW m \in Nat, NEW e, ForgottenTo(c, e, m)
  PROVE  Sound(e, u, s) /\ ForgetMeans(c, e, m)
<1>1. PICK x : x = c.link[find_node(c, m)]
  OBVIOUS
<1>2. /\ Tree(c.link, c.id, u) /\ u[Root] = 1..c.used /\ c.used \in 0..Capacity
      /\ (~c.init_done => c.used = 0)
  BY DEF Sound
<1>3. Sought(c, u, m, x)
  BY <1>1, <1>2, Searched
<1>4. CASE c.init_done /\ x # Null
  <2>1. e = [c EXCEPT !.live[x] = FALSE]
    BY <1>1, <1>4 DEF ForgottenTo
  <2>2. x \in 1..c.used /\ c.id[x] = m
    BY <1>2, <1>3, <1>4 DEF Sought
  <2>3. x \in Addr
    BY <1>2, <2>2, LruAssumption DEF Addr
  <2>4. Sound(e, u, s) /\ DisabledIn(e, c, x)
    BY <2>1, <2>3, Disabled
  <2>5. ForgetMeans(c, e, m)
    BY <2>2, <2>4 DEF ForgetMeans, DisabledIn
  <2> QED
    BY <2>4, <2>5
<1>5. CASE ~(c.init_done /\ x # Null)
  <2>1. e = c
    BY <1>1, <1>5 DEF ForgottenTo
  <2>2. ~Has(c, m)
    <3>1. CASE ~c.init_done
      BY <1>2, <3>1 DEF Has
    <3>2. CASE x = Null
      BY <1>2, <1>3, <3>2 DEF Has, Sought
    <3> QED
      BY <1>5, <3>1, <3>2
  <2> QED
    BY <2>1, <2>2 DEF ForgetMeans
<1> QED
  BY <1>4, <1>5

-----------------------------------------------------------------------------
(* From the witnesses to ListOrder and Under. *)

\* The recursion of ListOrder.
IsOrder(f, h, nx, n) ==
  f = [k \in 1..n |-> IF k = 1 THEN h
                      ELSE IF f[k - 1] = Null THEN Null ELSE nx[f[k - 1]]]

\* The sequence that goes through a list is one as ListOrder asks.
LEMMA OrderExists ==
  ASSUME NEW h, NEW t, NEW pv, NEW nx, NEW s, NEW n, List(h, t, pv, nx, s, n)
  PROVE  IsOrder(s, h, nx, n)
<1>1. /\ n \in Nat /\ s \in [1..n -> Addr]
      /\ n > 0 => h = s[1]
      /\ \A k \in 1..n : nx[s[k]] = IF k = n THEN Null ELSE s[k + 1]
  BY ListFacts
<1>2. \A k \in 1..n : s[k] = IF k = 1 THEN h
                              ELSE IF s[k - 1] = Null THEN Null ELSE nx[s[k - 1]]
  <2> SUFFICES ASSUME NEW k \in 1..n, k # 1
               PROVE  s[k - 1] # Null /\ s[k] = nx[s[k - 1]]
    BY <1>1
  <2>1. k - 1 \in 1..n /\ k - 1 # n /\ (k - 1) + 1 = k
    BY <1>1
  <2> QED
    BY <1>1, <2>1, Places
<1>3. s = [k \in 1..n |-> s[k]]
  BY <1>1
<1> QED
  BY <1>2, <1>3 DEF IsOrder

\* There is only one such sequence.
LEMMA OrderIs ==
  ASSUME NEW h, NEW nx, NEW n \in Nat, NEW f, NEW s, IsOrder(s, h, nx, n), IsOrder(f, h, nx, n)
  PROVE  f = s
<1>1. /\ DOMAIN s = 1..n /\ DOMAIN f = 1..n
      /\ f = [k \in 1..n |-> f[k]] /\ s = [k \in 1..n |-> s[k]]
  BY DEF IsOrder
<1>2. \A k \in 1..n : f[k] = IF k = 1 THEN h
                              ELSE IF f[k - 1] = Null THEN Null ELSE nx[f[k - 1]]
  BY DEF IsOrder
<1>3. \A k \in 1..n : s[k] = IF k = 1 THEN h
                              ELSE IF s[k - 1] = Null THEN Null ELSE nx[s[k - 1]]
  BY DEF IsOrder
<1> DEFINE S == {k \in Nat : k \in 1..n => f[k] = s[k]}
<1>4. 0 \in S
  OBVIOUS
<1>5. ASSUME NEW k \in Nat, k \in S
      PROVE  k + 1 \in S
  <2>1. SUFFICES ASSUME k + 1 \in 1..n
                 PROVE  f[k + 1] = s[k + 1]
    OBVIOUS
  <2>2. CASE k = 0
    BY <1>2, <1>3, <2>1, <2>2
  <2>3. CASE k # 0
    <3>1. k \in 1..n /\ (k + 1) - 1 = k /\ k + 1 # 1
      BY <2>1, <2>3
    <3>2. f[k] = s[k]
      BY <1>5, <3>1
    <3>3. f[k + 1] = IF f[k] = Null THEN Null ELSE nx[f[k]]
      BY <1>2, <2>1, <3>1
    <3>4. s[k + 1] = IF s[k] = Null THEN Null ELSE nx[s[k]]
      BY <1>3, <2>1, <3>1
    <3> QED
      BY <3>2, <3>3, <3>4
  <2> QED
    BY <2>2, <2>3
<1>6. \A k \in Nat : k \in S
  <2> HIDE DEF S
  <2> QED
    BY <1>4, <1>5, Counting
<1>7. \A k \in 1..n : f[k] = s[k]
  BY <1>6
<1> QED
  BY <1>1, <1>7

\* ListOrder of a list is the sequence that goes through it.
LEMMA ListOrderIs ==
  ASSUME NEW c, NEW s, ListOf(c, s, c.used)
  PROVE  ListOrder(c) = s
<1> DEFINE P(f) == f = [n \in 1..c.used |->
                          IF n = 1 THEN c.head
                          ELSE IF f[n - 1] = Null THEN Null ELSE c.next[f[n - 1]]]
<1>1. PICK a : a = CHOOSE f : P(f)
  OBVIOUS
<1>2. ListOrder(c) = a
  BY <1>1 DEF ListOrder
<1>3. \A f : P(f) <=> IsOrder(f, c.head, c.next, c.used)
  BY DEF IsOrder
<1> HIDE DEF P
<1>4. PICK h, t, pv, nx, n : h = c.head /\ t = c.tail /\ pv = c.prev /\ nx = c.next /\ n = c.used
  OBVIOUS
<1>5. List(h, t, pv, nx, s, n)
  BY <1>4 DEF ListOf
<1>6. n \in Nat /\ IsOrder(s, h, nx, n)
  BY <1>5, OrderExists, ListFacts
<1>7. P(a)
  BY <1>1, <1>3, <1>4, <1>6
<1>8. IsOrder(a, h, nx, n)
  BY <1>3, <1>4, <1>7
<1> QED
  BY <1>2, <1>6, <1>8, OrderIs

\* Under gives the nodes that the tree has under a place.
LEMMA UnderIs ==
  ASSUME NEW c, NEW u, Tree(c.link, c.id, u)
  PROVE  \A l \in Links : Under(c, l) = u[l]
<1>1. PICK lk, d : lk = c.link /\ d = c.id
  OBVIOUS
<1>2. Tree(lk, d, u)
  BY <1>1
<1>3. /\ u \in [Links -> SUBSET Addr]
      /\ \A l \in Links : lk[l] \in Addr \cup {Null}
      /\ \A l \in Links : lk[l] # Null => lk[l] \in u[l] /\ lk[l] \in Addr
      /\ \A l \in Links, side \in Sides : lk[l] # Null =>
           /\ Child(lk[l], side) \in Links
           /\ u[Child(lk[l], side)] \subseteq u[l]
           /\ u[Child(lk[l], side)] # u[l]
  BY <1>2, TreeFacts
<1>4. /\ \A l \in Links : lk[l] = Null => u[l] = {}
      /\ \A l \in Links : lk[l] # Null =>
           u[l] = {lk[l]} \cup u[Child(lk[l], "left")] \cup u[Child(lk[l], "right")]
  BY <1>2 DEF Tree
<1> DEFINE Closed(S) == \A x \in S, side \in Sides : lk[Child(x, side)] \in S \cup {Null}
<1>5. \A S : HasChildren(c, S) <=> Closed(S)
  BY <1>1 DEF HasChildren, Sides, Child
<1>6. \A l \in Links : Closed(u[l]) /\ u[l] \in SUBSET Addr /\ lk[l] \in u[l] \cup {Null}
  <2> SUFFICES ASSUME NEW l \in Links, NEW x \in u[l], NEW side \in Sides
               PROVE  lk[Child(x, side)] \in u[l] \cup {Null}
    BY <1>3
  <2>1. x \in Addr /\ Child(x, side) \in Links
    BY <1>3, Places
  <2>2. u[Child(x, side)] \subseteq u[l]
    BY <1>2, UnderIn
  <2> QED
    BY <1>3, <2>1, <2>2
<1> DEFINE B == {l \in Links : \A S \in SUBSET Addr :
                                 Closed(S) /\ lk[l] \in S \cup {Null} => u[l] \subseteq S}
<1>7. ASSUME NEW l \in Links, \A k \in Links : u[k] \subseteq u[l] /\ u[k] # u[l] => k \in B
      PROVE  l \in B
  <2> SUFFICES ASSUME NEW S \in SUBSET Addr, Closed(S), lk[l] \in S, lk[l] # Null
               PROVE  u[l] \subseteq S
    BY <1>4
  <2>1. ASSUME NEW side \in Sides
        PROVE  u[Child(lk[l], side)] \subseteq S
    <3>1. PICK k : k = Child(lk[l], side)
      OBVIOUS
    <3>2. k \in Links /\ u[k] \subseteq u[l] /\ u[k] # u[l]
      BY <1>3, <3>1
    <3>3. k \in B
      BY <1>7, <3>2
    <3>4. lk[k] \in S \cup {Null}
      BY <3>1
    <3>5. u[k] \subseteq S
      BY <3>3, <3>4
    <3> QED
      BY <3>1, <3>5
  <2>2. u[Child(lk[l], "left")] \subseteq S /\ u[Child(lk[l], "right")] \subseteq S
    BY <2>1 DEF Sides
  <2> QED
    BY <1>4, <2>2
<1>8. \A l \in Links : l \in B
  <2> HIDE DEF B
  <2> QED
    BY <1>3, <1>7, TreeInduction
<1>9. ASSUME NEW l \in Links
      PROVE  Under(c, l) = u[l]
  <2>1. Under(c, l) = {y \in Addr : \A S \in SUBSET Addr :
                                       Closed(S) /\ lk[l] \in S \cup {Null} => y \in S}
    BY <1>1, <1>5 DEF Under
  <2>2. \A y \in Addr : (\A S \in SUBSET Addr : Closed(S) /\ lk[l] \in S \cup {Null} => y \in S)
                         => y \in u[l]
    BY <1>6
  <2>3. \A y \in u[l] : y \in Addr
                        /\ \A S \in SUBSET Addr : Closed(S) /\ lk[l] \in S \cup {Null} => y \in S
    BY <1>3, <1>8
  <2> HIDE DEF Closed
  <2> QED
    BY <2>1, <2>2, <2>3
<1> QED
  BY <1>9

\* CacheSound of any context.
SoundCache(c) == ListSound(c) /\ TreeSearchable(c)

\* What is sound, with witnesses for tree and list, is sound as the property says.
LEMMA SoundIs ==
  ASSUME NEW c, NEW u, NEW s, Sound(c, u, s)
  PROVE  SoundCache(c)
<1>1. PICK n, h, t, pv, nx :
        n = c.used /\ h = c.head /\ t = c.tail /\ pv = c.prev /\ nx = c.next
  OBVIOUS
<1>2. /\ Tree(c.link, c.id, u) /\ u[Root] = 1..n /\ ListOf(c, s, n) /\ OnTo(s, n, 1..n)
      /\ List(h, t, pv, nx, s, n)
  BY <1>1 DEF Sound, ListOf
<1>3. ListOrder(c) = s
  BY <1>1, <1>2, ListOrderIs
<1>4. /\ n \in Nat /\ s \in [1..n -> Addr]
      /\ \A j, k \in 1..n : s[j] = s[k] => j = k
      /\ n = 0 => h = Null /\ t = Null
      /\ n > 0 => t = s[n]
      /\ \A k \in 1..n : /\ nx[s[k]] = IF k = n THEN Null ELSE s[k + 1]
                         /\ pv[s[k]] = IF k = 1 THEN Null ELSE s[k - 1]
  BY <1>2, ListFacts
<1>5. ListSound(c)
  <2>1. DOMAIN s = 1..n
    BY <1>4
  <2>2. IsInjective(s)
    BY <1>4, <2>1 DEF IsInjective
  <2>3. Range(s) = 1..n
    BY <1>2, <2>1 DEF Range, OnTo
  <2>4. n > 0 => nx[t] = Null
    <3>1. n > 0 => n \in 1..n
      BY <1>4
    <3> QED
      BY <1>4, <3>1
  <2>5. \A k \in DOMAIN s : pv[s[k]] = IF k = 1 THEN Null ELSE s[k - 1]
    BY <1>4, <2>1
  <2> QED
    BY <1>1, <1>3, <1>4, <2>2, <2>3, <2>4, <2>5 DEF ListSound
<1>6. TreeSearchable(c)
  <2>1. Under(c, Root) = 1..n
    BY <1>2, UnderIs, Places
  <2>2. \A x \in 1..n : x \in Addr
    BY <1>2, Places DEF Tree
  <2>3. \A x \in 1..n, side \in Sides : Under(c, Child(x, side)) = u[Child(x, side)]
    BY <1>2, <2>2, UnderIs, Places
  <2>4. \A x \in 1..n, side \in Sides : \A y \in Under(c, Child(x, side)) :
          Ordered(c.id[y], side, c.id[x])
    BY <1>2, <2>2, <2>3 DEF Tree
  <2>5. \A x \in 1..n : /\ \A y \in Under(c, <<x, "left">>) : c.id[y] < c.id[x]
                        /\ \A y \in Under(c, <<x, "right">>) : c.id[y] > c.id[x]
    BY <2>4 DEF Ordered, Sides, Child
  <2> QED
    BY <1>1, <2>1, <2>5 DEF TreeSearchable
<1> QED
  BY <1>5, <1>6 DEF SoundCache

-----------------------------------------------------------------------------
(* The inductive invariant of LruSpec. *)

\* A masked identifier is a natural.
LEMMA MaskNat ==
  ASSUME NEW id \in Ids
  PROVE  mask_id(id) \in Nat
<1>1. id \in Nat
  BY LruAssumption
<1>2. (2 * id) % 5 \in Nat /\ id \div 5 \in Nat
  BY <1>1
<1>3. PICK a, b : a = (2 * id) % 5 /\ b = id \div 5
  OBVIOUS
<1>4. a + 5 * b \in Nat
  BY <1>2, <1>3
<1> QED
  BY <1>3, <1>4 DEF mask_id

\* The inductive invariant.
CacheInv == \E u, s : Sound(cache, u, s)

\* The cache that br_ssl_session_cache_lru_init leaves is sound.
LEMMA InitSound ==
  ASSUME LruInit
  PROVE  \E u, s : Sound(cache, u, s) /\ cache.used = 0
<1>1. PICK lk, pv, nx, d, v, w :
        /\ lk = [l \in Links |-> Null]
        /\ pv = [x \in Addr |-> Null] /\ nx = [x \in Addr |-> Null]
        /\ d = [x \in Addr |-> 0] /\ v = [x \in Addr |-> NotFound]
        /\ w = [x \in Addr |-> FALSE]
  OBVIOUS
<1>2. PICK c : c = cache
  OBVIOUS
<1>3. c = [used |-> 0, head |-> Null, tail |-> Null, init_done |-> FALSE, link |-> lk,
           prev |-> pv, next |-> nx, id |-> d, val |-> v, live |-> w]
  BY <1>1, <1>2 DEF LruInit
<1>4. /\ c.used = 0 /\ c.head = Null /\ c.tail = Null /\ c.init_done = FALSE /\ c.link = lk
      /\ c.prev = pv /\ c.next = nx /\ c.id = d /\ c.val = v /\ c.live = w
  BY ONLY <1>3
<1>5. Shape(c)
  BY ONLY <1>3, <1>4 DEF Shape
<1>6. PICK u, s : u = [l \in Links |-> {}] /\ s = [k \in 1..0 |-> 0]
  OBVIOUS
<1>7. Tree(lk, d, u)
  <2>1. lk \in [Links -> Addr \cup {Null}] /\ d \in [Addr -> Nat] /\ u \in [Links -> SUBSET Addr]
    BY <1>1, <1>6
  <2>2. \A l \in Links : lk[l] = Null /\ u[l] = {}
    BY <1>1, <1>6
  <2> QED
    BY <2>1, <2>2, Places DEF Tree
<1>8. List(Null, Null, pv, nx, s, 0)
  <2>1. \A k \in 1..0 : FALSE
    OBVIOUS
  <2>2. s \in [1..0 -> Addr]
    BY <1>6, <2>1
  <2>3. pv \in [Addr -> Addr \cup {Null}] /\ nx \in [Addr -> Addr \cup {Null}]
    BY <1>1
  <2> QED
    BY <2>1, <2>2, <2>3 DEF List
<1>9. Data(c)
  <2>1. v \in [Addr -> Vals \cup {NotFound}] /\ w \in [Addr -> BOOLEAN]
    BY <1>1
  <2> QED
    BY <1>4, <2>1 DEF Data
<1>10. u[Root] = {} /\ Tidy(u)
  BY <1>6, Places DEF Tidy
<1>11. 1..0 = {} /\ OnTo(s, 0, 1..0)
  BY DEF OnTo
<1>12. Sound(c, u, s)
  BY <1>4, <1>5, <1>7, <1>8, <1>9, <1>10, <1>11, LruAssumption DEF Sound, ListOf
<1> QED
  BY <1>2, <1>4, <1>12

\* What each operation makes of the cache.
LEMMA SavedBy ==
  ASSUME NEW id \in Ids, NEW val \in Vals, lru_save(id, val)
  PROVE  /\ SavedTo(cache, cache', mask_id(id), val)
         /\ result' = Did("save", mask_id(id), val, NotFound)
<1>1. PICK m, x, r : m = mask_id(id) /\ x = EntryFor(cache) /\ r = MakeRoom(cache)
  OBVIOUS
<1>2. SavedTo(cache, cache', m, val)
  BY <1>1 DEF lru_save, SavedTo, Added1, Entered, TwoLinks, Child
<1> QED
  BY <1>1, <1>2 DEF lru_save

\* lru_load, as a relation of the cache before and after it.
LEMMA LoadedBy ==
  ASSUME NEW id \in Ids, lru_load(id)
  PROVE  \E a : /\ LoadedTo(cache, cache', a, mask_id(id))
                 /\ result' = Did("load", mask_id(id), NotFound, a)
<1>1. PICK m, x : m = mask_id(id) /\ x = cache.link[find_node(cache, m)]
  OBVIOUS
<1>2. CASE ~cache.init_done \/ x = Null \/ (x # Null /\ ~cache.live[x])
  <2>1. LoadedTo(cache, cache', NotFound, m) /\ result' = Did("load", m, NotFound, NotFound)
    BY <1>1, <1>2 DEF lru_load, LoadedTo
  <2> QED
    BY <1>1, <2>1
<1>3. CASE ~(~cache.init_done \/ x = Null \/ (x # Null /\ ~cache.live[x]))
  <2>1. /\ LoadedTo(cache, cache', cache.val[x], m)
        /\ result' = Did("load", m, NotFound, cache.val[x])
    BY <1>1, <1>3 DEF lru_load, LoadedTo
  <2> QED
    BY <1>1, <2>1
<1> QED
  BY <1>2, <1>3

\* br_ssl_session_cache_lru_forget likewise.
LEMMA ForgottenBy ==
  ASSUME NEW id \in Ids, br_ssl_session_cache_lru_forget(id)
  PROVE  /\ ForgottenTo(cache, cache', mask_id(id))
         /\ result' = Did("forget", mask_id(id), NotFound, NotFound)
BY DEF br_ssl_session_cache_lru_forget, ForgottenTo

\* Every step keeps the inductive invariant.
LEMMA StepSound ==
  ASSUME CacheInv, [LruNext]_lru_vars
  PROVE  CacheInv'
<1>1. PICK u, s : Sound(cache, u, s)
  BY DEF CacheInv
<1>2. PICK c, e : c = cache /\ e = cache'
  OBVIOUS
<1>3. Sound(c, u, s)
  BY <1>1, <1>2
<1>4. (\E nu, ns : Sound(e, nu, ns)) => CacheInv'
  BY <1>2 DEF CacheInv
<1>5. ASSUME NEW id \in Ids, NEW val \in Vals, lru_save(id, val)
      PROVE  CacheInv'
  <2>1. SavedTo(c, e, mask_id(id), val)
    BY <1>2, <1>5, SavedBy
  <2> QED
    BY <1>3, <1>4, <2>1, MaskNat, SaveStep
<1>6. ASSUME NEW id \in Ids, lru_load(id)
      PROVE  CacheInv'
  <2>1. PICK a : LoadedTo(c, e, a, mask_id(id))
    BY <1>2, <1>6, LoadedBy
  <2> QED
    BY <1>3, <1>4, <2>1, MaskNat, LoadStep
<1>7. ASSUME NEW id \in Ids, br_ssl_session_cache_lru_forget(id)
      PROVE  CacheInv'
  <2>1. ForgottenTo(c, e, mask_id(id))
    BY <1>2, <1>7, ForgottenBy
  <2> QED
    BY <1>3, <1>4, <2>1, MaskNat, ForgetStep
<1>8. CASE UNCHANGED lru_vars
  BY <1>2, <1>3, <1>4, <1>8 DEF lru_vars
<1> QED
  BY <1>5, <1>6, <1>7, <1>8 DEF LruNext

\* The inductive invariant implies the property.
LEMMA InvSound ==
  ASSUME CacheInv
  PROVE  CacheSound
<1>1. PICK c, u, s : c = cache /\ Sound(c, u, s)
  BY DEF CacheInv
<1>2. SoundCache(c)
  BY <1>1, SoundIs
<1> QED
  BY <1>1, <1>2 DEF SoundCache, CacheSound

(* Whatever is saved, loaded and forgotten, in a cache of any capacity, list and tree of
   ssl_lru.c hold the same entries: each is in the list once, both ways, and where a
   search by its identifier finds it. *)
THEOREM CacheStaysSound == LruSpec => []CacheSound
<1>1. LruInit => CacheInv
  BY InitSound DEF CacheInv
<1>2. CacheInv /\ [LruNext]_lru_vars => CacheInv'
  BY StepSound
<1>3. CacheInv => CacheSound
  BY InvSound
<1> QED
  BY <1>1, <1>2, <1>3, PTL DEF LruSpec

-----------------------------------------------------------------------------
(* The cached sessions as a sequence. *)

\* One element before a sequence.
LEMMA PrependIs ==
  ASSUME NEW T, NEW a \in T, NEW n \in Nat, NEW z \in [1..n -> T]
  PROVE  <<a>> \o z = Before(a, z, n)
<1>1. z \in Seq(T) /\ Len(z) = n /\ <<a>> \in Seq(T)
  OBVIOUS
<1>2. PICK y : y = <<a>> \o z
  OBVIOUS
<1>3. y \in Seq(T) /\ Len(y) = n + 1
  BY <1>1, <1>2
<1>4. \A k \in 1..(n + 1) : y[k] = IF k = 1 THEN a ELSE z[k - 1]
  BY <1>1, <1>2
<1>5. y = [k \in 1..(n + 1) |-> y[k]]
  BY <1>3
<1> QED
  BY <1>2, <1>4, <1>5 DEF Before

\* A sequence without its last element.
LEMMA FrontIs ==
  ASSUME NEW T, NEW n \in Nat, n > 0, NEW z \in [1..n -> T]
  PROVE  SubSeq(z, 1, Len(z) - 1) = WithoutLast(z, n)
<1>1. z \in Seq(T) /\ Len(z) = n
  OBVIOUS
<1>2. PICK y : y = SubSeq(z, 1, n - 1)
  OBVIOUS
<1>3. y \in Seq(T) /\ Len(y) = n - 1
  <2>1. PICK p \in 1..n : p = n
    OBVIOUS
  <2>2. y = SubSeq(z, 1, p - 1)
    BY <1>2, <2>1
  <2>3. y \in Seq(T) /\ Len(y) = p - 1
    BY <1>1, <2>2
  <2> QED
    BY <2>1, <2>3
<1>4. \A k \in 1..(n - 1) : y[k] = z[k]
  BY <1>1, <1>2
<1>5. y = [k \in 1..(n - 1) |-> y[k]]
  BY <1>3
<1> QED
  BY <1>1, <1>2, <1>4, <1>5 DEF WithoutLast

\* A sequence without the element at p.
LEMMA RemovedIs ==
  ASSUME NEW T, NEW n \in Nat, NEW z \in [1..n -> T], NEW p \in 1..n
  PROVE  SubSeq(z, 1, p - 1) \o SubSeq(z, p + 1, Len(z)) = Without(z, n, p)
<1>1. z \in Seq(T) /\ Len(z) = n
  OBVIOUS
<1>2. PICK a, b : a = SubSeq(z, 1, p - 1) /\ b = SubSeq(z, p + 1, n)
  OBVIOUS
<1>3. /\ a \in Seq(T) /\ Len(a) = p - 1 /\ \A k \in 1..(p - 1) : a[k] = z[k]
  BY <1>1, <1>2
<1>4. /\ b \in Seq(T) /\ Len(b) = n - p /\ \A k \in 1..(n - p) : b[k] = z[p + k]
  BY <1>1, <1>2
<1>5. PICK y : y = a \o b
  OBVIOUS
<1>6. y \in Seq(T) /\ Len(y) = n - 1
  <2>1. a \in Seq(T) /\ b \in Seq(T)
    BY <1>3, <1>4
  <2>2. y \in Seq(T) /\ Len(y) = Len(a) + Len(b)
    BY ONLY <1>5, <2>1
  <2>3. Len(a) + Len(b) = n - 1
    BY <1>3, <1>4
  <2> QED
    BY <2>2, <2>3
<1>7. \A k \in 1..(n - 1) : y[k] = IF k < p THEN z[k] ELSE z[k + 1]
  <2> SUFFICES ASSUME NEW k \in 1..(n - 1)
               PROVE  y[k] = IF k < p THEN z[k] ELSE z[k + 1]
    OBVIOUS
  <2>1. CASE k < p
    <3>1. k \in 1..(p - 1)
      BY <2>1
    <3>2. y[k] = a[k]
      BY <1>3, <1>4, <1>5, <3>1
    <3> QED
      BY <1>3, <2>1, <3>1, <3>2
  <2>2. CASE ~(k < p)
    <3>1. k - (p - 1) \in 1..(n - p) /\ p + (k - (p - 1)) = k + 1
      BY <2>2
    <3>2. a \in Seq(T) /\ b \in Seq(T) /\ Len(a) = p - 1 /\ Len(b) = n - p
      BY <1>3, <1>4
    <3>3. \A i \in 1..(Len(a) + Len(b)) :
            y[i] = IF i <= Len(a) THEN a[i] ELSE b[i - Len(a)]
      BY ONLY <1>5, <3>2
    <3>4. k \in 1..(Len(a) + Len(b)) /\ ~(k <= Len(a))
      BY <2>2, <3>2
    <3>5. y[k] = b[k - (p - 1)]
      BY <3>2, <3>3, <3>4
    <3> QED
      BY <1>4, <2>2, <3>1, <3>5
  <2> QED
    BY <2>1, <2>2
<1>8. y = [k \in 1..(n - 1) |-> y[k]]
  BY <1>6
<1> QED
  BY <1>1, <1>2, <1>5, <1>7, <1>8 DEF Without

-----------------------------------------------------------------------------
\* The session in entry y.
SessionOf(c, y) == [id |-> c.id[y], val |-> c.val[y], live |-> c.live[y]]

Sessions(c, s) == [k \in 1..c.used |-> SessionOf(c, s[k])]

AnySession == [id : Nat, val : Vals \cup {NotFound}, live : BOOLEAN]

\* Cached gives the sessions in the order of the list.
LEMMA CachedIs ==
  ASSUME NEW c, NEW u, NEW s, Sound(c, u, s)
  PROVE  Cached(c) = Sessions(c, s)
<1>1. ListOrder(c) = s
  BY ListOrderIs DEF Sound
<1> QED
  BY <1>1 DEF Cached, Sessions, SessionOf

\* z is what is cached, in the order s.
Holds(c, s, z, n) ==
  /\ n \in Nat /\ n = c.used /\ n <= Capacity /\ z = Sessions(c, s) /\ z \in [1..n -> AnySession]
  /\ s \in [1..n -> Addr]
  /\ \A j, k \in 1..n : z[j].id = z[k].id => j = k
  /\ \A k \in 1..n : z[k] = SessionOf(c, s[k]) /\ z[k].id = c.id[s[k]]
                     /\ z[k].val = c.val[s[k]] /\ z[k].live = c.live[s[k]]
  /\ \A m : Has(c, m) <=> \E k \in 1..n : z[k].id = m
  /\ \A y \in 1..n : \E k \in 1..n : s[k] = y

\* What the sessions of a sound cache are.
LEMMA SessionsHeld ==
  ASSUME NEW c, NEW u, NEW s, Sound(c, u, s)
  PROVE  Holds(c, s, Sessions(c, s), c.used)
<1>1. PICK n, d, v, w, z : /\ n = c.used /\ d = c.id /\ v = c.val /\ w = c.live
                           /\ z = Sessions(c, s)
  OBVIOUS
<1>2. /\ n \in 0..Capacity /\ v \in [Addr -> Vals \cup {NotFound}] /\ w \in [Addr -> BOOLEAN]
      /\ Tree(c.link, d, u) /\ u[Root] = 1..n /\ OnTo(s, n, 1..n) /\ ListOf(c, s, n)
  BY <1>1 DEF Sound, Data
<1>3. n \in Nat /\ n <= Capacity /\ d \in [Addr -> Nat]
  BY <1>2, LruAssumption DEF Tree
<1>4. s \in [1..n -> Addr] /\ \A j, k \in 1..n : s[j] = s[k] => j = k
  <2>1. PICK h, t, pv, nx : List(h, t, pv, nx, s, n)
    BY <1>2 DEF ListOf
  <2> QED
    BY <2>1, ListFacts
<1>5. z = [k \in 1..n |-> [id |-> d[s[k]], val |-> v[s[k]], live |-> w[s[k]]]]
  BY <1>1 DEF Sessions, SessionOf
<1>6. \A k \in 1..n : /\ z[k] = [id |-> d[s[k]], val |-> v[s[k]], live |-> w[s[k]]]
                      /\ z[k].id = d[s[k]] /\ z[k].val = v[s[k]] /\ z[k].live = w[s[k]]
  BY <1>5
<1>7. z \in [1..n -> AnySession]
  <2>1. \A k \in 1..n : [id |-> d[s[k]], val |-> v[s[k]], live |-> w[s[k]]] \in AnySession
    BY <1>2, <1>3, <1>4 DEF AnySession
  <2> QED
    BY <1>5, <2>1
<1>8. \A k \in 1..n : s[k] \in u[Root]
  BY <1>2 DEF OnTo
<1>9. \A j, k \in 1..n : z[j].id = z[k].id => j = k
  <2>1. PICK lk : Tree(lk, d, u)
    BY <1>2
  <2>2. \A x, y \in u[Root] : d[x] = d[y] => x = y
    BY <2>1, IdsDiffer, Places
  <2>3. \A j, k \in 1..n : d[s[j]] = d[s[k]] => s[j] = s[k]
    BY <1>8, <2>2
  <2>4. \A j \in 1..n : z[j].id = d[s[j]]
    BY <1>6
  <2> QED
    BY <1>4, <2>3, <2>4
<1>10. \A y \in 1..n : \E k \in 1..n : s[k] = y
  BY <1>2 DEF OnTo
<1>11. \A m : Has(c, m) <=> \E k \in 1..n : z[k].id = m
  <2> SUFFICES ASSUME NEW m
               PROVE  (\E y \in 1..n : d[y] = m) <=> \E k \in 1..n : z[k].id = m
    BY <1>1 DEF Has
  <2>1. ASSUME NEW y \in 1..n, d[y] = m
        PROVE  \E k \in 1..n : z[k].id = m
    <3>1. PICK k \in 1..n : s[k] = y
      BY <1>10
    <3> QED
      BY <1>6, <2>1, <3>1
  <2>2. ASSUME NEW k \in 1..n, z[k].id = m
        PROVE  \E y \in 1..n : d[y] = m
    <3>1. s[k] \in 1..n /\ d[s[k]] = m
      BY <1>2, <1>6, <1>8, <2>2
    <3> QED
      BY <3>1
  <2> QED
    BY <2>1, <2>2
<1>12. \A k \in 1..n : z[k] = SessionOf(c, s[k])
  BY <1>1, <1>6 DEF SessionOf
<1>13. \A k \in 1..n : /\ z[k].id = c.id[s[k]] /\ z[k].val = c.val[s[k]]
                       /\ z[k].live = c.live[s[k]]
  BY <1>1, <1>6
<1>14. Holds(c, s, z, n)
  BY <1>1, <1>3, <1>4, <1>7, <1>9, <1>10, <1>11, <1>12, <1>13 DEF Holds
<1> QED
  BY <1>1, <1>14

\* The only place of an identifier.
LEMMA PlaceIs ==
  ASSUME NEW c, NEW s, NEW z, NEW n, Holds(c, s, z, n), NEW p \in 1..n, NEW m, z[p].id = m
  PROVE  m \in Lru!Known(z) /\ Lru!PlaceOf(z, m) = p
<1>1. DOMAIN z = 1..n /\ \A j, k \in 1..n : z[j].id = z[k].id => j = k
  BY DEF Holds
<1>2. m \in Lru!Known(z)
  BY <1>1 DEF Lru!Known
<1>3. PICK q : q = CHOOSE k \in DOMAIN z : z[k].id = m
  OBVIOUS
<1>4. q \in 1..n /\ z[q].id = m
  BY <1>1, <1>3
<1>5. q = p
  BY <1>1, <1>4
<1> QED
  BY <1>2, <1>3, <1>5 DEF Lru!PlaceOf

\* The abstract cache knows the identifiers that are in the tree.
LEMMA KnownIs ==
  ASSUME NEW c, NEW s, NEW z, NEW n, Holds(c, s, z, n), NEW m
  PROVE  m \in Lru!Known(z) <=> Has(c, m)
<1>1. DOMAIN z = 1..n /\ (Has(c, m) <=> \E k \in 1..n : z[k].id = m)
  BY DEF Holds
<1> QED
  BY <1>1 DEF Lru!Known

-----------------------------------------------------------------------------
(* Every operation is the abstract one. *)

\* What lru_save keeps.
NewSession(m, v) == [id |-> m, val |-> v, live |-> TRUE]

SessionsAt(c, os, k) == [j \in 1..k |-> SessionOf(c, os[j])]

\* The arrays of the entries.
Typed(c) ==
  /\ c.id \in [Addr -> Nat] /\ c.val \in [Addr -> Vals \cup {NotFound}]
  /\ c.live \in [Addr -> BOOLEAN]

\* A new entry in front is a new session in front.
LEMMA GrownIs ==
  ASSUME NEW c, NEW e, NEW m, NEW v, NEW ns, NEW x, NEW os, NEW k,
         Grown(c, e, m, v, ns, x, os, k), Typed(c), os \in [1..k -> Addr]
  PROVE  Sessions(e, ns) = Before(NewSession(m, v), SessionsAt(c, os, k), k)
<1>1. PICK d, w, b, nd, nw, nb :
        /\ d = c.id /\ w = c.val /\ b = c.live /\ nd = e.id /\ nw = e.val /\ nb = e.live
  OBVIOUS
<1>2. /\ x \in Addr /\ ns = Before(x, os, k) /\ e.used = k + 1 /\ k \in Nat
      /\ nd = [d EXCEPT ![x] = m] /\ nw = [w EXCEPT ![x] = v] /\ nb = [b EXCEPT ![x] = TRUE]
      /\ \A j \in 1..k : os[j] # x
  BY <1>1 DEF Grown
<1>3. /\ d \in [Addr -> Nat] /\ w \in [Addr -> Vals \cup {NotFound}] /\ b \in [Addr -> BOOLEAN]
  BY <1>1 DEF Typed
<1>4. nd[x] = m /\ nw[x] = v /\ nb[x] = TRUE
  BY <1>2, <1>3
<1>5. \A y \in Addr : y # x => nd[y] = d[y] /\ nw[y] = w[y] /\ nb[y] = b[y]
  BY <1>2, <1>3
<1>6. SessionOf(e, x) = NewSession(m, v)
  BY <1>1, <1>4 DEF SessionOf, NewSession
<1>7. \A y \in Addr : y # x => SessionOf(e, y) = SessionOf(c, y)
  BY <1>1, <1>5 DEF SessionOf
<1>8. \A j \in 1..(k + 1) : ns[j] = IF j = 1 THEN x ELSE os[j - 1]
  BY <1>2 DEF Before
<1>9. PICK a, z : a = NewSession(m, v) /\ z = SessionsAt(c, os, k)
  OBVIOUS
<1>10. \A j \in 1..k : z[j] = SessionOf(c, os[j])
  BY <1>9 DEF SessionsAt
<1>11. \A j \in 1..(k + 1) : SessionOf(e, ns[j]) = IF j = 1 THEN a ELSE z[j - 1]
  <2> SUFFICES ASSUME NEW j \in 1..(k + 1)
               PROVE  SessionOf(e, ns[j]) = IF j = 1 THEN a ELSE z[j - 1]
    OBVIOUS
  <2>1. CASE j = 1
    BY <1>6, <1>8, <1>9, <2>1
  <2>2. CASE j # 1
    <3>1. j - 1 \in 1..k
      BY <1>2, <2>2
    <3>2. ns[j] = os[j - 1] /\ os[j - 1] \in Addr /\ os[j - 1] # x
      BY <1>2, <1>8, <2>2, <3>1
    <3> QED
      BY <1>7, <1>10, <2>2, <3>1, <3>2
  <2> QED
    BY <2>1, <2>2
<1>12. Sessions(e, ns) = [j \in 1..(k + 1) |-> SessionOf(e, ns[j])]
  BY <1>2 DEF Sessions
<1>13. Before(a, z, k) = [j \in 1..(k + 1) |-> IF j = 1 THEN a ELSE z[j - 1]]
  BY DEF Before
<1> QED
  BY <1>9, <1>11, <1>12, <1>13, Zenon

\* lru_save is a Saved of the abstract cache.
LEMMA SaveSimulates ==
  ASSUME NEW c, NEW s, NEW z, NEW n, Holds(c, s, z, n), Typed(c), NEW m \in Nat, NEW v \in Vals,
         NEW e, NEW ns, SaveMeans(c, s, e, ns, m, v)
  PROVE  Sessions(e, ns) = Lru!Saved(z, m, v)
<1>1. /\ n \in Nat /\ n = c.used /\ n <= Capacity /\ z = Sessions(c, s) /\ z \in [1..n -> AnySession]
      /\ s \in [1..n -> Addr]
  BY DEF Holds
<1>2. m \in Lru!Known(z) <=> Has(c, m)
  BY KnownIs
<1>3. Len(z) = n
  BY <1>1
<1>4. z = SessionsAt(c, s, n)
  BY <1>1 DEF Sessions, SessionsAt
<1>5. PICK a : a = NewSession(m, v)
  OBVIOUS
<1>6. a \in AnySession
  BY <1>5 DEF NewSession, AnySession
<1>7. CASE (Capacity = 0 \/ Has(c, m)) /\ ns = s /\ SameSessions(e, c)
  <2>1. Sessions(e, ns) = z
    BY <1>1, <1>7 DEF Sessions, SessionOf, SameSessions
  <2> QED
    BY <1>2, <1>7, <2>1 DEF Lru!Saved
<1>8. CASE /\ Capacity # 0 /\ ~Has(c, m) /\ c.used # Capacity
           /\ \E x : Grown(c, e, m, v, ns, x, s, c.used)
  <2>1. PICK x : Grown(c, e, m, v, ns, x, s, n)
    BY <1>1, <1>8
  <2>2. Sessions(e, ns) = Before(a, z, n)
    BY <1>1, <1>4, <1>5, <2>1, GrownIs
  <2>3. Lru!Saved(z, m, v) = <<a>> \o z
    BY <1>1, <1>2, <1>3, <1>5, <1>8 DEF Lru!Saved, NewSession
  <2>4. <<a>> \o z = Before(a, z, n)
    <3>1. n \in Nat /\ z \in [1..n -> AnySession]
      BY <1>1
    <3> QED
      BY ONLY <1>6, <3>1, PrependIs
  <2> QED
    BY ONLY <2>2, <2>3, <2>4
<1>9. CASE /\ Capacity # 0 /\ ~Has(c, m) /\ c.used = Capacity
           /\ \E x : Grown(c, e, m, v, ns, x, WithoutLast(s, c.used), c.used - 1)
  <2>1. PICK os, k : os = WithoutLast(s, n) /\ k = n - 1
    OBVIOUS
  <2>2. PICK x : Grown(c, e, m, v, ns, x, os, k)
    BY <1>1, <1>9, <2>1
  <2>3. n > 0 /\ k \in Nat /\ \A j \in 1..k : j \in 1..n
    BY <1>1, <1>9, <2>1
  <2>4. os \in [1..k -> Addr] /\ \A j \in 1..k : os[j] = s[j]
    BY <1>1, <2>1, <2>3 DEF WithoutLast
  <2>5. Sessions(e, ns) = Before(a, SessionsAt(c, os, k), k)
    BY <1>5, <2>2, <2>4, GrownIs
  <2>6. PICK y : y = WithoutLast(z, n)
    OBVIOUS
  <2>7. y \in [1..k -> AnySession] /\ \A j \in 1..k : y[j] = z[j]
    BY <1>1, <2>1, <2>3, <2>6 DEF WithoutLast
  <2>8. y = SessionsAt(c, os, k)
    <3>1. \A j \in 1..k : y[j] = SessionOf(c, os[j])
      <4>1. \A j \in 1..n : z[j] = SessionOf(c, s[j])
        BY DEF Holds
      <4> QED
        BY <2>3, <2>4, <2>7, <4>1
    <3>2. y = [j \in 1..k |-> y[j]]
      BY <2>7
    <3>3. SessionsAt(c, os, k) = [j \in 1..k |-> SessionOf(c, os[j])]
      BY DEF SessionsAt
    <3> QED
      BY <3>1, <3>2, <3>3, Zenon
  <2>9. Lru!Saved(z, m, v) = <<a>> \o y
    <3>1. y = SubSeq(z, 1, Len(z) - 1)
      BY <1>1, <2>3, <2>6, FrontIs
    <3>2. Lru!Saved(z, m, v) = <<a>> \o SubSeq(z, 1, Len(z) - 1)
      BY <1>1, <1>2, <1>3, <1>5, <1>9 DEF Lru!Saved, NewSession, Lru!Front
    <3> QED
      BY <3>1, <3>2
  <2> QED
    BY <1>6, <2>3, <2>5, <2>7, <2>8, <2>9, PrependIs
<1> QED
  BY <1>7, <1>8, <1>9 DEF SaveMeans

\* The entry at p comes first.
Fronted(z, n, p) == Before(z[p], Without(z, n, p), n - 1)

\* Loaded and Answer of the abstract cache, for the place that has the identifier.
LEMMA LoadedAt ==
  ASSUME NEW c, NEW s, NEW z, NEW n, Holds(c, s, z, n), NEW m, NEW p \in 1..n,
         z[p].id = m, z[p].live
  PROVE  Lru!Loaded(z, m) = Fronted(z, n, p) /\ Lru!Answer(z, m) = z[p].val
<1>1. m \in Lru!Known(z) /\ Lru!PlaceOf(z, m) = p
  BY PlaceIs
<1>2. n \in Nat /\ z \in [1..n -> AnySession]
  BY DEF Holds
<1>3. Lru!Live(z, m)
  BY <1>1 DEF Lru!Live
<1>4. PICK y : y = Without(z, n, p)
  OBVIOUS
<1>5. y = SubSeq(z, 1, p - 1) \o SubSeq(z, p + 1, Len(z))
  BY <1>2, <1>4, RemovedIs
<1>6. Lru!Loaded(z, m) = <<z[p]>> \o y
  BY <1>1, <1>3, <1>5 DEF Lru!Loaded, Lru!RemoveAt
<1>7. PICK k : k = n - 1
  OBVIOUS
<1>8. k \in Nat /\ y \in [1..k -> AnySession] /\ z[p] \in AnySession
  <2>1. \A j \in 1..k : (IF j < p THEN z[j] ELSE z[j + 1]) \in AnySession
    BY <1>2, <1>7
  <2> QED
    BY <1>2, <1>4, <1>7, <2>1 DEF Without
<1>9. <<z[p]>> \o y = Before(z[p], y, k)
  BY <1>8, PrependIs
<1> QED
  BY <1>1, <1>3, <1>4, <1>6, <1>7, <1>9 DEF Fronted, Lru!Answer

\* lru_load is a Loaded of the abstract cache, with its Answer.
LEMMA LoadSimulates ==
  ASSUME NEW c, NEW s, NEW z, NEW n, Holds(c, s, z, n), NEW m \in Nat,
         NEW e, NEW ns, NEW a, LoadMeans(c, s, e, ns, a, m)
  PROVE  Sessions(e, ns) = Lru!Loaded(z, m) /\ a = Lru!Answer(z, m)
<1>1. /\ n \in Nat /\ n = c.used /\ z = Sessions(c, s) /\ z \in [1..n -> AnySession]
      /\ s \in [1..n -> Addr]
      /\ \A k \in 1..n : z[k] = SessionOf(c, s[k]) /\ z[k].id = c.id[s[k]]
                     /\ z[k].val = c.val[s[k]] /\ z[k].live = c.live[s[k]]
  BY DEF Holds
<1>2. SameSessions(e, c)
  BY DEF LoadMeans
<1>3. \A t : Sessions(e, t) = Sessions(c, t)
  BY <1>2 DEF Sessions, SessionOf, SameSessions
<1>4. CASE ns = s /\ a = NotFound /\ \A k \in 1..c.used : c.id[s[k]] = m => ~c.live[s[k]]
  <2>1. ~Lru!Live(z, m)
    <3>1. SUFFICES ASSUME Lru!Live(z, m)
                   PROVE  FALSE
      OBVIOUS
    <3>2. m \in Lru!Known(z) /\ z[Lru!PlaceOf(z, m)].live
      BY <3>1 DEF Lru!Live
    <3>3. PICK p \in 1..n : z[p].id = m
      BY <1>1, <3>2 DEF Lru!Known
    <3>4. Lru!PlaceOf(z, m) = p
      BY <3>3, PlaceIs
    <3> QED
      BY <1>1, <1>4, <3>2, <3>3, <3>4
  <2>2. Sessions(e, ns) = z
    BY <1>1, <1>3, <1>4
  <2>3. Lru!NotFound = NotFound
    BY DEF Lru!NotFound, NotFound
  <2> QED
    BY <1>4, <2>1, <2>2, <2>3 DEF Lru!Loaded, Lru!Answer
<1>5. CASE ns = s /\ c.used > 0 /\ c.id[s[1]] = m /\ c.live[s[1]] /\ a = c.val[s[1]]
  <2>1. 1 \in 1..n
    BY <1>1, <1>5
  <2>2. z[1].id = m /\ z[1].live /\ z[1].val = a
    BY <1>1, <1>5, <2>1
  <2>3. Lru!Loaded(z, m) = Fronted(z, n, 1) /\ Lru!Answer(z, m) = a
    BY <2>1, <2>2, LoadedAt
  <2>4. Fronted(z, n, 1) = z
    <3>1. PICK y, k : y = Without(z, n, 1) /\ k = n - 1
      OBVIOUS
    <3>2. k + 1 = n /\ \A j \in 1..k : y[j] = z[j + 1]
      BY <1>1, <3>1 DEF Without
    <3>3. \A j \in 1..n : z[j] = IF j = 1 THEN z[1] ELSE y[j - 1]
      BY <1>1, <3>1, <3>2
    <3>4. Before(z[1], y, k) = [j \in 1..n |-> IF j = 1 THEN z[1] ELSE y[j - 1]]
      BY <3>2 DEF Before
    <3>5. z = [j \in 1..n |-> z[j]]
      BY <1>1
    <3>6. z = Before(z[1], y, k)
      BY <3>3, <3>4, <3>5, Zenon
    <3> QED
      BY <3>1, <3>6 DEF Fronted
  <2> QED
    BY <1>1, <1>3, <1>5, <2>3, <2>4
<1>6. ASSUME NEW p \in 2..c.used, c.id[s[p]] = m, c.live[s[p]], a = c.val[s[p]],
             ns = Before(s[p], Without(s, c.used, p), c.used - 1)
      PROVE  Sessions(e, ns) = Lru!Loaded(z, m) /\ a = Lru!Answer(z, m)
  <2>1. p \in 1..n
    BY <1>1, <1>6
  <2>2. z[p].id = m /\ z[p].live /\ z[p].val = a
    BY <1>1, <1>6, <2>1
  <2>3. Lru!Loaded(z, m) = Fronted(z, n, p) /\ Lru!Answer(z, m) = a
    BY <2>1, <2>2, LoadedAt
  <2>4. Sessions(c, ns) = Fronted(z, n, p)
    <3>1. PICK y, t, k : y = Without(z, n, p) /\ t = Without(s, n, p) /\ k = n - 1
      OBVIOUS
    <3>2. k + 1 = n /\ ns = Before(s[p], t, k)
      BY <1>1, <1>6, <3>1
    <3>3. \A j \in 1..k : y[j] = SessionOf(c, t[j])
      <4>1. \A j \in 1..k : j \in 1..n /\ j + 1 \in 1..n
        BY <1>1, <3>1
      <4>2. \A j \in 1..k : y[j] = IF j < p THEN z[j] ELSE z[j + 1]
        BY <3>1 DEF Without
      <4>3. \A j \in 1..k : t[j] = IF j < p THEN s[j] ELSE s[j + 1]
        BY <3>1 DEF Without
      <4> QED
        BY <1>1, <4>1, <4>2, <4>3
    <3>4. \A j \in 1..n : ns[j] = IF j = 1 THEN s[p] ELSE t[j - 1]
      BY <3>2 DEF Before
    <3>5. \A j \in 1..n : SessionOf(c, ns[j]) = IF j = 1 THEN z[p] ELSE y[j - 1]
      <4>1. \A j \in 1..n : j = 1 \/ j - 1 \in 1..k
        BY <1>1, <3>1
      <4>2. z[p] = SessionOf(c, s[p])
        BY <1>1, <2>1
      <4> QED
        BY <3>3, <3>4, <4>1, <4>2
    <3>6. Before(z[p], y, k) = [j \in 1..n |-> IF j = 1 THEN z[p] ELSE y[j - 1]]
      BY <3>2 DEF Before
    <3>7. Sessions(c, ns) = [j \in 1..n |-> SessionOf(c, ns[j])]
      BY <1>1 DEF Sessions
    <3>8. Sessions(c, ns) = Before(z[p], y, k)
      BY <3>5, <3>6, <3>7, Zenon
    <3> QED
      BY <3>1, <3>8 DEF Fronted
  <2> QED
    BY <1>3, <2>3, <2>4
<1> QED
  BY <1>4, <1>5, <1>6 DEF LoadMeans

\* br_ssl_session_cache_lru_forget is a Forgotten of the abstract cache.
LEMMA ForgetSimulates ==
  ASSUME NEW c, NEW s, NEW z, NEW n, Holds(c, s, z, n), Typed(c), NEW m \in Nat,
         NEW e, ForgetMeans(c, e, m)
  PROVE  Sessions(e, s) = Lru!Forgotten(z, m)
<1>1. /\ n \in Nat /\ n = c.used /\ z = Sessions(c, s) /\ z \in [1..n -> AnySession]
      /\ s \in [1..n -> Addr]
      /\ \A k \in 1..n : z[k] = SessionOf(c, s[k]) /\ z[k].id = c.id[s[k]]
                     /\ z[k].val = c.val[s[k]] /\ z[k].live = c.live[s[k]]
      /\ \A j, k \in 1..n : z[j].id = z[k].id => j = k
      /\ \A y \in 1..n : \E k \in 1..n : s[k] = y
  BY DEF Holds
<1>2. e.used = c.used /\ e.id = c.id /\ e.val = c.val
  BY DEF ForgetMeans
<1>3. m \in Lru!Known(z) <=> Has(c, m)
  BY KnownIs
<1>4. CASE ~Has(c, m) /\ e.live = c.live
  <2>1. Sessions(e, s) = z
    BY <1>1, <1>2, <1>4 DEF Sessions, SessionOf
  <2> QED
    BY <1>3, <1>4, <2>1 DEF Lru!Forgotten
<1>5. ASSUME NEW x \in 1..c.used, c.id[x] = m, e.live = [c.live EXCEPT ![x] = FALSE]
      PROVE  Sessions(e, s) = Lru!Forgotten(z, m)
  <2>1. PICK p \in 1..n : s[p] = x
    BY <1>1
  <2>2. z[p].id = m /\ x \in Addr
    BY <1>1, <1>5, <2>1
  <2>3. m \in Lru!Known(z) /\ Lru!PlaceOf(z, m) = p
    BY <2>2, PlaceIs
  <2>4. PICK b, nb : b = c.live /\ nb = e.live
    OBVIOUS
  <2>5. nb[x] = FALSE /\ \A y \in Addr : y # x => nb[y] = b[y]
    BY <1>5, <2>2, <2>4 DEF Typed
  <2>6. ASSUME NEW k \in 1..n, s[k] = x
        PROVE  k = p
    <3>1. z[k].id = m
      BY <1>1, <1>5, <2>6
    <3> QED
      BY <1>1, <2>2, <3>1
  <2>7. PICK y : y = [z EXCEPT ![p].live = FALSE]
    OBVIOUS
  <2>8. Lru!Forgotten(z, m) = y
    BY <2>3, <2>7 DEF Lru!Forgotten
  <2>9. y = [k \in 1..n |-> y[k]] /\ \A k \in 1..n : k # p => y[k] = z[k]
    BY <1>1, <2>7
  <2>10. y[p] = [id |-> c.id[x], val |-> c.val[x], live |-> FALSE]
    <3>1. PICK q : q = z[p]
      OBVIOUS
    <3>2. y[p] = [q EXCEPT !.live = FALSE]
      BY <1>1, <2>7, <3>1
    <3>3. PICK d, w, l : d = c.id[x] /\ w = c.val[x] /\ l = c.live[x]
      OBVIOUS
    <3>4. q = [id |-> d, val |-> w, live |-> l]
      BY <1>1, <2>1, <3>1, <3>3 DEF SessionOf
    <3>5. PICK r : r = [q EXCEPT !.live = FALSE]
      OBVIOUS
    <3>6. r = [id |-> d, val |-> w, live |-> FALSE]
      BY ONLY <3>4, <3>5
    <3> QED
      BY <3>2, <3>3, <3>5, <3>6
  <2>11. \A k \in 1..n : y[k] = SessionOf(e, s[k])
    <3> SUFFICES ASSUME NEW k \in 1..n
                 PROVE  y[k] = SessionOf(e, s[k])
      OBVIOUS
    <3>1. CASE k = p
      BY <1>2, <2>1, <2>4, <2>5, <2>10, <3>1 DEF SessionOf
    <3>2. CASE k # p
      <4>1. s[k] \in Addr /\ s[k] # x
        BY <1>1, <2>6, <3>2
      <4>2. e.live[s[k]] = c.live[s[k]]
        BY <2>4, <2>5, <4>1
      <4>3. SessionOf(e, s[k]) = SessionOf(c, s[k])
        BY <1>2, <4>2 DEF SessionOf
      <4> QED
        BY <1>1, <2>9, <3>2, <4>3
    <3> QED
      BY <3>1, <3>2
  <2>12. Sessions(e, s) = [k \in 1..n |-> SessionOf(e, s[k])]
    BY <1>1, <1>2 DEF Sessions
  <2>13. Sessions(e, s) = y
    BY <2>9, <2>11, <2>12, Zenon
  <2> QED
    BY <2>8, <2>13
<1> QED
  BY <1>4, <1>5 DEF ForgetMeans

-----------------------------------------------------------------------------
(* The refinement. *)

\* An empty cache is an empty sequence.
LEMMA InitMaps ==
  ASSUME LruInit
  PROVE  Lru!Init
<1>1. PICK c, u, s : c = cache /\ Sound(c, u, s) /\ c.used = 0
  BY InitSound
<1>2. Cached(c) = Sessions(c, s)
  BY <1>1, CachedIs
<1>3. Sessions(c, s) = <<>>
  <2>1. PICK z : z = Sessions(c, s)
    OBVIOUS
  <2>2. z = [k \in 1..0 |-> SessionOf(c, s[k])]
    BY <1>1, <2>1 DEF Sessions
  <2>3. 1..0 = {}
    OBVIOUS
  <2>4. DOMAIN z = {} /\ z = [k \in {} |-> z[k]]
    BY <2>2, <2>3
  <2> QED
    BY <2>1, <2>4
<1>4. result = Lru!NoCall
  BY DEF LruInit, Lru!NoCall, NoCall
<1> QED
  BY <1>1, <1>2, <1>3, <1>4 DEF Lru!Init

\* A step of the abstract cache, for the cached sessions before and after it.
AbstractStep(z, y, a) ==
  \E m \in {mask_id(id) : id \in Ids} :
    \/ y = Lru!Loaded(z, m) /\ a = Lru!Did("load", m, Lru!NotFound, Lru!Answer(z, m))
    \/ y = Lru!Forgotten(z, m) /\ a = Lru!Did("forget", m, Lru!NotFound, Lru!NotFound)
    \/ \E val \in Vals :
         y = Lru!Saved(z, m, val) /\ a = Lru!Did("save", m, val, Lru!NotFound)

\* The arrays of a sound cache have their types.
LEMMA SoundTyped ==
  ASSUME NEW c, NEW u, NEW s, Sound(c, u, s)
  PROVE  Typed(c)
BY DEF Sound, Data, Tree, Typed

\* Every step is a step of the abstract cache.
LEMMA StepMaps ==
  ASSUME CacheInv, LruNext
  PROVE  AbstractStep(Cached(cache), Cached(cache'), result')
<1>1. PICK c, e, u, s : c = cache /\ e = cache' /\ Sound(c, u, s)
  BY DEF CacheInv
<1>2. PICK z, n : z = Sessions(c, s) /\ n = c.used
  OBVIOUS
<1>3. Holds(c, s, z, n) /\ Typed(c) /\ Cached(c) = z
  BY <1>1, <1>2, SessionsHeld, SoundTyped, CachedIs
<1>4. /\ Lru!NotFound = NotFound
      /\ \A op, m, v, a : Lru!Did(op, m, v, a) = Did(op, m, v, a)
  BY DEF Lru!NotFound, NotFound, Lru!Did, Did
<1>5. ASSUME NEW id \in Ids, NEW val \in Vals, lru_save(id, val)
      PROVE  AbstractStep(z, Cached(e), result')
  <2>1. PICK m : m = mask_id(id) /\ m \in Nat /\ m \in {mask_id(i) : i \in Ids}
    BY MaskNat
  <2>2. SavedTo(c, e, m, val) /\ result' = Did("save", m, val, NotFound)
    BY <1>1, <1>5, <2>1, SavedBy
  <2>3. PICK nu, ns : Sound(e, nu, ns) /\ SaveMeans(c, s, e, ns, m, val)
    BY <1>1, <2>1, <2>2, SaveStep
  <2>4. Cached(e) = Lru!Saved(z, m, val)
    BY <1>3, <2>1, <2>3, CachedIs, SaveSimulates
  <2> QED
    BY <1>4, <2>1, <2>2, <2>4 DEF AbstractStep
<1>6. ASSUME NEW id \in Ids, lru_load(id)
      PROVE  AbstractStep(z, Cached(e), result')
  <2>1. PICK m : m = mask_id(id) /\ m \in Nat /\ m \in {mask_id(i) : i \in Ids}
    BY MaskNat
  <2>2. PICK a : LoadedTo(c, e, a, m) /\ result' = Did("load", m, NotFound, a)
    BY <1>1, <1>6, <2>1, LoadedBy
  <2>3. PICK ns : Sound(e, u, ns) /\ LoadMeans(c, s, e, ns, a, m)
    BY <1>1, <2>1, <2>2, LoadStep
  <2>4. Cached(e) = Lru!Loaded(z, m) /\ a = Lru!Answer(z, m)
    BY <1>3, <2>1, <2>3, CachedIs, LoadSimulates
  <2> QED
    BY <1>4, <2>1, <2>2, <2>4 DEF AbstractStep
<1>7. ASSUME NEW id \in Ids, br_ssl_session_cache_lru_forget(id)
      PROVE  AbstractStep(z, Cached(e), result')
  <2>1. PICK m : m = mask_id(id) /\ m \in Nat /\ m \in {mask_id(i) : i \in Ids}
    BY MaskNat
  <2>2. ForgottenTo(c, e, m) /\ result' = Did("forget", m, NotFound, NotFound)
    BY <1>1, <1>7, <2>1, ForgottenBy
  <2>3. Sound(e, u, s) /\ ForgetMeans(c, e, m)
    BY <1>1, <2>1, <2>2, ForgetStep
  <2>4. Cached(e) = Lru!Forgotten(z, m)
    BY <1>3, <2>1, <2>3, CachedIs, ForgetSimulates
  <2> QED
    BY <1>4, <2>1, <2>2, <2>4 DEF AbstractStep
<1> QED
  BY <1>1, <1>3, <1>5, <1>6, <1>7 DEF LruNext

(* ssl_lru.c answers every sequence of calls as a cache does that keeps the sessions
   in order of use and evicts the last: the array with its list and its search tree
   implements AbstractLru, for every capacity and every set of identifiers. *)
THEOREM ImplementsLru == LruSpec => IsLru
<1>1. LruInit => CacheInv
  BY InitSound DEF CacheInv
<1>2. CacheInv /\ [LruNext]_lru_vars => CacheInv'
  BY StepSound
<1>3. LruInit => Lru!Init
  BY InitMaps
<1>4. CacheInv /\ [LruNext]_lru_vars => [Lru!Next]_Lru!vars
  <2> SUFFICES ASSUME CacheInv, [LruNext]_lru_vars
               PROVE  [Lru!Next]_Lru!vars
    OBVIOUS
  <2>1. CASE LruNext
    <3>1. AbstractStep(Cached(cache), Cached(cache'), result')
      BY <2>1, StepMaps
    <3>2. Lru!Next
      BY <3>1 DEF AbstractStep, Lru!Next
    <3> QED
      BY <3>2
  <2>2. CASE UNCHANGED lru_vars
    <3>1. cache' = cache /\ result' = result
      BY <2>2 DEF lru_vars
    <3>2. Cached(cache)' = Cached(cache)
      BY <3>1 DEF Cached, ListOrder
    <3> QED
      BY <3>1, <3>2 DEF Lru!vars
  <2> QED
    BY <2>1, <2>2
<1> QED
  BY <1>1, <1>2, <1>3, <1>4, PTL DEF LruSpec, IsLru, Lru!Spec

-----------------------------------------------------------------------------
(* X509Minimal.                                                            *)

MaybeName == Names \cup {None}
MaybeKey == Keys \cup {None}
Types == {KeyType[k] : k \in Keys} \cup {None}
Early == {"issuer", "validity", "subject"}
Late == {"extensions", "signature algorithm", "signature"}
Signed == {"signature algorithm", "signature"}
Answers == {"OK", "EMPTY_CHAIN", "NOT_TRUSTED"}
Defects ==
  {"EXPIRED", "DN_MISMATCH", "WEAK_PUBLIC_KEY", "WRONG_KEY_TYPE", "BAD_SIGNATURE", "NOT_CA",
   "FORBIDDEN_KEY_USAGE", "CRITICAL_EXTENSION", "BAD_SERVER_NAME", "UNSUPPORTED", "TRUNCATED"}
Context ==
  [err : {None} \cup Answers \cup Defects, num_certs : Nat, cert_length : BOOLEAN,
   at : Early \cup {"key"} \cup Late, ee : BOOLEAN,
   server_name : {None, "server"}, eename : BOOLEAN, seenBC : BOOLEAN,
   next_dn : MaybeName, current_dn : MaybeName, saved_dn : MaybeName, pkey : MaybeKey,
   key_usages : SUBSET {"keyx", "sign"}, signer_type : Types, cert_sig : MaybeKey]
Certificate ==
  [issuer : MaybeName, now : BOOLEAN, subject : MaybeName, cn : BOOLEAN, key : MaybeKey,
   exts : SUBSET Extensions, san : SUBSET BOOLEAN, uses : SUBSET SUBSET Uses,
   tbs : BOOLEAN, type : Types, signer : MaybeKey, whole : BOOLEAN]

X509Type ==
  /\ ctx \in Context /\ chain \in Seq(Certificate)
  /\ caller \in {"idle", "chain", "certificate"} /\ certs \in Nat

-----------------------------------------------------------------------------
(* The parts of the invariant.                                             *)
\* In the middle of a certificate, and how many were read whole.
Reading == caller = "certificate" /\ ctx.cert_length
Behind == IF Reading THEN Len(chain) - 1 ELSE Len(chain)

\* No verdict on this chain so far.
Running == ctx.err = None /\ caller # "idle"

CertsCounted ==
  /\ caller = "certificate" => chain # <<>> /\ ctx.num_certs = Len(chain) - 1
  /\ caller # "certificate" => ctx.num_certs = Len(chain)
  /\ (ctx.err = None /\ caller = "idle") => chain = <<>>

\* The certificates read whole make a valid chain, which no anchor is known for,
\* and the context keeps of them what the next one is compared with.
Kept ==
  Running =>
    /\ ctx.ee <=> Behind = 0
    /\ ~Reading => ctx.at = "issuer"
    /\ Behind > 0 =>
         /\ ValidUpTo(Behind) /\ ~DirectlyTrusted
         /\ \A k \in 1..Behind : ~Anchored(chain[k])
         /\ ctx.at \in Early => ctx.saved_dn = chain[Behind].issuer
         /\ ctx.at \in Early \cup {"key"} =>
              ctx.cert_sig = chain[Behind].signer /\ ctx.signer_type = chain[Behind].type

\* c, the certificate number n, as far as its extensions were read.
GoodKey(c, n) ==
  /\ c.key \notin WeakKeys
  /\ n > 1 => SignedBy(chain[n - 1], c.key)
GoodExts(c, n) ==
  /\ \A e \in Of(c, "unknown") : ~e.critical
  /\ \A e \in Of(c, "keyUsage") : e.uses # {} /\ (n > 1 => "certSign" \in e.uses)
  /\ n > 1 => \A e \in Of(c, "basicConstraints") : e.ca /\ \A m \in e.limit : m >= n - 2

\* The certificate being read: nothing but the fields the program has passed.
Fresh(c) ==
  /\ ctx.at = "issuer" => c.issuer = None
  /\ ctx.at \in {"issuer", "validity"} => ~c.now
  /\ ctx.at \in Early => c.subject = None /\ ~c.cn
  /\ ctx.at \in Early \cup {"key"} => c.key = None /\ c.exts = {} /\ c.san = {} /\ c.uses = {}
  /\ ctx.at \notin Signed => ~c.tbs
  /\ ctx.at # "signature" => c.type = None
  /\ c.signer = None /\ ~c.whole

Begun(c, n) ==
  /\ Fresh(c)
  /\ ctx.at \in {"validity", "subject"} => ctx.next_dn = c.issuer
  /\ ctx.at \notin {"issuer", "validity"} => c.now
  /\ ctx.at \notin Early =>
       /\ ctx.saved_dn = c.issuer /\ ctx.current_dn = c.subject
       /\ n > 1 => c.subject = chain[n - 1].issuer
       /\ n = 1 => (ctx.eename <=> ctx.server_name # None /\ NameMatches(c))
  /\ GoodExts(c, n)
  /\ ctx.at \in Late =>
       /\ GoodKey(c, n)
       /\ n > 1 => (ctx.seenBC <=> Of(c, "basicConstraints") # {})
  /\ ctx.at \in Signed =>
       /\ c.tbs
       /\ n = 1 => NameMatches(c) /\ ~DirectlyTrusted
       /\ n > 1 => ctx.seenBC
  /\ ctx.at = "signature" => c.type = ctx.signer_type /\ c.type # None

InHand == Running /\ Reading => Begun(chain[Len(chain)], Len(chain))

\* The key of the end entity and its usages, once they are known.
Chosen ==
  /\ Running =>
       /\ ctx.key_usages = IF chain = <<>> THEN {"keyx", "sign"} ELSE UsesOf(chain[1])
       /\ (Behind > 0 \/ (Reading /\ ctx.at \in Late)) => ctx.pkey = chain[1].key
  /\ ctx.err \in {"OK", "NOT_TRUSTED"} =>
       chain # <<>> /\ ctx.pkey = chain[1].key /\ ctx.key_usages = UsesOf(chain[1])

\* What the verdict was.
VerdictGiven ==
  /\ AcceptedIsValid /\ RefusedForCause
  /\ ctx.err \in {"EMPTY_CHAIN", "NOT_TRUSTED"} => caller = "idle"

X509Inv == X509Type /\ CertsCounted /\ Kept /\ InHand /\ Chosen /\ VerdictGiven

-----------------------------------------------------------------------------
(* What does not change when certificates are added or read on.            *)
SameServer == ctx'.server_name = ctx.server_name
SameUpTo(k) == \A i \in 1..k : chain'[i] = chain[i]

\* Certificates behind that make a valid chain go on making one.
LEMMA StaysValid ==
  ASSUME NEW k \in Nat, k > 0, SameServer, SameUpTo(k), ValidUpTo(k)
  PROVE  ValidUpTo(k)'
<1>1. chain'[1] = chain[1] /\ \A i \in 1..k : chain'[i] = chain[i]
  BY DEF SameUpTo
<1>2. \A i \in 2..k : i \in 1..k /\ i - 1 \in 1..k
  OBVIOUS
<1>3. NameMatches(chain[1])'
  BY <1>1 DEF ValidUpTo, NameMatches, SameServer
<1>4. \A i \in 1..k : (Plain(chain[i]) /\ chain[i].whole /\ chain[i].type # None)'
  BY <1>1 DEF ValidUpTo, Plain, Of
<1>5. ASSUME NEW i \in 2..k
      PROVE  (/\ MayIssue(i)
              /\ chain[i].subject = chain[i - 1].issuer
              /\ SignedBy(chain[i - 1], chain[i].key))'
  BY <1>1, <1>2 DEF ValidUpTo, MayIssue, Of, SignedBy
<1> QED
  BY <1>3, <1>4, <1>5 DEF ValidUpTo

\* Trust in the end entity depends on the first certificate and the server only.
LEMMA StaysTrusted ==
  ASSUME X509Type, X509Type', chain # <<>>, chain' # <<>>, SameServer, SameUpTo(1)
  PROVE  DirectlyTrusted' = DirectlyTrusted
<1>1. chain'[1] = chain[1]
  BY DEF SameUpTo
<1> QED
  BY <1>1 DEF DirectlyTrusted, Plain, Of, NameMatches, SameServer

\* A defect stays a defect.
LEMMA StaysCause ==
  ASSUME NEW i \in Nat, i > 0, SameServer, SameUpTo(i), NEW err, Cause(err, i)
  PROVE  Cause(err, i)'
<1>1. chain'[i] = chain[i] /\ (i > 1 => chain'[i - 1] = chain[i - 1])
  BY DEF SameUpTo
<1> QED
  BY <1>1 DEF Cause, MayIssue, Of, SignedBy, NameMatches, SameServer

\* A verdict stands while certificates are added.
LEMMA VerdictKept ==
  ASSUME X509Inv, X509Type', ctx.err # None, ctx.err \notin {"EMPTY_CHAIN", "NOT_TRUSTED"},
         ctx'.err = ctx.err, ctx'.pkey = ctx.pkey, ctx'.key_usages = ctx.key_usages,
         SameServer, Len(chain') >= Len(chain), SameUpTo(Len(chain))
  PROVE  Kept' /\ InHand' /\ Chosen' /\ VerdictGiven'
<1>1. Len(chain) \in Nat /\ Len(chain') \in Nat
  BY DEF X509Inv, X509Type
<1>2. DOMAIN chain = 1..Len(chain) /\ DOMAIN chain' = 1..Len(chain')
  BY DEF X509Inv, X509Type
<1>3. Kept' /\ InHand'
  BY DEF Kept, InHand, Running
<1>4. chain # <<>> => chain' # <<>> /\ chain'[1] = chain[1]
  BY <1>1, <1>2 DEF SameUpTo, X509Inv, X509Type
<1>5. Chosen'
  BY <1>4 DEF X509Inv, Chosen, Running, UsesOf
<1>6. AcceptedIsValid'
  <2> SUFFICES ASSUME ctx.err = "OK"
               PROVE  (DirectlyTrusted \/ \E k \in DOMAIN chain : ValidUpTo(k) /\ Anchored(chain[k]))'
    BY DEF AcceptedIsValid
  <2>1. CASE DirectlyTrusted
    <3>1. chain # <<>>
      BY <2>1 DEF DirectlyTrusted
    <3>2. SameUpTo(1)
      BY <3>1, <1>4 DEF SameUpTo
    <3> QED
      BY <2>1, <3>1, <3>2, <1>4, StaysTrusted DEF X509Inv
  <2>2. ASSUME NEW k \in DOMAIN chain, ValidUpTo(k), Anchored(chain[k])
        PROVE  k \in DOMAIN chain' /\ (ValidUpTo(k) /\ Anchored(chain[k]))'
    <3>1. k \in Nat /\ k > 0 /\ k <= Len(chain) /\ k \in DOMAIN chain'
      BY <1>1, <1>2
    <3>2. SameUpTo(k) /\ chain'[k] = chain[k]
      BY <3>1, <1>1 DEF SameUpTo
    <3>3. ValidUpTo(k)'
      BY <2>2, <3>1, <3>2, StaysValid
    <3> QED
      BY <2>2, <3>1, <3>2, <3>3 DEF Anchored, SignedBy
  <2> QED
    BY <2>1, <2>2 DEF X509Inv, VerdictGiven, AcceptedIsValid
<1>7. RefusedForCause'
  <2> SUFFICES ASSUME ctx.err # "OK" PROVE \E i \in DOMAIN chain' : Cause(ctx.err, i)'
    BY DEF RefusedForCause
  <2>1. PICK i \in DOMAIN chain : Cause(ctx.err, i)
    BY DEF X509Inv, VerdictGiven, RefusedForCause
  <2>2. i \in Nat /\ i > 0 /\ i \in DOMAIN chain' /\ SameUpTo(i)
    BY <1>1, <1>2 DEF SameUpTo
  <2> QED
    BY <2>1, <2>2, StaysCause
<1> QED
  BY <1>3, <1>5, <1>6, <1>7 DEF VerdictGiven

\* What is behind does not change while certificates are added or read on.
LEMMA BehindKept ==
  ASSUME X509Inv, X509Type', Running, NEW n \in Nat, n = Behind, n > 0,
         SameServer, n <= Len(chain), n <= Len(chain'), SameUpTo(n)
  PROVE  /\ ValidUpTo(n)' /\ ~DirectlyTrusted' /\ \A k \in 1..n : ~Anchored(chain'[k])
         /\ chain # <<>> /\ chain' # <<>> /\ chain'[1] = chain[1] /\ chain'[n] = chain[n]
<1>1. ValidUpTo(n) /\ ~DirectlyTrusted /\ \A k \in 1..n : ~Anchored(chain[k])
  BY DEF X509Inv, Kept
<1>2. SameUpTo(1) /\ chain # <<>> /\ chain' # <<>> /\ chain'[1] = chain[1] /\ chain'[n] = chain[n]
  BY DEF SameUpTo, X509Inv, X509Type
<1>3. ValidUpTo(n)'
  BY <1>1, StaysValid
<1>4. ~DirectlyTrusted'
  BY <1>1, <1>2, StaysTrusted DEF X509Inv
<1>5. \A k \in 1..n : ~Anchored(chain'[k])
  BY <1>1 DEF SameUpTo, Anchored, SignedBy
<1> QED
  BY <1>2, <1>3, <1>4, <1>5

-----------------------------------------------------------------------------
(* The methods.                                                            *)
\* br_x509_minimal_init.
LEMMA X509Begins == X509Init => X509Inv
<1> SUFFICES ASSUME X509Init PROVE X509Inv
  OBVIOUS
<1>1. X509Type
  BY DEF X509Init, X509Type, Context, MaybeName, MaybeKey, Types, None, Early, Defects, Answers
<1>2. CertsCounted /\ Kept /\ InHand /\ Chosen
  BY DEF X509Init, CertsCounted, Kept, InHand, Chosen, Running, None
<1>3. VerdictGiven
  BY DEF X509Init, VerdictGiven, AcceptedIsValid, RefusedForCause, None
<1> QED
  BY <1>1, <1>2, <1>3 DEF X509Inv

\* start_chain: nothing of an earlier chain is left that counts.
LEMMA StartChainInv == X509Inv /\ StartChain => X509Inv'
<1> SUFFICES ASSUME X509Inv, StartChain PROVE X509Inv'
  OBVIOUS
<1>1. PICK name \in {None, "server"} : ctx' = xm_start_chain(ctx, name)
  BY DEF StartChain
<1>2. /\ caller' = "chain" /\ chain' = <<>> /\ certs' = certs
      /\ ctx'.err = None /\ ctx'.num_certs = 0 /\ ctx'.at = "issuer" /\ ctx'.ee
      /\ ctx'.key_usages = {"keyx", "sign"}
  BY <1>1 DEF StartChain, xm_start_chain, X509Inv, X509Type, Context
<1>3. ctx' \in Context
  <2>1. ctx \in Context
    BY DEF X509Inv, X509Type
  <2>2. "issuer" \in Early
    BY DEF Early
  <2>3. None \in MaybeKey
    BY DEF MaybeKey
  <2>4. {"keyx", "sign"} \in SUBSET {"keyx", "sign"}
    OBVIOUS
  <2> QED
    BY <1>1, <2>1, <2>2, <2>3, <2>4 DEF xm_start_chain, Context
<1>4. X509Type'
  BY <1>2, <1>3 DEF X509Inv, X509Type
<1>5. CertsCounted' /\ Kept' /\ InHand' /\ Chosen'
  BY <1>2 DEF CertsCounted, Kept, InHand, Chosen, Running, Reading, Behind, None
<1>6. VerdictGiven'
  BY <1>2 DEF VerdictGiven, AcceptedIsValid, RefusedForCause, None
<1> QED
  BY <1>4, <1>5, <1>6 DEF X509Inv

\* start_cert: an empty certificate ends the chain, another one is begun.
LEMMA StartCertInv == X509Inv /\ xm_start_cert => X509Inv'
<1> SUFFICES ASSUME X509Inv, xm_start_cert PROVE X509Inv'
  OBVIOUS
<1>1. PICK length \in BOOLEAN :
        ctx' = IF ctx.err # None THEN ctx
               ELSE IF ~length THEN fail(ctx, "TRUNCATED")
               ELSE [ctx EXCEPT !.cert_length = TRUE]
  BY DEF xm_start_cert
<1>2. /\ caller = "chain" /\ caller' = "certificate" /\ chain' = Append(chain, NoCert)
      /\ certs' = certs + 1
  BY DEF xm_start_cert
<1>3. NoCert \in Certificate
  BY DEF NoCert, Certificate, MaybeName, MaybeKey, Types
<1>4. X509Type'
  <2>1. ctx \in Context /\ "TRUNCATED" \in Defects
    BY DEF X509Inv, X509Type, Defects
  <2>2. ctx' \in Context
    BY <1>1, <2>1 DEF fail, Context
  <2>3. chain' \in Seq(Certificate) /\ certs' \in Nat
    BY <1>2, <1>3 DEF X509Inv, X509Type
  <2> QED
    BY <1>2, <2>2, <2>3 DEF X509Type
<1>5. /\ Len(chain) \in Nat /\ Len(chain') = Len(chain) + 1
      /\ chain'[Len(chain')] = NoCert /\ chain' # <<>> /\ Len(chain') \in DOMAIN chain'
  BY <1>2, <1>3 DEF X509Inv, X509Type
<1>6. \A i \in 1..Len(chain) : chain'[i] = chain[i]
  BY <1>2, <1>3 DEF X509Inv, X509Type
<1>7. SameServer /\ ctx'.num_certs = ctx.num_certs
  BY <1>1 DEF SameServer, fail, X509Inv, X509Type, Context
<1>8. CertsCounted'
  BY <1>2, <1>5, <1>7 DEF X509Inv, CertsCounted
<1>9. CASE ctx.err # None
  <2>1. ctx.err \notin {"EMPTY_CHAIN", "NOT_TRUSTED"}
    BY <1>2 DEF X509Inv, VerdictGiven
  <2> QED
    BY <1>1, <1>4, <1>5, <1>6, <1>7, <1>8, <1>9, <2>1, VerdictKept DEF SameUpTo, X509Inv
<1>10. CASE ctx.err = None /\ ~length
  <2>1. ctx'.err = "TRUNCATED"
    BY <1>1, <1>10 DEF fail, X509Inv, X509Type, Context
  <2>2. ~NoCert.whole
    BY DEF NoCert
  <2>3. VerdictGiven'
    BY <1>5, <2>1, <2>2 DEF VerdictGiven, AcceptedIsValid, RefusedForCause, None, Cause
  <2> QED
    BY <1>4, <1>8, <2>1, <2>3 DEF X509Inv, Kept, InHand, Chosen, Running, None
<1>11. CASE ctx.err = None /\ length
  <2>1. /\ ctx' = [ctx EXCEPT !.cert_length = TRUE] /\ ctx'.err = None /\ ctx'.cert_length
        /\ ctx'.at = ctx.at /\ ctx'.ee = ctx.ee /\ ctx'.saved_dn = ctx.saved_dn
        /\ ctx'.cert_sig = ctx.cert_sig /\ ctx'.signer_type = ctx.signer_type
        /\ ctx'.pkey = ctx.pkey /\ ctx'.key_usages = ctx.key_usages
    BY <1>1, <1>11 DEF X509Inv, X509Type, Context
  <2>2. /\ Running /\ Running' /\ ~Reading /\ Reading' /\ Behind = Len(chain)
        /\ Behind' = Len(chain)
    BY <1>2, <1>5, <1>11, <2>1 DEF Running, Reading, Behind
  <2>3. /\ ctx.at = "issuer" /\ (ctx.ee <=> Len(chain) = 0)
    BY <2>2 DEF X509Inv, Kept
  <2>4. PICK n \in Nat : n = Len(chain)
    BY <1>5
  <2>5. SameUpTo(n) /\ n <= Len(chain')
    BY <1>5, <1>6, <2>4 DEF SameUpTo
  <2>6. ASSUME n > 0
        PROVE  /\ ValidUpTo(n)' /\ ~DirectlyTrusted' /\ \A k \in 1..n : ~Anchored(chain'[k])
               /\ ctx.saved_dn = chain'[n].issuer /\ ctx.cert_sig = chain'[n].signer
               /\ ctx.signer_type = chain'[n].type
               /\ chain # <<>> /\ chain'[1] = chain[1] /\ ctx.pkey = chain[1].key
    <3>1. /\ ctx.saved_dn = chain[n].issuer /\ ctx.cert_sig = chain[n].signer
          /\ ctx.signer_type = chain[n].type /\ ctx.pkey = chain[1].key
      BY <2>2, <2>3, <2>4, <2>6 DEF X509Inv, Kept, Chosen, Early
    <3> QED
      BY <1>4, <1>7, <2>2, <2>4, <2>5, <2>6, <3>1, BehindKept
  <2>7. Kept'
    BY <1>5, <2>1, <2>2, <2>3, <2>4, <2>6 DEF Kept
  <2>8. InHand'
    <3>1. GoodExts(NoCert, Len(chain))'
      BY DEF GoodExts, NoCert, Of
    <3>2. Fresh(NoCert)'
      BY <2>1, <2>3 DEF Fresh, NoCert, Early, Signed
    <3>3. Begun(NoCert, Len(chain))'
      BY <2>1, <2>3, <3>1, <3>2 DEF Begun, Early, Late, Signed
    <3> QED
      BY <1>5, <3>3 DEF InHand
  <2>9. Chosen'
    <3>1. n = 0 => chain = <<>> /\ chain'[1] = NoCert
      <4>1. n = 0 => Len(chain') = 1
        BY <1>5, <2>4
      <4>2. chain \in Seq(Certificate)
        BY DEF X509Inv, X509Type
      <4>3. n = 0 => chain = <<>>
        BY <2>4, <4>2, EmptySeq
      <4> QED
        BY <1>5, <4>1, <4>3
    <3>2. UsesOf(NoCert) = {"keyx", "sign"}
      BY DEF UsesOf, NoCert
    <3>3. ctx.key_usages = IF chain = <<>> THEN {"keyx", "sign"} ELSE UsesOf(chain[1])
      BY <2>2 DEF X509Inv, Chosen
    <3>4. ctx.key_usages = UsesOf(chain'[1])
      <4>1. CASE n = 0
        BY <3>1, <3>2, <3>3, <4>1
      <4>2. CASE n > 0
        <5>1. chain # <<>> /\ chain'[1] = chain[1]
          BY <2>6, <4>2
        <5> QED
          BY <3>3, <5>1
      <4> QED
        BY <2>4, <4>1, <4>2
    <3> QED
      BY <1>5, <2>1, <2>2, <2>3, <2>4, <2>6, <3>4 DEF Chosen, None, Late
  <2>10. VerdictGiven'
    BY <2>1 DEF VerdictGiven, AcceptedIsValid, RefusedForCause, None
  <2> QED
    BY <1>4, <1>8, <2>7, <2>8, <2>9, <2>10 DEF X509Inv
<1> QED
  BY <1>9, <1>10, <1>11

\* end_cert: a certificate that was not read whole is refused.
LEMMA EndCertInv == X509Inv /\ xm_end_cert => X509Inv'
<1> SUFFICES ASSUME X509Inv, xm_end_cert PROVE X509Inv'
  OBVIOUS
<1>1. /\ caller = "certificate" /\ caller' = "chain" /\ chain' = chain /\ certs' = certs
      /\ ctx' = [ctx EXCEPT !.err = IF ctx.err = None /\ ctx.cert_length THEN "TRUNCATED" ELSE @,
                            !.num_certs = @ + 1]
  BY DEF xm_end_cert
<1>2. ctx \in Context /\ chain \in Seq(Certificate) /\ Len(chain) \in Nat
  BY DEF X509Inv, X509Type
<1>3. X509Type'
  <2>1. "TRUNCATED" \in Defects
    BY DEF Defects
  <2>2. ctx.err \in {None} \cup Answers \cup Defects /\ ctx.num_certs + 1 \in Nat
    BY <1>2 DEF Context
  <2>3. ctx' \in Context
    <3>1. CASE ctx.err = None /\ ctx.cert_length
      BY <1>1, <1>2, <2>1, <2>2, <3>1 DEF Context
    <3>2. CASE ~(ctx.err = None /\ ctx.cert_length)
      BY <1>1, <1>2, <2>2, <3>2 DEF Context
    <3> QED
      BY <3>1, <3>2
  <2> QED
    BY <1>1, <1>2, <2>3 DEF X509Inv, X509Type
<1>4. SameServer /\ ctx'.num_certs = ctx.num_certs + 1 /\ SameUpTo(Len(chain))
  BY <1>1, <1>2 DEF SameServer, SameUpTo, Context
<1>5. CertsCounted' /\ chain # <<>> /\ Len(chain) > 0
  BY <1>1, <1>2, <1>4 DEF X509Inv, CertsCounted
<1>6. CASE ctx.err # None
  <2>1. ctx.err \notin {"EMPTY_CHAIN", "NOT_TRUSTED"}
    BY <1>1 DEF X509Inv, VerdictGiven
  <2>2. ctx'.err = ctx.err /\ ctx'.pkey = ctx.pkey /\ ctx'.key_usages = ctx.key_usages
    BY <1>1, <1>2, <1>6 DEF Context
  <2> QED
    BY <1>1, <1>2, <1>3, <1>4, <1>5, <1>6, <2>1, <2>2, VerdictKept DEF X509Inv
<1>7. CASE ctx.err = None /\ ctx.cert_length
  <2>1. ctx'.err = "TRUNCATED"
    BY <1>1, <1>2, <1>7 DEF Context
  <2>2. ~chain[Len(chain)].whole
    BY <1>1, <1>7 DEF X509Inv, InHand, Running, Reading, Begun, Fresh
  <2>3. VerdictGiven'
    BY <1>1, <1>2, <1>5, <2>1, <2>2 DEF VerdictGiven, AcceptedIsValid, RefusedForCause, None, Cause
  <2> QED
    BY <1>3, <1>5, <2>1, <2>3 DEF X509Inv, Kept, InHand, Chosen, Running, None
<1>8. CASE ctx.err = None /\ ~ctx.cert_length
  <2>1. /\ ctx'.err = None /\ ctx'.at = ctx.at /\ ctx'.ee = ctx.ee /\ ctx'.saved_dn = ctx.saved_dn
        /\ ctx'.cert_sig = ctx.cert_sig /\ ctx'.signer_type = ctx.signer_type
        /\ ctx'.pkey = ctx.pkey /\ ctx'.key_usages = ctx.key_usages
    BY <1>1, <1>2, <1>8 DEF Context
  <2>2. PICK n \in Nat : n = Len(chain)
    BY <1>2
  <2>3. Running /\ Running' /\ ~Reading /\ ~Reading' /\ Behind = n /\ Behind' = n
    BY <1>1, <1>8, <2>1, <2>2 DEF Running, Reading, Behind
  <2>4. /\ ValidUpTo(n)' /\ ~DirectlyTrusted' /\ \A k \in 1..n : ~Anchored(chain'[k])
    BY <1>1, <1>3, <1>4, <1>5, <2>2, <2>3, BehindKept
  <2>5. Kept'
    BY <1>1, <1>5, <2>1, <2>2, <2>3, <2>4 DEF X509Inv, Kept
  <2>6. InHand' /\ Chosen'
    BY <1>1, <1>5, <2>1, <2>2, <2>3 DEF X509Inv, InHand, Chosen, None, UsesOf
  <2>7. VerdictGiven'
    BY <2>1 DEF VerdictGiven, AcceptedIsValid, RefusedForCause, None
  <2> QED
    BY <1>3, <1>5, <2>5, <2>6, <2>7 DEF X509Inv
<1> QED
  BY <1>6, <1>7, <1>8

\* end_chain: without a verdict the chain is empty, or good and not trusted.
LEMMA EndChainInv == X509Inv /\ xm_end_chain => X509Inv'
<1> SUFFICES ASSUME X509Inv, xm_end_chain PROVE X509Inv'
  OBVIOUS
<1>1. /\ caller = "chain" /\ caller' = "idle" /\ chain' = chain /\ certs' = certs
      /\ ctx' = IF ctx.err # None THEN ctx
                ELSE IF ctx.num_certs = 0 THEN fail(ctx, "EMPTY_CHAIN")
                ELSE fail(ctx, "NOT_TRUSTED")
  BY DEF xm_end_chain
<1>2. ctx \in Context /\ chain \in Seq(Certificate) /\ ctx.num_certs = Len(chain)
  BY <1>1 DEF X509Inv, X509Type, CertsCounted
<1>3. X509Type'
  <2>1. "EMPTY_CHAIN" \in Answers /\ "NOT_TRUSTED" \in Answers
    BY DEF Answers
  <2>2. ctx' \in Context
    BY <1>1, <1>2, <2>1 DEF fail, Context
  <2> QED
    BY <1>1, <1>2, <2>2 DEF X509Inv, X509Type
<1>4. /\ ctx'.num_certs = ctx.num_certs /\ SameServer /\ SameUpTo(Len(chain))
      /\ ctx'.pkey = ctx.pkey /\ ctx'.key_usages = ctx.key_usages
  BY <1>1, <1>2 DEF fail, SameServer, SameUpTo, Context
<1>5. ctx'.err = IF ctx.err # None THEN ctx.err
                 ELSE IF ctx.num_certs = 0 THEN "EMPTY_CHAIN" ELSE "NOT_TRUSTED"
  BY <1>1, <1>2 DEF fail, Context
<1>6. CertsCounted'
  BY <1>1, <1>2, <1>4, <1>5 DEF CertsCounted, None
<1>7. CASE ctx.err # None
  <2>1. ctx.err \notin {"EMPTY_CHAIN", "NOT_TRUSTED"}
    BY <1>1 DEF X509Inv, VerdictGiven
  <2> QED
    BY <1>1, <1>2, <1>3, <1>4, <1>5, <1>6, <1>7, <2>1, VerdictKept DEF X509Inv
<1>8. CASE ctx.err = None /\ Len(chain) = 0
  <2>1. ctx'.err = "EMPTY_CHAIN" /\ chain' = <<>>
    BY <1>1, <1>2, <1>5, <1>8
  <2>2. VerdictGiven'
    BY <1>1, <2>1 DEF VerdictGiven, AcceptedIsValid, RefusedForCause, None
  <2> QED
    BY <1>1, <1>3, <1>6, <2>1, <2>2 DEF X509Inv, Kept, InHand, Chosen, Running
<1>9. CASE ctx.err = None /\ Len(chain) # 0
  <2>1. PICK n \in Nat : n = Len(chain)
    BY <1>2
  <2>2. n > 0 /\ ctx'.err = "NOT_TRUSTED" /\ Running /\ Behind = n
    BY <1>1, <1>2, <1>5, <1>9, <2>1 DEF Running, Behind, Reading
  <2>3. /\ ValidUpTo(n)' /\ ~DirectlyTrusted' /\ \A k \in 1..n : ~Anchored(chain'[k])
        /\ chain # <<>>
    BY <1>1, <1>3, <1>4, <2>1, <2>2, BehindKept
  <2>4. RefusedForCause'
    BY <1>1, <1>2, <2>1, <2>2, <2>3 DEF RefusedForCause, None
  <2>5. VerdictGiven'
    BY <1>1, <2>2, <2>4 DEF VerdictGiven, AcceptedIsValid
  <2>6. Chosen'
    BY <1>1, <1>4, <2>2, <2>3 DEF X509Inv, Chosen, Running, UsesOf
  <2> QED
    BY <1>1, <1>3, <1>6, <2>5, <2>6 DEF X509Inv, Kept, InHand, Running
<1> QED
  BY <1>2, <1>7, <1>8, <1>9

-----------------------------------------------------------------------------
(* The fields of a certificate.                                            *)
\* The certificate in hand.
LEMMA InCertificate ==
  ASSUME X509Inv, caller = "certificate"
  PROVE  /\ ctx \in Context /\ Now = chain[Len(chain)] /\ Now \in Certificate
         /\ Len(chain) \in Nat /\ Len(chain) > 0
<1>1. chain \in Seq(Certificate) /\ chain # <<>> /\ ctx \in Context
  BY DEF X509Inv, X509Type, CertsCounted
<1>2. Len(chain) \in Nat /\ Len(chain) > 0
  BY <1>1, EmptySeq
<1> QED
  BY <1>1, <1>2 DEF Now, Last

\* What the bytes of a certificate change, and what is known before.
LEMMA Appended ==
  ASSUME X509Inv, NEW at, NEW c \in Context, NEW seen \in Certificate, xm_append(at, c, seen),
         c.num_certs = ctx.num_certs
  PROVE  /\ X509Type' /\ CertsCounted' /\ Running /\ Reading /\ ctx' = c
         /\ ctx.at = at /\ caller' = "certificate" /\ Len(chain') = Len(chain)
         /\ chain'[Len(chain)] = seen /\ SameUpTo(Len(chain) - 1) /\ chain' # <<>>
         /\ Begun(chain[Len(chain)], Len(chain))
<1>1. /\ caller = "certificate" /\ ctx.err = None /\ ctx.cert_length /\ ctx.at = at /\ ctx' = c
      /\ chain' = [chain EXCEPT ![Len(chain)] = seen] /\ caller' = caller /\ certs' = certs
  BY DEF xm_append
<1>2. Running /\ Reading
  BY <1>1 DEF Running, Reading
<1>3. chain \in Seq(Certificate) /\ Len(chain) \in Nat /\ Len(chain) > 0
  BY <1>1, InCertificate DEF X509Inv, X509Type
<1>4. /\ chain' \in Seq(Certificate) /\ Len(chain') = Len(chain)
      /\ chain'[Len(chain)] = seen /\ \A i \in 1..Len(chain) - 1 : chain'[i] = chain[i]
  BY <1>1, <1>3
<1>5. chain' # <<>> /\ SameUpTo(Len(chain) - 1)
  BY <1>3, <1>4 DEF SameUpTo
<1>6. X509Type' /\ CertsCounted'
  BY <1>1, <1>4, <1>5 DEF X509Inv, X509Type, CertsCounted
<1> QED
  BY <1>1, <1>2, <1>4, <1>5, <1>6 DEF X509Inv, InHand

\* A step that ends in an error which a certificate gave cause for.
LEMMA Refuses ==
  ASSUME X509Type', CertsCounted', ctx'.err \in Defects, NEW i \in DOMAIN chain', Cause(ctx.err, i)'
  PROVE  X509Inv'
<1>1. ctx'.err \notin Answers \cup {None}
  BY DEF Defects, Answers, None
<1>2. VerdictGiven'
  BY <1>1 DEF VerdictGiven, AcceptedIsValid, RefusedForCause, Answers
<1> QED
  BY <1>1, <1>2 DEF X509Inv, Kept, InHand, Chosen, Running, Answers

\* A step that goes on with the same certificate.
LEMMA Proceeds ==
  ASSUME X509Inv, X509Type', CertsCounted', Running, Reading, caller' = "certificate",
         NEW n \in Nat, n > 0, n = Len(chain), n = Len(chain'), SameUpTo(n - 1), SameServer,
         ctx'.err = None, ctx'.cert_length, ctx'.ee = ctx.ee,
         ctx'.at \in Early => ctx.at \in Early /\ ctx'.saved_dn = ctx.saved_dn,
         ctx'.at \in Early \cup {"key"} =>
           /\ ctx.at \in Early \cup {"key"}
           /\ ctx'.cert_sig = ctx.cert_sig /\ ctx'.signer_type = ctx.signer_type,
         IF n = 1 THEN /\ ctx'.key_usages = UsesOf(chain'[1])
                       /\ ctx'.at \in Late => ctx'.pkey = chain'[1].key
                  ELSE ctx'.key_usages = ctx.key_usages /\ ctx'.pkey = ctx.pkey,
         Begun(chain[n], n)'
  PROVE  X509Inv'
<1>1. PICK k \in Nat : k = n - 1
  OBVIOUS
<1>2. Running' /\ Reading' /\ Behind = k /\ Behind' = k
  BY <1>1 DEF Running, Reading, Behind
<1>3. ASSUME k > 0
      PROVE  /\ ValidUpTo(k)' /\ ~DirectlyTrusted' /\ \A i \in 1..k : ~Anchored(chain'[i])
             /\ chain # <<>> /\ chain'[1] = chain[1] /\ chain'[k] = chain[k]
  BY <1>1, <1>2, <1>3, BehindKept
<1>4. Kept'
  BY <1>1, <1>2, <1>3 DEF X509Inv, Kept
<1>5. InHand'
  BY <1>2 DEF InHand
<1>6. chain' # <<>>
  OBVIOUS
<1>7. Chosen'
  <2>1. CASE n = 1
    BY <1>1, <1>2, <1>6, <2>1 DEF Chosen, None
  <2>2. CASE n > 1
    BY <1>1, <1>2, <1>3, <1>6, <2>2 DEF X509Inv, Chosen, None
  <2> QED
    BY <2>1, <2>2
<1>8. VerdictGiven'
  BY DEF VerdictGiven, AcceptedIsValid, RefusedForCause, None
<1> QED
  BY <1>4, <1>5, <1>7, <1>8 DEF X509Inv

\* The usages are those of the first certificate, whatever else is read of it.
LEMMA UsesKept ==
  ASSUME X509Inv, Running, Reading, NEW seen, seen.uses = Now.uses
  PROVE  Len(chain) = 1 => ctx.key_usages = UsesOf(seen)
<1>1. Now = chain[Len(chain)] /\ chain # <<>>
  BY InCertificate DEF Reading, X509Inv, CertsCounted
<1> QED
  BY <1>1 DEF X509Inv, Chosen, UsesOf

\* The certificate in hand is the last, the others are as they were.
LEMMA InDomain ==
  ASSUME X509Type', NEW n \in Nat, n > 0, Len(chain') = n, SameUpTo(n - 1)
  PROVE  n \in DOMAIN chain' /\ (n > 1 => chain'[n - 1] = chain[n - 1])
BY DEF X509Type, SameUpTo

\* The issuer, whose name the next certificate must have as its subject.
LEMMA IssuerInv == X509Inv /\ Issuer => X509Inv'
<1> SUFFICES ASSUME X509Inv, NEW dn \in Names,
                    xm_append("issuer", read_issuer(ctx, dn), [Now EXCEPT !.issuer = dn])
             PROVE  X509Inv'
  BY DEF Issuer
<1>1. /\ ctx \in Context /\ Now = chain[Len(chain)] /\ Now \in Certificate
      /\ Len(chain) \in Nat /\ Len(chain) > 0
  BY InCertificate DEF xm_append
<1>2. PICK c \in Context : c = read_issuer(ctx, dn)
  BY <1>1 DEF read_issuer, Context, MaybeName, Early
<1>3. PICK seen \in Certificate : seen = [Now EXCEPT !.issuer = dn]
  BY <1>1 DEF Certificate, MaybeName
<1>4. c = [ctx EXCEPT !.current_dn = dn, !.next_dn = dn, !.at = "validity"]
  BY <1>2 DEF read_issuer
<1>5. /\ X509Type' /\ CertsCounted' /\ Running /\ Reading /\ ctx' = c
      /\ ctx.at = "issuer" /\ caller' = "certificate" /\ Len(chain') = Len(chain)
      /\ chain'[Len(chain)] = seen /\ SameUpTo(Len(chain) - 1) /\ chain' # <<>>
      /\ Begun(chain[Len(chain)], Len(chain))
  <2>1. c.num_certs = ctx.num_certs
    BY <1>1, <1>4 DEF Context
  <2> QED
    BY <1>2, <1>3, <2>1, Appended
<1>6. PICK n \in Nat : n = Len(chain)
  BY <1>1
<1>7. /\ ctx'.at = "validity" /\ ctx'.err = ctx.err /\ ctx'.cert_length = ctx.cert_length
      /\ ctx'.ee = ctx.ee /\ ctx'.saved_dn = ctx.saved_dn /\ ctx'.next_dn = dn
      /\ ctx'.cert_sig = ctx.cert_sig /\ ctx'.signer_type = ctx.signer_type
      /\ ctx'.pkey = ctx.pkey /\ ctx'.key_usages = ctx.key_usages /\ SameServer
  BY <1>1, <1>4, <1>5 DEF Context, SameServer
<1>8. Begun(seen, n)'
  <2>1. Fresh(seen)'
    BY <1>1, <1>3, <1>5, <1>7 DEF Begun, Fresh, Certificate, Early, Signed
  <2>2. GoodExts(seen, n)'
    BY <1>1, <1>3, <1>5, <1>6 DEF Begun, GoodExts, Of, Certificate
  <2>3. ctx'.next_dn = seen.issuer
    BY <1>1, <1>3, <1>7 DEF Certificate
  <2> QED
    BY <1>7, <2>1, <2>2, <2>3 DEF Begun, Early, Late, Signed
<1>9. n = 1 => ctx'.key_usages = UsesOf(seen)
  BY <1>1, <1>3, <1>5, <1>6, <1>7, UsesKept DEF Certificate
<1> QED
  BY <1>1, <1>5, <1>6, <1>7, <1>8, <1>9, Proceeds DEF Running, Reading, Early, Late

\* The dates.
LEMMA ValidityInv == X509Inv /\ Validity => X509Inv'
<1> SUFFICES ASSUME X509Inv, NEW now \in BOOLEAN,
                    xm_append("validity", read_validity(ctx, now), [Now EXCEPT !.now = now])
             PROVE  X509Inv'
  BY DEF Validity
<1>1. /\ ctx \in Context /\ Now = chain[Len(chain)] /\ Now \in Certificate
      /\ Len(chain) \in Nat /\ Len(chain) > 0
  BY InCertificate DEF xm_append
<1>2. PICK c \in Context : c = read_validity(ctx, now)
  BY <1>1 DEF read_validity, fail, Context, Early, Defects
<1>3. PICK seen \in Certificate : seen = [Now EXCEPT !.now = now]
  BY <1>1 DEF Certificate
<1>4. c = IF now THEN [ctx EXCEPT !.at = "subject"] ELSE [ctx EXCEPT !.err = "EXPIRED"]
  BY <1>2 DEF read_validity, fail
<1>5. /\ X509Type' /\ CertsCounted' /\ Running /\ Reading /\ ctx' = c
      /\ ctx.at = "validity" /\ caller' = "certificate" /\ Len(chain') = Len(chain)
      /\ chain'[Len(chain)] = seen /\ SameUpTo(Len(chain) - 1) /\ chain' # <<>>
      /\ Begun(chain[Len(chain)], Len(chain))
  <2>1. c.num_certs = ctx.num_certs
    BY <1>1, <1>4 DEF Context
  <2> QED
    BY <1>2, <1>3, <2>1, Appended
<1>6. PICK n \in Nat : n = Len(chain)
  BY <1>1
<1>7. CASE ~now
  <2>1. ctx'.err = "EXPIRED" /\ ~seen.now
    BY <1>1, <1>3, <1>4, <1>5, <1>7 DEF Context, Certificate
  <2>2. n \in DOMAIN chain' /\ Cause(ctx.err, n)'
    BY <1>1, <1>5, <1>6, <2>1 DEF Cause, X509Type
  <2> QED
    BY <1>5, <2>1, <2>2, Refuses DEF Defects
<1>8. CASE now
  <2>1. /\ ctx'.at = "subject" /\ ctx'.err = ctx.err /\ ctx'.cert_length = ctx.cert_length
        /\ ctx'.ee = ctx.ee /\ ctx'.saved_dn = ctx.saved_dn /\ ctx'.next_dn = ctx.next_dn
        /\ ctx'.cert_sig = ctx.cert_sig /\ ctx'.signer_type = ctx.signer_type
        /\ ctx'.pkey = ctx.pkey /\ ctx'.key_usages = ctx.key_usages /\ SameServer
    BY <1>1, <1>4, <1>5, <1>8 DEF Context, SameServer
  <2>2. Fresh(seen)'
    BY <1>1, <1>3, <1>5, <2>1 DEF Begun, Fresh, Certificate, Early, Signed
  <2>3. GoodExts(seen, n)'
    BY <1>1, <1>3, <1>5, <1>6 DEF Begun, GoodExts, Of, Certificate
  <2>4. seen.now /\ seen.issuer = ctx.next_dn
    BY <1>1, <1>3, <1>5, <1>8 DEF Begun, Certificate
  <2>5. Begun(seen, n)'
    BY <2>1, <2>2, <2>3, <2>4 DEF Begun, Early, Late, Signed
  <2>6. n = 1 => ctx'.key_usages = UsesOf(seen)
    BY <1>1, <1>3, <1>5, <1>6, <2>1, UsesKept DEF Certificate
  <2> QED
    BY <1>1, <1>5, <1>6, <2>1, <2>5, <2>6, Proceeds DEF Running, Reading, Early, Late
<1> QED
  BY <1>7, <1>8

\* The subject, compared with the issuer of the certificate before.
LEMMA SubjectInv == X509Inv /\ Subject => X509Inv'
<1> SUFFICES ASSUME X509Inv, NEW dn \in Names, NEW cn \in BOOLEAN,
                    xm_append("subject", read_subject(ctx, dn, cn),
                              [Now EXCEPT !.subject = dn, !.cn = cn])
             PROVE  X509Inv'
  BY DEF Subject
<1>1. /\ ctx \in Context /\ Now = chain[Len(chain)] /\ Now \in Certificate
      /\ Len(chain) \in Nat /\ Len(chain) > 0
  BY InCertificate DEF xm_append
<1>2. read_subject(ctx, dn, cn) =
        IF ~ctx.ee /\ dn # ctx.saved_dn
        THEN [ctx EXCEPT !.current_dn = dn, !.eename = ctx.ee /\ cn /\ ctx.server_name # None,
                         !.err = "DN_MISMATCH"]
        ELSE [ctx EXCEPT !.current_dn = dn, !.eename = ctx.ee /\ cn /\ ctx.server_name # None,
                         !.saved_dn = ctx.next_dn, !.at = "key"]
  BY <1>1 DEF read_subject, fail, Context
<1>3. PICK c \in Context : c = read_subject(ctx, dn, cn)
  <2>1. dn \in MaybeName /\ (ctx.ee /\ cn /\ ctx.server_name # None) \in BOOLEAN
        /\ "DN_MISMATCH" \in Defects
    BY DEF MaybeName, Defects
  <2>2. CASE ~ctx.ee /\ dn # ctx.saved_dn
    BY <1>1, <1>2, <2>1, <2>2 DEF Context
  <2>3. CASE ctx.ee \/ dn = ctx.saved_dn
    BY <1>1, <1>2, <2>1, <2>3 DEF Context
  <2> QED
    BY <2>2, <2>3
<1>4. PICK seen \in Certificate : seen = [Now EXCEPT !.subject = dn, !.cn = cn]
  BY <1>1 DEF Certificate, MaybeName
<1>5. /\ X509Type' /\ CertsCounted' /\ Running /\ Reading /\ ctx' = c
      /\ ctx.at = "subject" /\ caller' = "certificate" /\ Len(chain') = Len(chain)
      /\ chain'[Len(chain)] = seen /\ SameUpTo(Len(chain) - 1) /\ chain' # <<>>
      /\ Begun(chain[Len(chain)], Len(chain))
  <2>1. c.num_certs = ctx.num_certs
    BY <1>1, <1>2, <1>3 DEF Context
  <2> QED
    BY <1>3, <1>4, <2>1, Appended
<1>6. PICK n \in Nat : n = Len(chain)
  BY <1>1
<1>7. /\ ctx.ee <=> n = 1
      /\ n > 1 => ctx.saved_dn = chain'[n - 1].issuer
  <2>1. Behind = n - 1 /\ (n > 1 => chain'[n - 1] = chain[n - 1])
    BY <1>1, <1>5, <1>6 DEF Behind, SameUpTo
  <2> QED
    BY <1>1, <1>5, <1>6, <2>1 DEF X509Inv, Kept, Early
<1>8. CASE ~ctx.ee /\ dn # ctx.saved_dn
  <2>1. ctx'.err = "DN_MISMATCH" /\ seen.subject = dn
    BY <1>1, <1>2, <1>3, <1>4, <1>5, <1>8 DEF Context, Certificate
  <2>2. n \in DOMAIN chain' /\ Cause(ctx.err, n)'
    BY <1>1, <1>5, <1>6, <1>7, <1>8, <2>1 DEF Cause, X509Type
  <2> QED
    BY <1>5, <2>1, <2>2, Refuses DEF Defects
<1>9. CASE ~(~ctx.ee /\ dn # ctx.saved_dn)
  <2>1. /\ ctx'.at = "key" /\ ctx'.err = ctx.err /\ ctx'.cert_length = ctx.cert_length
        /\ ctx'.ee = ctx.ee /\ ctx'.saved_dn = ctx.next_dn /\ ctx'.current_dn = dn
        /\ ctx'.eename = (ctx.ee /\ cn /\ ctx.server_name # None)
        /\ ctx'.cert_sig = ctx.cert_sig /\ ctx'.signer_type = ctx.signer_type
        /\ ctx'.pkey = ctx.pkey /\ ctx'.key_usages = ctx.key_usages
        /\ ctx'.server_name = ctx.server_name
    BY <1>1, <1>2, <1>3, <1>5, <1>9 DEF Context
  <2>2. Fresh(seen)'
    BY <1>1, <1>4, <1>5, <2>1 DEF Begun, Fresh, Certificate, Early, Signed
  <2>3. GoodExts(seen, n)'
    BY <1>1, <1>4, <1>5, <1>6 DEF Begun, GoodExts, Of, Certificate
  <2>4. seen.now /\ seen.issuer = ctx.next_dn /\ seen.subject = dn /\ seen.cn = cn /\ seen.san = {}
    BY <1>1, <1>4, <1>5 DEF Begun, Fresh, Early, Certificate
  <2>5. n = 1 => (ctx'.eename <=> ctx'.server_name # None /\ NameMatches(seen)')
    BY <1>7, <2>1, <2>4 DEF NameMatches
  <2>6. n > 1 => seen.subject = chain'[n - 1].issuer
    BY <1>7, <1>9, <2>4
  <2>7. Begun(seen, n)'
    BY <2>1, <2>2, <2>3, <2>4, <2>5, <2>6 DEF Begun, Early, Late, Signed
  <2>8. n = 1 => ctx'.key_usages = UsesOf(seen)
    BY <1>1, <1>4, <1>5, <1>6, <2>1, UsesKept DEF Certificate
  <2> QED
    BY <1>1, <1>5, <1>6, <2>1, <2>7, <2>8, Proceeds DEF Running, Reading, Early, Late, SameServer
<1> QED
  BY <1>8, <1>9

\* The key, which must verify the signature of the certificate before.
LEMMA KeyInv == X509Inv /\ Key => X509Inv'
<1> SUFFICES ASSUME X509Inv, NEW key \in Keys,
                    xm_append("key", read_key(ctx, key), [Now EXCEPT !.key = key])
             PROVE  X509Inv'
  BY DEF Key
<1>1. /\ ctx \in Context /\ Now = chain[Len(chain)] /\ Now \in Certificate
      /\ Len(chain) \in Nat /\ Len(chain) > 0
  BY InCertificate DEF xm_append
<1>2. read_key(ctx, key) =
        IF key \in WeakKeys THEN [ctx EXCEPT !.err = "WEAK_PUBLIC_KEY"]
        ELSE IF ctx.ee THEN [ctx EXCEPT !.seenBC = FALSE, !.at = "extensions", !.pkey = key]
        ELSE IF KeyType[key] # ctx.signer_type THEN [ctx EXCEPT !.err = "WRONG_KEY_TYPE"]
        ELSE IF ctx.cert_sig # key THEN [ctx EXCEPT !.err = "BAD_SIGNATURE"]
        ELSE [ctx EXCEPT !.seenBC = FALSE, !.at = "extensions"]
  BY <1>1 DEF read_key, fail, verify_signature, None, Context
<1>3. PICK c \in Context : c = read_key(ctx, key)
  <2>1. /\ {"WEAK_PUBLIC_KEY", "WRONG_KEY_TYPE", "BAD_SIGNATURE"} \subseteq Defects
        /\ key \in MaybeKey /\ "extensions" \in Late
    BY DEF MaybeKey, Defects, Late
  <2> QED
    BY ZenonT(60), <1>1, <1>2, <2>1 DEF Context
<1>4. PICK seen \in Certificate : seen = [Now EXCEPT !.key = key]
  BY <1>1 DEF Certificate, MaybeKey
<1>5. /\ X509Type' /\ CertsCounted' /\ Running /\ Reading /\ ctx' = c
      /\ ctx.at = "key" /\ caller' = "certificate" /\ Len(chain') = Len(chain)
      /\ chain'[Len(chain)] = seen /\ SameUpTo(Len(chain) - 1) /\ chain' # <<>>
      /\ Begun(chain[Len(chain)], Len(chain))
  <2>1. c.num_certs = ctx.num_certs
    BY <1>1, <1>2, <1>3 DEF Context
  <2> QED
    BY <1>3, <1>4, <2>1, Appended
<1>6. PICK n \in Nat : n = Len(chain)
  BY <1>1
<1>7. /\ ctx.ee <=> n = 1
      /\ n > 1 => /\ ctx.cert_sig = chain'[n - 1].signer /\ ctx.signer_type = chain'[n - 1].type
                  /\ chain'[n - 1] = chain[n - 1]
  <2>1. Behind = n - 1 /\ (n > 1 => chain'[n - 1] = chain[n - 1])
    BY <1>1, <1>5, <1>6 DEF Behind, SameUpTo
  <2> QED
    BY <1>1, <1>5, <1>6, <2>1 DEF X509Inv, Kept
<1>8. seen.key = key /\ n \in DOMAIN chain'
  BY <1>1, <1>4, <1>5, <1>6 DEF Certificate, X509Type
<1>9. CASE key \in WeakKeys
  <2>1. ctx'.err = "WEAK_PUBLIC_KEY"
    BY <1>1, <1>2, <1>3, <1>5, <1>9 DEF Context
  <2>2. Cause(ctx.err, n)'
    BY <1>5, <1>6, <1>8, <1>9, <2>1 DEF Cause
  <2> QED
    BY <1>5, <1>8, <2>1, <2>2, Refuses DEF Defects
<1>10. CASE key \notin WeakKeys /\ ~ctx.ee /\ KeyType[key] # ctx.signer_type
  <2>1. ctx'.err = "WRONG_KEY_TYPE"
    BY <1>1, <1>2, <1>3, <1>5, <1>10 DEF Context
  <2>2. Cause(ctx.err, n)'
    BY <1>1, <1>5, <1>6, <1>7, <1>8, <1>10, <2>1 DEF Cause
  <2> QED
    BY <1>5, <1>8, <2>1, <2>2, Refuses DEF Defects
<1>11. CASE key \notin WeakKeys /\ ~ctx.ee /\ KeyType[key] = ctx.signer_type /\ ctx.cert_sig # key
  <2>1. ctx'.err = "BAD_SIGNATURE"
    BY <1>1, <1>2, <1>3, <1>5, <1>11 DEF Context
  <2>2. Cause(ctx.err, n)'
    BY <1>1, <1>5, <1>6, <1>7, <1>8, <1>11, <2>1 DEF Cause, SignedBy
  <2> QED
    BY <1>5, <1>8, <2>1, <2>2, Refuses DEF Defects
<1>12. CASE key \notin WeakKeys /\ (ctx.ee \/ (KeyType[key] = ctx.signer_type /\ ctx.cert_sig = key))
  <2>1. /\ ctx'.at = "extensions" /\ ctx'.err = ctx.err /\ ctx'.cert_length = ctx.cert_length
        /\ ctx'.ee = ctx.ee /\ ctx'.saved_dn = ctx.saved_dn /\ ctx'.current_dn = ctx.current_dn
        /\ ctx'.eename = ctx.eename /\ ctx'.seenBC = FALSE
        /\ ctx'.pkey = (IF ctx.ee THEN key ELSE ctx.pkey) /\ ctx'.key_usages = ctx.key_usages
        /\ ctx'.server_name = ctx.server_name
    BY <1>1, <1>2, <1>3, <1>5, <1>12 DEF Context
  <2>2. Fresh(seen)'
    BY <1>1, <1>4, <1>5, <2>1 DEF Begun, Fresh, Certificate, Early, Signed
  <2>3. GoodExts(seen, n)'
    BY <1>1, <1>4, <1>5, <1>6 DEF Begun, GoodExts, Of, Certificate
  <2>4. GoodKey(seen, n)'
    BY <1>7, <1>8, <1>12 DEF GoodKey, SignedBy
  <2>5. /\ seen.now /\ ctx.saved_dn = seen.issuer /\ ctx.current_dn = seen.subject
        /\ seen.exts = {} /\ (n > 1 => seen.subject = chain'[n - 1].issuer)
    BY <1>1, <1>4, <1>5, <1>6, <1>7 DEF Begun, Fresh, Early, Certificate
  <2>6. n = 1 => (ctx'.eename <=> ctx'.server_name # None /\ NameMatches(seen)')
    BY <1>1, <1>4, <1>5, <1>6, <2>1 DEF Begun, NameMatches, Early, Certificate
  <2>7. Of(seen, "basicConstraints") = {}
    BY <2>5 DEF Of
  <2>8. Begun(seen, n)'
    BY <2>1, <2>2, <2>3, <2>4, <2>5, <2>6, <2>7 DEF Begun, Early, Late, Signed
  <2>9. n = 1 => ctx'.key_usages = UsesOf(seen)
    BY <1>1, <1>4, <1>5, <1>6, <2>1, UsesKept DEF Certificate
  <2> QED
    BY <1>1, <1>5, <1>6, <1>7, <1>8, <2>1, <2>8, <2>9, Proceeds
    DEF Running, Reading, Early, Late, SameServer
<1> QED
  BY <1>9, <1>10, <1>11, <1>12

\* An extension is of one of four kinds.
LEMMA ExtensionKind ==
  ASSUME NEW ext \in Extensions
  PROVE  \/ ext.oid = "basicConstraints" /\ ext.ca \in BOOLEAN /\ ext.limit \in SUBSET Nat
         \/ ext.oid = "keyUsage" /\ ext.uses \in SUBSET Uses
         \/ ext.oid = "subjectAltName" /\ ext.match \in BOOLEAN
         \/ ext.oid = "unknown" /\ ext.critical \in BOOLEAN
BY DEF Extensions

\* One extension.
LEMMA ExtensionInv == X509Inv /\ Extension => X509Inv'
<1> SUFFICES ASSUME X509Inv, NEW ext \in Extensions,
                    xm_append("extensions", read_extension(ctx, ext),
                      [Now EXCEPT !.exts = @ \cup {ext},
                         !.san = IF ext.oid = "subjectAltName" THEN {ext.match} ELSE @,
                         !.uses = IF ext.oid = "keyUsage" THEN {ext.uses} ELSE @])
             PROVE  X509Inv'
  BY X509Assumption DEF Extension
<1>1. /\ ctx \in Context /\ Now = chain[Len(chain)] /\ Now \in Certificate
      /\ Len(chain) \in Nat /\ Len(chain) > 0
  BY InCertificate DEF xm_append
<1>2. PICK c : c = read_extension(ctx, ext)
  OBVIOUS
<1>3. PICK seen :
        seen = [Now EXCEPT !.exts = @ \cup {ext},
                  !.san = IF ext.oid = "subjectAltName" THEN {ext.match} ELSE @,
                  !.uses = IF ext.oid = "keyUsage" THEN {ext.uses} ELSE @]
  OBVIOUS
<1>4. seen \in Certificate
  <2>1. (IF ext.oid = "subjectAltName" THEN {ext.match} ELSE Now.san) \in SUBSET BOOLEAN
    BY <1>1, ExtensionKind DEF Certificate
  <2>2. (IF ext.oid = "keyUsage" THEN {ext.uses} ELSE Now.uses) \in SUBSET SUBSET Uses
    BY <1>1, ExtensionKind DEF Certificate
  <2>3. Now.exts \cup {ext} \in SUBSET Extensions
    BY <1>1 DEF Certificate
  <2> QED
    BY <1>1, <1>3, <2>1, <2>2, <2>3 DEF Certificate
<1>5. /\ seen.exts = Now.exts \cup {ext}
      /\ seen.san = (IF ext.oid = "subjectAltName" THEN {ext.match} ELSE Now.san)
      /\ seen.uses = (IF ext.oid = "keyUsage" THEN {ext.uses} ELSE Now.uses)
      /\ seen.issuer = Now.issuer /\ seen.now = Now.now /\ seen.subject = Now.subject
      /\ seen.cn = Now.cn /\ seen.key = Now.key /\ seen.tbs = Now.tbs /\ seen.type = Now.type
      /\ seen.signer = Now.signer /\ seen.whole = Now.whole
  BY <1>1, <1>3 DEF Certificate
<1> DEFINE NotCA == /\ ext.oid = "basicConstraints" /\ ~ctx.ee
                    /\ ~ext.ca \/ \E m \in ext.limit : m < ctx.num_certs - 1
           Forbidden == /\ ext.oid = "keyUsage"
                        /\ ext.uses = {} \/ (~ctx.ee /\ "certSign" \notin ext.uses)
           Critical == ext.oid = "unknown" /\ ext.critical
           Rest == /\ c \in Context /\ c.num_certs = ctx.num_certs
                   /\ c.cert_length = ctx.cert_length /\ c.at = ctx.at /\ c.ee = ctx.ee
                   /\ c.server_name = ctx.server_name /\ c.saved_dn = ctx.saved_dn
                   /\ c.current_dn = ctx.current_dn /\ c.pkey = ctx.pkey
           Good == /\ c.err = ctx.err
                   /\ c.seenBC <=> ctx.seenBC \/ (ext.oid = "basicConstraints" /\ ~ctx.ee)
                   /\ c.eename <=> IF ext.oid = "subjectAltName" /\ ctx.ee
                                   THEN ext.match /\ ctx.server_name # None ELSE ctx.eename
                   /\ c.key_usages = IF ext.oid = "keyUsage" /\ ctx.ee
                                     THEN ext.uses \cap {"keyx", "sign"} ELSE ctx.key_usages
<1>6. /\ Rest
      /\ NotCA => c.err = "NOT_CA"
      /\ Forbidden => c.err = "FORBIDDEN_KEY_USAGE"
      /\ Critical => c.err = "CRITICAL_EXTENSION"
      /\ ~(NotCA \/ Forbidden \/ Critical) => Good
  <2>1. {"NOT_CA", "FORBIDDEN_KEY_USAGE", "CRITICAL_EXTENSION"} \subseteq Defects
    BY DEF Defects
  <2>2. CASE ext.oid = "basicConstraints"
    <3>1. c = IF ctx.ee THEN ctx
              ELSE IF NotCA THEN [[ctx EXCEPT !.err = "NOT_CA"] EXCEPT !.seenBC = TRUE]
              ELSE [ctx EXCEPT !.seenBC = TRUE]
      BY <1>2, <2>2 DEF read_extension, process_basicConstraints, fail
    <3>2. ~Forbidden /\ ~Critical /\ (NotCA => ~ctx.ee)
      BY <2>2
    <3> HIDE DEF NotCA, Forbidden, Critical
    <3>3. CASE ctx.ee
      BY <1>1, <2>2, <3>1, <3>2, <3>3
    <3>4. CASE ~ctx.ee /\ NotCA
      BY <1>1, <2>1, <3>1, <3>2, <3>4 DEF Context
    <3>5. CASE ~ctx.ee /\ ~NotCA
      BY <1>1, <2>2, <3>1, <3>2, <3>5 DEF Context
    <3> QED
      BY <3>3, <3>4, <3>5
  <2>3. CASE ext.oid = "keyUsage"
    <3>1. ext.uses \cap {"keyx", "sign"} \in SUBSET {"keyx", "sign"}
      OBVIOUS
    <3>2. c = IF Forbidden THEN [ctx EXCEPT !.err = "FORBIDDEN_KEY_USAGE"]
              ELSE IF ctx.ee THEN [ctx EXCEPT !.key_usages = ext.uses \cap {"keyx", "sign"}]
              ELSE ctx
      BY <1>2, <2>3 DEF read_extension, process_keyUsage, fail
    <3>3. ~NotCA /\ ~Critical
      BY <2>3
    <3> HIDE DEF NotCA, Forbidden, Critical
    <3>4. CASE Forbidden
      BY <1>1, <2>1, <3>2, <3>3, <3>4 DEF Context
    <3>5. CASE ~Forbidden /\ ctx.ee
      BY <1>1, <2>3, <3>1, <3>2, <3>3, <3>5 DEF Context
    <3>6. CASE ~Forbidden /\ ~ctx.ee
      BY <1>1, <2>3, <3>2, <3>3, <3>6
    <3> QED
      BY <3>4, <3>5, <3>6
  <2>4. CASE ext.oid = "subjectAltName"
    <3>1. (ext.match /\ ctx.server_name # None) \in BOOLEAN
      OBVIOUS
    <3>2. c = IF ctx.ee THEN [ctx EXCEPT !.eename = ext.match /\ ctx.server_name # None] ELSE ctx
      BY <1>2, <2>4 DEF read_extension
    <3>3. ~NotCA /\ ~Forbidden /\ ~Critical
      BY <2>4
    <3> HIDE DEF NotCA, Forbidden, Critical
    <3>4. CASE ctx.ee
      BY <1>1, <2>4, <3>1, <3>2, <3>3, <3>4 DEF Context
    <3>5. CASE ~ctx.ee
      BY <1>1, <2>4, <3>2, <3>3, <3>5
    <3> QED
      BY <3>4, <3>5
  <2>5. CASE ext.oid = "unknown"
    <3>1. c = IF ext.critical THEN [ctx EXCEPT !.err = "CRITICAL_EXTENSION"] ELSE ctx
      BY <1>2, <2>5 DEF read_extension, fail
    <3>2. ~NotCA /\ ~Forbidden /\ (Critical <=> ext.critical)
      BY <2>5
    <3> HIDE DEF NotCA, Forbidden, Critical
    <3>3. CASE Critical
      BY <1>1, <2>1, <3>1, <3>2, <3>3 DEF Context
    <3>4. CASE ~Critical
      BY <1>1, <2>5, <3>1, <3>2, <3>4
    <3> QED
      BY <3>3, <3>4
  <2> QED
    BY <2>2, <2>3, <2>4, <2>5, ExtensionKind
<1> HIDE DEF Good
<1>7. /\ X509Type' /\ CertsCounted' /\ Running /\ Reading /\ ctx' = c
      /\ ctx.at = "extensions" /\ caller' = "certificate" /\ Len(chain') = Len(chain)
      /\ chain'[Len(chain)] = seen /\ SameUpTo(Len(chain) - 1) /\ chain' # <<>>
      /\ Begun(chain[Len(chain)], Len(chain))
  BY <1>2, <1>3, <1>4, <1>6, Appended
<1>8. PICK n \in Nat : n = Len(chain)
  BY <1>1
<1>9. /\ ctx.ee <=> n = 1
      /\ ctx.num_certs = n - 1 /\ n > 0 /\ n \in DOMAIN chain'
      /\ n > 1 => chain'[n - 1] = chain[n - 1]
  <2>1. Behind = n - 1 /\ (n > 1 => chain'[n - 1] = chain[n - 1])
    BY <1>1, <1>7, <1>8 DEF Behind, SameUpTo
  <2> QED
    BY <1>1, <1>7, <1>8, <2>1 DEF X509Inv, Kept, CertsCounted, Reading, X509Type
<1>10. ASSUME NEW oid PROVE Of(seen, oid) = Of(Now, oid) \cup (IF ext.oid = oid THEN {ext} ELSE {})
  BY <1>5 DEF Of
<1>11. CASE NotCA
  <2>1. ctx'.err = "NOT_CA" /\ ctx.num_certs - 1 = n - 2 /\ n > 1
    BY <1>1, <1>6, <1>7, <1>8, <1>9, <1>11
  <2>2. ext \in Of(chain'[n], "basicConstraints")
    BY <1>7, <1>8, <1>10, <1>11
  <2>3. ~ext.ca \/ \E m \in ext.limit : m \in Nat /\ ~(m >= n - 2)
    BY <1>11, <2>1, ExtensionKind
  <2>4. ~MayIssue(n)'
    BY <2>2, <2>3 DEF MayIssue
  <2>5. Cause(ctx.err, n)'
    BY <2>1, <2>4 DEF Cause
  <2> QED
    BY <1>7, <1>9, <2>1, <2>5, Refuses DEF Defects
<1>12. CASE Forbidden
  <2>1. ctx'.err = "FORBIDDEN_KEY_USAGE" /\ (ctx.ee \/ n > 1)
    BY <1>1, <1>6, <1>7, <1>8, <1>9, <1>12
  <2>2. ext \in Of(chain'[n], "keyUsage")
    BY <1>7, <1>8, <1>10, <1>12
  <2>3. Cause(ctx.err, n)'
    BY <1>12, <2>1, <2>2 DEF Cause
  <2> QED
    BY <1>7, <1>9, <2>1, <2>3, Refuses DEF Defects
<1>13. CASE Critical
  <2>1. ctx'.err = "CRITICAL_EXTENSION"
    BY <1>6, <1>7, <1>13
  <2>2. ext \in Of(chain'[n], "unknown")
    BY <1>7, <1>8, <1>10, <1>13
  <2>3. Cause(ctx.err, n)'
    BY <1>13, <2>1, <2>2 DEF Cause
  <2> QED
    BY <1>7, <1>9, <2>1, <2>3, Refuses DEF Defects
<1>14. CASE ~(NotCA \/ Forbidden \/ Critical)
  <2>0. Good /\ ctx'.err = None
    BY <1>6, <1>7, <1>14 DEF Good, Running
  <2>1. Fresh(seen)'
    BY <1>1, <1>5, <1>6, <1>7 DEF Begun, Fresh, Early, Signed
  <2>2. GoodExts(seen, n)'
    <3>1. GoodExts(Now, n)
      BY <1>1, <1>7, <1>8 DEF Begun
    <3>2. /\ ext.oid = "unknown" => ~ext.critical
          /\ ext.oid = "keyUsage" => ext.uses # {} /\ (n > 1 => "certSign" \in ext.uses)
      BY <1>9, <1>14
    <3>4. (n > 1 /\ ext.oid = "basicConstraints") => ext.ca /\ \A m \in ext.limit : m >= n - 2
      <4>1. ctx.num_certs - 1 = n - 2
        BY <1>9
      <4> QED
        BY <1>9, <1>14, <4>1, ExtensionKind
    <3>3. \A e \in seen.exts : e \in Now.exts \/ e = ext
      BY <1>5
    <3> QED
      BY <3>1, <3>2, <3>3, <3>4 DEF GoodExts, Of
  <2>3. GoodKey(seen, n)'
    BY <1>1, <1>5, <1>7, <1>8, <1>9 DEF Begun, Late, GoodKey, SignedBy
  <2>4. /\ seen.now /\ ctx'.saved_dn = seen.issuer /\ ctx'.current_dn = seen.subject
        /\ n > 1 => seen.subject = chain'[n - 1].issuer
    BY <1>1, <1>5, <1>6, <1>7, <1>8, <1>9 DEF Begun, Early
  <2>5. n = 1 => (ctx'.eename <=> ctx'.server_name # None /\ NameMatches(seen)')
    <3>1. n = 1 => (ctx.eename <=> ctx.server_name # None /\ NameMatches(Now))
      BY <1>1, <1>7, <1>8 DEF Begun, Early
    <3>2. CASE ext.oid = "subjectAltName"
      BY <1>5, <1>6, <1>7, <1>9, <2>0, <3>2, ExtensionKind DEF NameMatches, Good
    <3>3. CASE ext.oid # "subjectAltName"
      BY <1>5, <1>6, <1>7, <1>9, <2>0, <3>1, <3>3 DEF NameMatches, Good
    <3> QED
      BY <3>2, <3>3
  <2>6. n > 1 => (ctx'.seenBC <=> Of(seen, "basicConstraints") # {})
    <3>1. n > 1 => (ctx.seenBC <=> Of(Now, "basicConstraints") # {})
      BY <1>1, <1>7, <1>8 DEF Begun, Late
    <3>2. CASE ext.oid = "basicConstraints"
      <4>1. ext \in Of(seen, "basicConstraints")
        BY <1>10, <3>2
      <4> QED
        BY <1>6, <1>7, <1>9, <2>0, <3>2, <4>1 DEF Good
    <3>3. CASE ext.oid # "basicConstraints"
      <4>1. Of(seen, "basicConstraints") = Of(Now, "basicConstraints")
        BY <1>10, <3>3
      <4> QED
        BY <1>6, <1>7, <1>9, <2>0, <3>1, <3>3, <4>1 DEF Good
    <3> QED
      BY <3>2, <3>3
  <2>7. Begun(seen, n)'
    BY <1>6, <1>7, <2>1, <2>2, <2>3, <2>4, <2>5, <2>6 DEF Begun, Early, Late, Signed, Of
  <2>8. n = 1 => ctx'.key_usages = UsesOf(seen)
    <3>1. CASE ext.oid = "keyUsage"
      BY <1>5, <1>6, <1>7, <1>9, <2>0, <3>1 DEF UsesOf, Good
    <3>2. CASE ext.oid # "keyUsage"
      BY <1>5, <1>6, <1>7, <1>8, <1>9, <2>0, <3>2, UsesKept DEF Good
    <3> QED
      BY <3>1, <3>2
  <2>9. n = 1 => ctx.pkey = chain'[1].key
    BY <1>1, <1>5, <1>7, <1>8 DEF X509Inv, Chosen, Late
  <2> QED
    BY <1>1, <1>6, <1>7, <1>8, <1>9, <2>0, <2>7, <2>8, <2>9, Proceeds
    DEF Good, Running, Reading, Early, Late, SameServer
<1> QED
  BY <1>11, <1>12, <1>13, <1>14

\* The end of the extensions: name of the server, direct trust, an authority or not.
LEMMA EndTbsInv == X509Inv /\ EndTbs => X509Inv'
<1> SUFFICES ASSUME X509Inv, xm_append("extensions", end_tbs(ctx), [Now EXCEPT !.tbs = TRUE])
             PROVE  X509Inv'
  BY DEF EndTbs
<1>1. /\ ctx \in Context /\ Now = chain[Len(chain)] /\ Now \in Certificate
      /\ Len(chain) \in Nat /\ Len(chain) > 0
  BY InCertificate DEF xm_append
<1> DEFINE WrongName == ctx.ee /\ ~ctx.eename /\ ctx.server_name # None
           Direct == ctx.ee /\ check_direct_trust(ctx)
           NotCA == ~ctx.ee /\ ~ctx.seenBC
<1>2. end_tbs(ctx) =
        IF WrongName THEN [ctx EXCEPT !.err = "BAD_SERVER_NAME"]
        ELSE IF Direct THEN [ctx EXCEPT !.err = "OK"]
        ELSE IF NotCA THEN [ctx EXCEPT !.err = "NOT_CA"]
        ELSE [ctx EXCEPT !.at = "signature algorithm"]
  BY DEF end_tbs, fail
<1> HIDE DEF WrongName, Direct, NotCA
<1>3. PICK c \in Context : c = end_tbs(ctx)
  <2>1. /\ {"BAD_SERVER_NAME", "NOT_CA"} \subseteq Defects /\ "OK" \in Answers
        /\ "signature algorithm" \in Late
    BY DEF Defects, Answers, Late
  <2> QED
    BY <1>1, <1>2, <2>1 DEF Context
<1>4. PICK seen \in Certificate : seen = [Now EXCEPT !.tbs = TRUE]
  BY <1>1 DEF Certificate
<1>5. /\ X509Type' /\ CertsCounted' /\ Running /\ Reading /\ ctx' = c
      /\ ctx.at = "extensions" /\ caller' = "certificate" /\ Len(chain') = Len(chain)
      /\ chain'[Len(chain)] = seen /\ SameUpTo(Len(chain) - 1) /\ chain' # <<>>
      /\ Begun(chain[Len(chain)], Len(chain))
  <2>1. c.num_certs = ctx.num_certs
    BY <1>1, <1>2, <1>3 DEF Context
  <2> QED
    BY <1>3, <1>4, <2>1, Appended
<1>6. PICK n \in Nat : n = Len(chain)
  BY <1>1
<1>7. /\ ctx.ee <=> n = 1
      /\ n > 0 /\ n \in DOMAIN chain' /\ chain'[n] = seen
      /\ n > 1 => chain'[n - 1] = chain[n - 1]
  <2>1. Behind = n - 1 /\ (n > 1 => chain'[n - 1] = chain[n - 1])
    BY <1>1, <1>5, <1>6 DEF Behind, SameUpTo
  <2> QED
    BY <1>1, <1>5, <1>6, <2>1 DEF X509Inv, Kept, X509Type
<1>8. /\ seen.tbs /\ seen.issuer = Now.issuer /\ seen.now = Now.now /\ seen.subject = Now.subject
      /\ seen.cn = Now.cn /\ seen.key = Now.key /\ seen.exts = Now.exts /\ seen.san = Now.san
      /\ seen.uses = Now.uses /\ seen.type = Now.type /\ seen.signer = Now.signer
      /\ seen.whole = Now.whole
  BY <1>1, <1>4 DEF Certificate
<1>9. /\ ctx'.err = IF WrongName THEN "BAD_SERVER_NAME" ELSE IF Direct THEN "OK"
                    ELSE IF NotCA THEN "NOT_CA" ELSE ctx.err
      /\ ctx'.cert_length = ctx.cert_length /\ ctx'.ee = ctx.ee /\ ctx'.saved_dn = ctx.saved_dn
      /\ ctx'.current_dn = ctx.current_dn /\ ctx'.eename = ctx.eename
      /\ ctx'.seenBC = ctx.seenBC /\ ctx'.pkey = ctx.pkey /\ ctx'.key_usages = ctx.key_usages
      /\ ctx'.server_name = ctx.server_name
      /\ ctx'.err = ctx.err => ctx'.at = "signature algorithm"
  <2>1. ctx.err = "none"
    BY <1>5 DEF Running, None
  <2>2. CASE WrongName
    BY <1>1, <1>2, <1>3, <1>5, <2>1, <2>2 DEF Context
  <2>3. CASE ~WrongName /\ Direct
    BY <1>1, <1>2, <1>3, <1>5, <2>1, <2>3 DEF Context
  <2>4. CASE ~WrongName /\ ~Direct /\ NotCA
    BY <1>1, <1>2, <1>3, <1>5, <2>1, <2>4 DEF Context
  <2>5. CASE ~WrongName /\ ~Direct /\ ~NotCA
    <3>1. ctx' = [ctx EXCEPT !.at = "signature algorithm"]
      BY <1>2, <1>3, <1>5, <2>5
    <3> QED
      BY <1>1, <2>5, <3>1 DEF Context
  <2> QED
    BY <2>2, <2>3, <2>4, <2>5
\* What is known of the certificate.
<1>10. GoodExts(seen, n)' /\ GoodKey(seen, n)'
  <2>1. GoodExts(Now, n) /\ GoodKey(Now, n)
    BY <1>1, <1>5, <1>6 DEF Begun, Late
  <2> QED
    BY <1>7, <1>8, <2>1 DEF GoodExts, GoodKey, Of, SignedBy
<1>11. /\ seen.now /\ ctx.saved_dn = seen.issuer /\ ctx.current_dn = seen.subject
       /\ n > 1 => seen.subject = chain'[n - 1].issuer
       /\ n = 1 => ctx.pkey = seen.key
  BY <1>1, <1>5, <1>6, <1>7, <1>8 DEF X509Inv, Chosen, Begun, Early, Late
<1>12. n = 1 => (ctx.eename <=> ctx.server_name # None /\ NameMatches(seen)')
  <2>1. n = 1 => (ctx.eename <=> ctx.server_name # None /\ NameMatches(Now))
    BY <1>1, <1>5, <1>6 DEF Begun, Early
  <2> QED
    BY <1>8, <1>9, <2>1 DEF NameMatches
<1>13. n = 1 => ctx.key_usages = UsesOf(seen)
  BY <1>5, <1>6, <1>8, UsesKept
<1>14. n > 1 => (ctx.seenBC <=> Of(seen, "basicConstraints") # {})
  <2>1. n > 1 => (ctx.seenBC <=> Of(Now, "basicConstraints") # {})
    BY <1>1, <1>5, <1>6 DEF Begun, Late
  <2> QED
    BY <1>8, <2>1 DEF Of
<1>15. CASE WrongName
  <2>1. ctx'.err = "BAD_SERVER_NAME" /\ n = 1 /\ ~NameMatches(seen)'
    BY <1>7, <1>9, <1>12, <1>15 DEF WrongName, NameMatches
  <2>2. Cause(ctx.err, n)'
    BY <1>7, <2>1 DEF Cause, NameMatches
  <2> QED
    BY <1>5, <1>7, <2>1, <2>2, Refuses DEF Defects
<1>16. CASE ~WrongName /\ Direct
  <2>1. ctx'.err = "OK" /\ n = 1 /\ ctx.server_name = ctx'.server_name
    BY <1>7, <1>9, <1>16 DEF Direct
  <2>2. NameMatches(seen)'
    BY <1>7, <1>12, <1>16, <2>1 DEF WrongName, NameMatches
  <2>3. Plain(seen)
    BY <1>8, <1>10, <1>11 DEF Plain, GoodExts, GoodKey, Of
  <2>4. \E a \in Anchors : ~a.ca /\ a.dn = seen.subject /\ a.key = seen.key
    BY <1>11, <1>16, <2>1 DEF Direct, check_direct_trust
  <2>5. DirectlyTrusted'
    BY <1>5, <1>7, <2>1, <2>2, <2>3, <2>4 DEF DirectlyTrusted, Plain, Of, NameMatches
  <2>6. VerdictGiven'
    BY <2>1, <2>5 DEF VerdictGiven, AcceptedIsValid, RefusedForCause
  <2>7. Chosen'
    BY <1>5, <1>7, <1>9, <1>11, <1>13, <2>1 DEF Chosen, Running, None, UsesOf
  <2> QED
    BY <1>5, <2>1, <2>6, <2>7 DEF X509Inv, Kept, InHand, Running, None
<1>17. CASE ~WrongName /\ ~Direct /\ NotCA
  <2>1. ctx'.err = "NOT_CA"
    BY <1>9, <1>17
  <2>2. n > 1 /\ Of(seen, "basicConstraints") = {}
    BY <1>7, <1>14, <1>17 DEF NotCA
  <2>3. Cause(ctx.err, n)'
    BY <1>7, <2>1, <2>2 DEF Cause, MayIssue, Of
  <2> QED
    BY <1>5, <1>7, <2>1, <2>3, Refuses DEF Defects
<1>18. CASE ~WrongName /\ ~Direct /\ ~NotCA
  <2>1. ctx'.err = None /\ ctx'.at = "signature algorithm"
    BY <1>5, <1>9, <1>18 DEF Running
  <2>2. Fresh(seen)'
    BY <1>1, <1>5, <1>8, <2>1 DEF Begun, Fresh, Early, Signed
  <2>3. n = 1 => NameMatches(seen)' /\ ~DirectlyTrusted'
    <3>1. n = 1 => NameMatches(seen)'
      BY <1>7, <1>9, <1>12, <1>18 DEF WrongName, NameMatches
    <3>2. ASSUME n = 1, NEW a \in Anchors, ~a.ca, a.dn = seen.subject, a.key = seen.key
          PROVE  FALSE
      BY <1>7, <1>11, <1>18, <3>2 DEF Direct, check_direct_trust
    <3> QED
      BY <1>7, <3>1, <3>2 DEF DirectlyTrusted
  <2>4. n > 1 => ctx.seenBC
    BY <1>7, <1>18 DEF NotCA
  <2>5. Begun(seen, n)'
    BY <1>8, <1>9, <1>10, <1>11, <1>12, <1>14, <2>1, <2>2, <2>3, <2>4
    DEF Begun, Early, Late, Signed, Of
  <2> QED
    BY <1>1, <1>5, <1>6, <1>7, <1>9, <1>11, <1>13, <2>1, <2>5, Proceeds
    DEF Running, Reading, Early, Late, SameServer
<1> QED
  BY <1>15, <1>16, <1>17, <1>18

\* The algorithm of the signature.
LEMMA AlgorithmInv == X509Inv /\ Algorithm => X509Inv'
<1> SUFFICES ASSUME X509Inv, NEW alg \in Types,
                    xm_append("signature algorithm", read_signature_algorithm(ctx, alg),
                              [Now EXCEPT !.type = alg])
             PROVE  X509Inv'
  BY X509Assumption DEF Algorithm, Types, Range
<1>1. /\ ctx \in Context /\ Now = chain[Len(chain)] /\ Now \in Certificate
      /\ Len(chain) \in Nat /\ Len(chain) > 0
  BY InCertificate DEF xm_append
<1>2. read_signature_algorithm(ctx, alg) =
        IF alg = None THEN [ctx EXCEPT !.err = "UNSUPPORTED"]
        ELSE [ctx EXCEPT !.signer_type = alg, !.at = "signature"]
  BY DEF read_signature_algorithm, fail
<1>3. PICK c \in Context : c = read_signature_algorithm(ctx, alg)
  <2>1. "UNSUPPORTED" \in Defects /\ "signature" \in Late
    BY DEF Defects, Late
  <2> QED
    BY <1>1, <1>2, <2>1 DEF Context
<1>4. PICK seen \in Certificate : seen = [Now EXCEPT !.type = alg]
  BY <1>1 DEF Certificate
<1>5. /\ X509Type' /\ CertsCounted' /\ Running /\ Reading /\ ctx' = c
      /\ ctx.at = "signature algorithm" /\ caller' = "certificate" /\ Len(chain') = Len(chain)
      /\ chain'[Len(chain)] = seen /\ SameUpTo(Len(chain) - 1) /\ chain' # <<>>
      /\ Begun(chain[Len(chain)], Len(chain))
  <2>1. c.num_certs = ctx.num_certs
    BY <1>1, <1>2, <1>3 DEF Context
  <2> QED
    BY <1>3, <1>4, <2>1, Appended
<1>6. PICK n \in Nat : n = Len(chain)
  BY <1>1
<1>7. /\ n > 0 /\ n \in DOMAIN chain' /\ chain'[n] = seen
      /\ n > 1 => chain'[n - 1] = chain[n - 1]
  BY <1>1, <1>5, <1>6, InDomain
<1>8. /\ seen.type = alg /\ seen.issuer = Now.issuer /\ seen.now = Now.now
      /\ seen.subject = Now.subject /\ seen.cn = Now.cn /\ seen.key = Now.key
      /\ seen.exts = Now.exts /\ seen.san = Now.san /\ seen.uses = Now.uses
      /\ seen.tbs = Now.tbs /\ seen.signer = Now.signer /\ seen.whole = Now.whole
  BY <1>1, <1>4 DEF Certificate
<1>9. CASE alg = None
  <2>1. ctx'.err = "UNSUPPORTED"
    BY <1>1, <1>2, <1>3, <1>5, <1>9 DEF Context
  <2>2. Cause(ctx.err, n)'
    BY <1>7, <1>8, <1>9, <2>1 DEF Cause
  <2> QED
    BY <1>5, <1>7, <2>1, <2>2, Refuses DEF Defects
<1>10. CASE alg # None
  <2>1. /\ ctx'.at = "signature" /\ ctx'.err = ctx.err /\ ctx'.cert_length = ctx.cert_length
        /\ ctx'.ee = ctx.ee /\ ctx'.saved_dn = ctx.saved_dn /\ ctx'.current_dn = ctx.current_dn
        /\ ctx'.eename = ctx.eename /\ ctx'.seenBC = ctx.seenBC /\ ctx'.signer_type = alg
        /\ ctx'.pkey = ctx.pkey /\ ctx'.key_usages = ctx.key_usages
        /\ ctx'.server_name = ctx.server_name
    BY ZenonT(60), <1>1, <1>2, <1>3, <1>5, <1>10 DEF Context
  <2>2. Fresh(seen)'
    BY <1>1, <1>5, <1>8, <2>1 DEF Begun, Fresh, Early, Signed
  <2>3. GoodExts(seen, n)' /\ GoodKey(seen, n)'
    <3>1. GoodExts(Now, n) /\ GoodKey(Now, n)
      BY <1>1, <1>5, <1>6 DEF Begun, Late
    <3> QED
      BY <1>7, <1>8, <3>1 DEF GoodExts, GoodKey, Of, SignedBy
  <2>4. /\ seen.now /\ seen.tbs /\ ctx.saved_dn = seen.issuer /\ ctx.current_dn = seen.subject
        /\ n > 1 => seen.subject = chain'[n - 1].issuer /\ ctx.seenBC
        /\ n = 1 => ctx.pkey = seen.key
    BY <1>1, <1>5, <1>6, <1>7, <1>8 DEF X509Inv, Chosen, Begun, Early, Late, Signed
  <2>5. n = 1 => (ctx.eename <=> ctx.server_name # None /\ NameMatches(seen)')
    <3>1. n = 1 => (ctx.eename <=> ctx.server_name # None /\ NameMatches(Now))
      BY <1>1, <1>5, <1>6 DEF Begun, Early
    <3> QED
      BY <1>8, <2>1, <3>1 DEF NameMatches
  <2>6. n > 1 => (ctx.seenBC <=> Of(seen, "basicConstraints") # {})
    <3>1. n > 1 => (ctx.seenBC <=> Of(Now, "basicConstraints") # {})
      BY <1>1, <1>5, <1>6 DEF Begun, Late
    <3> QED
      BY <1>8, <3>1 DEF Of
  <2>7. n = 1 => NameMatches(seen)' /\ ~DirectlyTrusted'
    <3>1. n = 1 => NameMatches(Now) /\ ~DirectlyTrusted /\ chain[1] = Now
      BY <1>1, <1>5, <1>6 DEF Begun, Signed
    <3>4. chain # <<>>
      BY <1>5 DEF Reading, X509Inv, CertsCounted
    <3>2. n = 1 => NameMatches(seen)'
      BY <1>8, <2>1, <3>1 DEF NameMatches
    <3>3. ASSUME n = 1, DirectlyTrusted' PROVE FALSE
      <4>1. chain'[1] = seen /\ chain[1] = Now
        BY <1>7, <3>1, <3>3
      <4>2. Plain(seen) /\ \E a \in Anchors : ~a.ca /\ a.dn = seen.subject /\ a.key = seen.key
        BY <3>3, <4>1 DEF DirectlyTrusted, Plain, Of
      <4>3. Plain(Now)
        BY <1>8, <4>2 DEF Plain, Of
      <4> QED
        BY <1>8, <3>1, <3>3, <3>4, <4>1, <4>2, <4>3 DEF DirectlyTrusted
    <3> QED
      BY <3>2, <3>3
  <2>8. Begun(seen, n)'
    BY <1>8, <1>10, <2>1, <2>2, <2>3, <2>4, <2>5, <2>6, <2>7 DEF Begun, Early, Late, Signed, Of
  <2>9. n = 1 => ctx.key_usages = UsesOf(seen)
    BY <1>5, <1>6, <1>8, UsesKept
  <2> QED
    BY <1>1, <1>5, <1>6, <1>7, <2>1, <2>4, <2>8, <2>9, Proceeds
    DEF Running, Reading, Early, Late, SameServer
<1> QED
  BY <1>9, <1>10

\* The signature, the end of the certificate, and the search for an anchor.
LEMMA SignatureInv == X509Inv /\ Signature => X509Inv'
<1> SUFFICES ASSUME X509Inv, NEW key \in Keys,
                    xm_append("signature", read_signature(ctx, key),
                              [Now EXCEPT !.signer = key, !.whole = TRUE])
             PROVE  X509Inv'
  BY DEF Signature
<1>1. /\ ctx \in Context /\ Now = chain[Len(chain)] /\ Now \in Certificate
      /\ Len(chain) \in Nat /\ Len(chain) > 0
  BY InCertificate DEF xm_append
<1>2. PICK r : r = [ctx EXCEPT !.cert_sig = key, !.cert_length = FALSE, !.ee = FALSE, !.at = "issuer"]
  OBVIOUS
<1>3. /\ r \in Context /\ r.cert_sig = key /\ ~r.cert_length /\ ~r.ee /\ r.at = "issuer"
      /\ r.err = ctx.err /\ r.num_certs = ctx.num_certs /\ r.saved_dn = ctx.saved_dn
      /\ r.signer_type = ctx.signer_type /\ r.pkey = ctx.pkey /\ r.key_usages = ctx.key_usages
      /\ r.server_name = ctx.server_name
  BY <1>1, <1>2 DEF Context, MaybeKey, Early
<1> DEFINE Known == \E a \in Anchors : a.ca /\ a.dn = r.saved_dn /\ KeyType[a.key] = r.signer_type
                                      /\ r.cert_sig = a.key
<1>4. read_signature(ctx, key) = IF Known THEN [r EXCEPT !.err = "OK"] ELSE r
  BY <1>2 DEF read_signature, check_trust_anchor_CA, verify_signature, None
<1> HIDE DEF Known
<1>5. PICK c \in Context : c = read_signature(ctx, key)
  <2>1. "OK" \in Answers
    BY DEF Answers
  <2> QED
    BY <1>3, <1>4, <2>1 DEF Context
<1>6. PICK seen \in Certificate : seen = [Now EXCEPT !.signer = key, !.whole = TRUE]
  BY <1>1 DEF Certificate, MaybeKey
<1>7. /\ X509Type' /\ CertsCounted' /\ Running /\ Reading /\ ctx' = c
      /\ ctx.at = "signature" /\ caller' = "certificate" /\ Len(chain') = Len(chain)
      /\ chain'[Len(chain)] = seen /\ SameUpTo(Len(chain) - 1) /\ chain' # <<>>
      /\ Begun(chain[Len(chain)], Len(chain))
  <2>1. c.num_certs = ctx.num_certs
    BY <1>3, <1>4, <1>5 DEF Context
  <2> QED
    BY <1>5, <1>6, <2>1, Appended
<1>8. PICK n \in Nat : n = Len(chain)
  BY <1>1
<1>9. PICK k \in Nat : k = n - 1
  BY <1>1, <1>8
<1>10. /\ ctx' = (IF Known THEN [r EXCEPT !.err = "OK"] ELSE r)
       /\ ctx'.err = (IF Known THEN "OK" ELSE ctx.err) /\ ~ctx'.cert_length /\ ~ctx'.ee
       /\ ctx'.at = "issuer" /\ ctx'.cert_sig = key /\ ctx'.saved_dn = ctx.saved_dn
       /\ ctx'.signer_type = ctx.signer_type /\ ctx'.pkey = ctx.pkey
       /\ ctx'.key_usages = ctx.key_usages /\ SameServer
  BY <1>3, <1>4, <1>5, <1>7 DEF Context, SameServer
<1>11. /\ seen.signer = key /\ seen.whole /\ seen.issuer = Now.issuer /\ seen.now = Now.now
       /\ seen.subject = Now.subject /\ seen.cn = Now.cn /\ seen.key = Now.key
       /\ seen.exts = Now.exts /\ seen.san = Now.san /\ seen.uses = Now.uses
       /\ seen.tbs = Now.tbs /\ seen.type = Now.type
  BY <1>1, <1>6 DEF Certificate
<1>12. /\ n > 0 /\ n \in DOMAIN chain' /\ chain'[n] = seen /\ chain' # <<>> /\ Behind = k
       /\ k > 0 => chain'[k] = chain[k]
  BY <1>1, <1>7, <1>8, <1>9 DEF SameUpTo, Behind, X509Type
<1>13. ASSUME k > 0
       PROVE  /\ ValidUpTo(k)' /\ ~DirectlyTrusted' /\ \A i \in 1..k : ~Anchored(chain'[i])
              /\ chain # <<>> /\ chain'[1] = chain[1]
  <2>1. SameUpTo(k) /\ k <= Len(chain) /\ k <= Len(chain')
    BY <1>1, <1>7, <1>8, <1>9
  <2> QED
    BY <1>7, <1>10, <1>12, <1>13, <2>1, BehindKept
\* What is known of the certificate.
<1>14. GoodExts(seen, n) /\ GoodKey(seen, n)' /\ Plain(seen) /\ seen.type # None
  <2>1. GoodExts(Now, n) /\ GoodKey(Now, n) /\ Now.tbs /\ Now.now /\ Now.type # None
    BY <1>1, <1>7, <1>8 DEF Begun, Early, Late, Signed
  <2>2. GoodExts(seen, n)
    BY <1>11, <2>1 DEF GoodExts, Of
  <2>3. GoodKey(seen, n)'
    BY <1>9, <1>11, <1>12, <2>1 DEF GoodKey, SignedBy
  <2> QED
    BY <1>11, <2>1, <2>2, <2>3 DEF Plain, GoodExts, GoodKey, Of
<1>15. /\ ctx.saved_dn = seen.issuer /\ seen.type = ctx.signer_type
       /\ ctx.pkey = chain'[1].key /\ ctx.key_usages = UsesOf(chain'[1])
  <2>1. ctx.saved_dn = Now.issuer /\ Now.type = ctx.signer_type
    BY <1>1, <1>7 DEF Begun, Early
  <2>2. ctx.pkey = chain[1].key /\ ctx.key_usages = UsesOf(chain[1])
    BY <1>1, <1>7 DEF X509Inv, Chosen, Late
  <2>3. chain'[1].key = chain[1].key /\ chain'[1].uses = chain[1].uses
    BY <1>1, <1>8, <1>9, <1>11, <1>12, <1>13
  <2> QED
    BY <1>11, <2>1, <2>2, <2>3 DEF UsesOf
<1>16. n = 1 => NameMatches(seen)' /\ ~DirectlyTrusted'
  <2>1. n = 1 => NameMatches(Now) /\ ~DirectlyTrusted /\ chain[1] = Now
    BY <1>1, <1>7, <1>8 DEF Begun, Signed
  <2>4. chain # <<>>
    BY <1>7 DEF Reading, X509Inv, CertsCounted
  <2>2. n = 1 => NameMatches(seen)'
    BY <1>10, <1>11, <2>1 DEF NameMatches, SameServer
  <2>3. ASSUME n = 1, DirectlyTrusted' PROVE FALSE
    <3>1. chain'[1] = seen /\ chain[1] = Now
      BY <1>12, <2>1, <2>3
    <3>2. Plain(seen) /\ \E a \in Anchors : ~a.ca /\ a.dn = seen.subject /\ a.key = seen.key
      BY <2>3, <3>1 DEF DirectlyTrusted, Plain, Of
    <3>3. Plain(Now)
      BY <1>11, <3>2 DEF Plain, Of
    <3> QED
      BY <1>11, <2>1, <2>3, <2>4, <3>1, <3>2, <3>3 DEF DirectlyTrusted
  <2> QED
    BY <2>2, <2>3
<1>17. ValidUpTo(n)'
  <2>1. NameMatches(chain[1])'
    BY <1>9, <1>12, <1>13, <1>16 DEF ValidUpTo
  <2>2. ASSUME NEW i \in 1..n PROVE (Plain(chain[i]) /\ chain[i].whole /\ chain[i].type # None)'
    <3>1. CASE i = n
      BY <1>11, <1>12, <1>14, <3>1 DEF Plain, Of
    <3>2. CASE i # n
      BY <1>9, <1>13, <3>2 DEF ValidUpTo
    <3> QED
      BY <3>1, <3>2
  <2>3. ASSUME NEW i \in 2..n
        PROVE  (MayIssue(i) /\ chain[i].subject = chain[i - 1].issuer
                /\ SignedBy(chain[i - 1], chain[i].key))'
    <3>1. CASE i = n
      <4>1. chain'[i] = seen /\ chain'[i - 1] = chain[i - 1] /\ n > 1
        BY <1>9, <1>12, <3>1
      <4>2. Of(seen, "basicConstraints") # {}
        <5>1. Of(Now, "basicConstraints") # {}
          BY <1>1, <1>7, <1>8, <4>1 DEF Begun, Late, Signed
        <5> QED
          BY <1>11, <5>1 DEF Of
      <4>3. MayIssue(i)'
        BY <1>14, <3>1, <4>1, <4>2 DEF MayIssue, GoodExts, Of
      <4>4. seen.subject = chain[i - 1].issuer
        BY <1>1, <1>7, <1>8, <1>11, <3>1, <4>1 DEF Begun, Early
      <4>5. SignedBy(chain[i - 1], chain[i].key)'
        BY <1>14, <3>1, <4>1 DEF GoodKey
      <4> QED
        BY <4>1, <4>3, <4>4, <4>5
    <3>2. CASE i # n
      BY <1>9, <1>13, <3>2 DEF ValidUpTo
    <3> QED
      BY <3>1, <3>2
  <2> QED
    BY <2>1, <2>2, <2>3 DEF ValidUpTo
<1>18. Anchored(seen) <=> Known
  BY <1>3, <1>11, <1>15 DEF Anchored, SignedBy, Known
<1>19. CASE Known
  <2>1. ctx'.err = "OK"
    BY <1>10, <1>19
  <2>2. AcceptedIsValid'
    BY <1>12, <1>17, <1>18, <1>19 DEF AcceptedIsValid, Anchored, SignedBy
  <2>3. VerdictGiven'
    BY <2>1, <2>2 DEF VerdictGiven, RefusedForCause
  <2>4. Chosen'
    BY <1>10, <1>12, <1>15, <2>1 DEF Chosen, Running, None
  <2> QED
    BY <1>7, <2>1, <2>3, <2>4 DEF X509Inv, Kept, InHand, Running, None
<1>20. CASE ~Known
  <2>1. ctx'.err = None
    BY <1>7, <1>10, <1>20 DEF Running
  <2>2. ~Reading' /\ Behind' = n
    BY <1>7, <1>8, <1>10 DEF Reading, Behind
  <2>3. ~DirectlyTrusted'
    BY <1>9, <1>12, <1>13, <1>16
  <2>4. \A i \in 1..n : ~Anchored(chain'[i])
    <3>1. \A i \in 1..n : i = n \/ i \in 1..k
      BY <1>9
    <3> QED
      BY <1>9, <1>12, <1>13, <1>18, <1>20, <3>1
  <2>5. Kept'
    BY <1>7, <1>10, <1>11, <1>12, <1>15, <1>17, <2>2, <2>3, <2>4 DEF Kept
  <2>6. InHand' /\ Chosen'
    BY <1>7, <1>10, <1>12, <1>15, <2>1, <2>2 DEF InHand, Chosen, None
  <2>7. VerdictGiven'
    BY <2>1 DEF VerdictGiven, AcceptedIsValid, RefusedForCause, None
  <2> QED
    BY <1>7, <2>5, <2>6, <2>7 DEF X509Inv
<1> QED
  BY <1>19, <1>20

-----------------------------------------------------------------------------
(* The theorems.                                                           *)
\* A step that changes nothing.
LEMMA Stutters == X509Inv /\ UNCHANGED x509_vars => X509Inv'
<1> SUFFICES ASSUME X509Inv, UNCHANGED x509_vars PROVE X509Inv'
  OBVIOUS
<1>1. ctx' = ctx /\ caller' = caller /\ chain' = chain /\ certs' = certs
  BY DEF x509_vars
<1>2. X509Type' /\ CertsCounted'
  BY <1>1 DEF X509Inv, X509Type, CertsCounted
<1>3. DirectlyTrusted' = DirectlyTrusted /\ (\A k : ValidUpTo(k)' = ValidUpTo(k))
  BY <1>1 DEF DirectlyTrusted, ValidUpTo, Plain, Of, NameMatches, MayIssue, SignedBy
<1>4. Kept' /\ Chosen'
  BY <1>1, <1>3 DEF X509Inv, Kept, Chosen, Running, Reading, Behind, UsesOf, Anchored, SignedBy
<1>5. InHand'
  BY <1>1, <1>3
  DEF X509Inv, InHand, Running, Reading, Begun, Fresh, GoodExts, GoodKey, Of, SignedBy, NameMatches
<1>6. VerdictGiven'
  <2>1. AcceptedIsValid'
    BY <1>1, <1>3 DEF X509Inv, VerdictGiven, AcceptedIsValid, Anchored, SignedBy
  <2>2. \A err, i : Cause(err, i)' = Cause(err, i)
    BY <1>1 DEF Cause, MayIssue, Of, SignedBy, NameMatches
  <2>3. RefusedForCause'
    BY <1>1, <1>3, <2>2 DEF X509Inv, VerdictGiven, RefusedForCause, Anchored, SignedBy
  <2> QED
    BY <1>1, <2>1, <2>3 DEF X509Inv, VerdictGiven
<1> QED
  BY <1>2, <1>4, <1>5, <1>6 DEF X509Inv

\* The invariant holds for every chain, of any length, after any other chain.
THEOREM X509Invariant == X509Spec => []X509Inv
<1>1. X509Inv /\ [X509Next]_x509_vars => X509Inv'
  BY StartChainInv, StartCertInv, EndCertInv, EndChainInv, IssuerInv, ValidityInv, SubjectInv,
     KeyInv, ExtensionInv, EndTbsInv, AlgorithmInv, SignatureInv, Stutters DEF X509Next
<1> QED
  BY <1>1, X509Begins, PTL DEF X509Spec

\* A chain of any length that is accepted is valid as a whole.
THEOREM AlwaysAcceptedIsValid == X509Spec => []AcceptedIsValid
<1>1. X509Inv => AcceptedIsValid
  BY DEF X509Inv, VerdictGiven
<1> QED
  BY <1>1, X509Invariant, PTL

\* A chain is refused only for a defect it has.
THEOREM AlwaysRefusedForCause == X509Spec => []RefusedForCause
<1>1. X509Inv => RefusedForCause
  BY DEF X509Inv, VerdictGiven
<1> QED
  BY <1>1, X509Invariant, PTL

\* The key given to the handshake is that of the first certificate.
THEOREM AlwaysKeyOfEndEntity == X509Spec => []KeyOfEndEntity
<1>1. X509Inv => KeyOfEndEntity
  <2> SUFFICES ASSUME X509Inv, caller = "idle", NEW pk \in xm_get_pkey(ctx)
               PROVE  pk.key = chain[1].key /\ pk.usages = UsesOf(chain[1])
    BY DEF KeyOfEndEntity
  <2>1. ctx.err \in {"OK", "NOT_TRUSTED"} /\ pk = [key |-> ctx.pkey, usages |-> ctx.key_usages]
    BY DEF xm_get_pkey
  <2> QED
    BY <2>1 DEF X509Inv, Chosen
<1> QED
  BY <1>1, X509Invariant, PTL

\* No method changes a verdict, but for the start of another chain.
THEOREM VerdictAlwaysStands == X509Spec => VerdictStands
<1>1. X509Inv /\ [X509Next]_x509_vars =>
        [ctx.err # None /\ caller # "idle" => ctx'.err = ctx.err]_x509_vars
  <2> SUFFICES ASSUME X509Inv, X509Next, ctx.err # None, caller # "idle" PROVE ctx'.err = ctx.err
    OBVIOUS
  <2>1. ctx \in Context
    BY DEF X509Inv, X509Type
  <2>2. CASE xm_start_cert
    BY <2>2 DEF xm_start_cert
  <2>3. CASE xm_end_cert
    BY <2>1, <2>3 DEF xm_end_cert, Context
  <2>4. CASE xm_end_chain
    BY <2>4 DEF xm_end_chain
  <2>5. ~StartChain
    BY DEF StartChain
  <2>6. ~(Issuer \/ Validity \/ Subject \/ Key \/ Extension \/ EndTbs \/ Algorithm \/ Signature)
    BY DEF xm_append, Issuer, Validity, Subject, Key, Extension, EndTbs, Algorithm, Signature
  <2> QED
    BY <2>2, <2>3, <2>4, <2>5, <2>6 DEF X509Next
<1> QED
  BY <1>1, X509Invariant, PTL DEF X509Spec, VerdictStands
=============================================================================
