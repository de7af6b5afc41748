----------------------------- MODULE CertStore -----------------------------
(***************************************************************************)
(* The process-wide array of trust anchors (BearTLS/wm_cert_store.c),      *)
(* filled on the first wm_tls_open from the file roots.pem and from the    *)
(* certificates compiled in.  The file is read twice: once to count its    *)
(* certificates, which sizes the array, and once to load them.  Another    *)
(* program may replace it in between.  Calls come from one thread.         *)
(***************************************************************************)
EXTENDS Integers, Sequences, FiniteSets

CONSTANTS
  Files,        \* what roots.pem may hold; <<>> also stands for no readable file
  Replaceable,  \* whether another program may replace it
  MaxExternal,  \* WM_MAX_EXTERNAL_ROOT_COUNT
  PublicCount,  \* WM_PUBLIC_ROOT_COUNT: certificates compiled in
  Decodable     \* those of them wm_build_anchor_from_der accepts

VARIABLES
  file,   \* roots.pem as it is on disk now
  store,  \* the globals: anchors, count, initialized
  call    \* the locals of wm_cert_store_init

vars == <<file, store, call>>

-----------------------------------------------------------------------------
\* A BEGIN marker and what follows it up to the next one.  An unended block
\* has no END marker; "ca" is a body that decodes to a CA certificate whose
\* name and key fit the storage of an anchor.
Block == [body : {"ca", "other"}, ended : BOOLEAN]

ASSUME FilesAssumption == Files \subseteq Seq(Block) /\ <<>> \in Files
ASSUME CountsAssumption ==
  /\ Replaceable \in BOOLEAN
  /\ MaxExternal \in Nat \ {0}
  /\ PublicCount \in Nat \ {0}
  /\ Decodable \subseteq 1..PublicCount

\* An anchor is named by where it comes from; Blank is a zeroed place.
Anchor == {"file", "built in"} \X Nat
Blank == <<"blank", 0>>

\* wm_cert_store_count_pem_certs
count_pem_certs(text) ==
  IF Len(text) < MaxExternal THEN Len(text) ELSE MaxExternal

\* The globals before the first call, and after a failed wm_cert_store_alloc.
NoStore == [anchors |-> <<>>, count |-> 0, initialized |-> FALSE]

Init ==
  /\ file \in Files
  /\ store = NoStore
  /\ call = [pc |-> "idle", external_count |-> 0, next |-> 0, text |-> <<>>,
             p |-> 1, i |-> 1]

\* g_trust_anchor_capacity
capacity == Len(store.anchors)

(* wm_build_anchor_from_der on the next place: it is cleared first, and kept
   and counted only if the certificate is accepted. *)
AddAnchor(anchor) ==
  store' = [store EXCEPT !.anchors[call.next + 1] = anchor, !.count = @ + 1]

ClearPlace_counted ==
  store' = [store EXCEPT !.anchors[call.next + 1] = Blank, !.count = @ + 1]

ClearPlace == store' = [store EXCEPT !.anchors[call.next + 1] = Blank]

-----------------------------------------------------------------------------
(* wm_cert_store_init.  A call after the first complete one returns 1. *)
CountRoots ==
  /\ call.pc = "idle" /\ ~store.initialized
  /\ \E text \in {file, <<>>} :   \* <<>>: the file cannot be opened or read
       call' = [call EXCEPT !.pc = "alloc", !.external_count = count_pem_certs(text)]
  /\ UNCHANGED <<file, store>>

\* Place for the larger of the two parts only.
Alloc_either ==
  /\ call.pc = "alloc"
  /\ \E size \in {PublicCount, call.external_count} :
       /\ size >= PublicCount /\ size >= call.external_count
       /\ store' = [store EXCEPT !.anchors = [k \in 1..size |-> Blank], !.count = 0]
  /\ call' = [call EXCEPT !.next = 0, !.i = 1, !.text = <<>>, !.p = 1,
       !.pc = IF call.external_count > 0 THEN "reopen" ELSE "builtin"]
  /\ UNCHANGED file

\* Place for all that are compiled in and all that were counted.
Alloc ==
  /\ call.pc = "alloc"
  /\ store' = [store EXCEPT
       !.anchors = [k \in 1..(PublicCount + call.external_count) |-> Blank],
       !.count = 0]
  /\ call' = [call EXCEPT !.next = 0, !.i = 1, !.text = <<>>, !.p = 1,
       !.pc = IF call.external_count > 0 THEN "reopen" ELSE "builtin"]
  /\ UNCHANGED file

\* HeapAlloc fails: the call returns 0, and a later one starts again.
AllocFails ==
  /\ call.pc = "alloc"
  /\ store' = [store EXCEPT !.anchors = <<>>]
  /\ call' = [call EXCEPT !.pc = "idle"]
  /\ UNCHANGED file

\* wm_cert_store_load_pem_roots reads the file again; it may fail.
Reopen ==
  /\ call.pc = "reopen"
  /\ \/ call' = [call EXCEPT !.pc = "load", !.text = file]
     \/ call' = [call EXCEPT !.pc = "builtin"]
  /\ UNCHANGED <<file, store>>

\* The block whose END marker ends the block at p.
IsFooter(q) ==
  /\ q \in call.p..Len(call.text) /\ call.text[q].ended
  /\ \A k \in call.p..(q - 1) : ~call.text[k].ended

(* One turn of the loading loop.  An unended block runs on to the END of a
   later one; what it decodes to with the text in between is anybody's guess. *)
LoadBlock ==
  /\ call.pc = "load" /\ call.next < capacity
  /\ \E q \in call.p..Len(call.text) :
       /\ IsFooter(q)
       /\ \/ /\ q = call.p => call.text[q].body = "ca"
             /\ AddAnchor(<<"file", call.p>>)
             /\ call' = [call EXCEPT !.p = q + 1, !.next = @ + 1]
          \/ /\ q = call.p => call.text[q].body # "ca"
             /\ ClearPlace
             /\ call' = [call EXCEPT !.p = q + 1]
  /\ UNCHANGED file

\* A block that does not decode ends the loop.
LoadEnds_at_bad ==
  /\ call.pc = "load"
  /\ \/ call.next >= capacity
     \/ \A q \in call.p..Len(call.text) : ~call.text[q].ended
     \/ call.p <= Len(call.text) /\ call.text[call.p].body # "ca"
  /\ call' = [call EXCEPT !.pc = "builtin"]
  /\ UNCHANGED <<file, store>>

\* The array is full, or no END marker is left.
LoadEnds ==
  /\ call.pc = "load"
  /\ \/ call.next >= capacity
     \/ \A q \in call.p..Len(call.text) : ~call.text[q].ended
  /\ call' = [call EXCEPT !.pc = "builtin"]
  /\ UNCHANGED <<file, store>>

\* One turn of the loop over WM_BUILTIN_ROOT_DERS or WM_EXTRA_ROOT_DERS.
AddBuiltin ==
  /\ call.pc = "builtin" /\ call.i <= PublicCount /\ call.next < capacity
  /\ IF call.i \in Decodable
       THEN /\ AddAnchor(<<"built in", call.i>>)
            /\ call' = [call EXCEPT !.i = @ + 1, !.next = @ + 1]
       ELSE ClearPlace /\ call' = [call EXCEPT !.i = @ + 1]
  /\ UNCHANGED file

\* What it returns, whether the store holds anything, is left out: a later call
\* returns 1 whatever it holds.
InitReturns ==
  /\ call.pc = "builtin" /\ (call.i > PublicCount \/ call.next >= capacity)
  /\ store' = [store EXCEPT !.initialized = TRUE]
  /\ call' = [call EXCEPT !.pc = "idle"]
  /\ UNCHANGED file

Work ==
  \/ Alloc \/ AllocFails \/ Reopen \/ LoadBlock \/ LoadEnds
  \/ AddBuiltin \/ InitReturns

\* Another program installs another roots.pem.
ReplaceFile == Replaceable /\ file' \in Files /\ UNCHANGED <<store, call>>

Next == CountRoots \/ Work \/ ReplaceFile

\* The steps of a running call go on; nobody has to make one.
Spec == Init /\ [][Next]_vars

-----------------------------------------------------------------------------
TypeOK ==
  /\ file \in Files
  /\ store \in [anchors : Seq(Anchor \cup {Blank}), count : Nat, initialized : BOOLEAN]
  /\ call \in [pc : {"idle", "alloc", "reopen", "load", "builtin"},
               external_count : 0..MaxExternal, next : Nat, text : Files,
               p : Nat \ {0}, i : 1..(PublicCount + 1)]

(* wm_tls_open gives the pointer and the count to the engine, which compares
   names and keys of that many places: each of them is inside the array and
   holds an anchor, whatever files the two readings saw. *)
NoBlankAnchor ==
  call.pc \in {"load", "builtin"} \/ store.initialized =>
    /\ store.count <= capacity
    /\ \A k \in 1..store.count : store.anchors[k] # Blank

Given == {store.anchors[k] : k \in 1..store.count}

(* The certificates compiled in are all there beside those of the file, unless
   the file held more blocks when it was loaded than were counted before. *)
FallbackKept ==
  store.initialized /\ Len(call.text) <= call.external_count =>
    \A j \in Decodable : <<"built in", j>> \in Given

(* A CA certificate of the file that was loaded is among the anchors however
   broken the blocks around it are, if the array was sized for that file.
   A block behind an unended one is lost with it. *)
EveryCaAdded ==
  store.initialized /\ Len(call.text) <= call.external_count =>
    \A k \in 1..Len(call.text) :
      /\ call.text[k] = [body |-> "ca", ended |-> TRUE]
      /\ k > 1 => call.text[k - 1].ended
      => <<"file", k>> \in Given
=============================================================================
