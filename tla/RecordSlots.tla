----------------------------- MODULE RecordSlots -----------------------------
(***************************************************************************)
(* What the record layer promises to the code above it, whatever the       *)
(* cipher and the chunks in which bytes come and go: each direction has    *)
(* one slot, which holds at most one record, and with a shared buffer at   *)
(* most one of the two slots is in use. RecordBuffers implements this.     *)
(***************************************************************************)
CONSTANT HalfDuplex   \* one buffer serves both directions

VARIABLES
  inSlot,    \* "idle"; "partial": more bytes are needed before anything can
             \* be read; "payload": there is something to read
  outSlot,   \* "idle"; "payload": being gathered; "record": to be sent
  dead       \* failed or closed

slots == <<inSlot, outSlot, dead>>

InStates == {"idle", "partial", "payload"}
OutStates == {"idle", "payload", "record"}

SlotsTypeOK ==
  /\ inSlot \in InStates
  /\ outSlot \in OutStates
  /\ dead \in BOOLEAN

SlotsInit == inSlot = "idle" /\ outSlot = "idle" /\ dead = FALSE

\* Bytes from the peer; an empty record leaves the slot idle.
Feed ==
  /\ ~dead
  /\ inSlot \in {"idle", "partial"}
  /\ HalfDuplex => outSlot = "idle"
  /\ inSlot' \in InStates
  /\ UNCHANGED <<outSlot, dead>>

\* Payload read by the application or by the handshake processor.
Read ==
  /\ ~dead
  /\ inSlot = "payload"
  /\ inSlot' \in InStates
  /\ UNCHANGED <<outSlot, dead>>

\* Payload written: gathered, or wrapped at once when the record is full.
Write ==
  /\ ~dead
  /\ outSlot \in {"idle", "payload"}
  /\ HalfDuplex => inSlot = "idle"
  /\ outSlot' \in {"payload", "record"}
  /\ UNCHANGED <<inSlot, dead>>

\* What was gathered becomes a record.
Seal ==
  /\ ~dead
  /\ outSlot = "payload"
  /\ outSlot' = "record"
  /\ UNCHANGED <<inSlot, dead>>

\* An empty record, on request.
SealEmpty ==
  /\ ~dead
  /\ outSlot = "idle"
  /\ HalfDuplex => inSlot = "idle"
  /\ outSlot' = "record"
  /\ UNCHANGED <<inSlot, dead>>

\* The last byte of a record is gone.
Sent ==
  /\ ~dead
  /\ outSlot = "record"
  /\ outSlot' = "idle"
  /\ UNCHANGED <<inSlot, dead>>

\* A failure; what the buffers hold no longer matters.
Die ==
  /\ ~dead
  /\ dead' = TRUE
  /\ inSlot' \in InStates
  /\ outSlot' \in OutStates

SlotsNext == Feed \/ Read \/ Write \/ Seal \/ SealEmpty \/ Sent \/ Die

SlotsSpec == SlotsInit /\ [][SlotsNext]_slots

\* With one buffer, what is received and what is sent never overlap.
OneSlotInUse == HalfDuplex => (inSlot = "idle" \/ outSlot = "idle")

=============================================================================
