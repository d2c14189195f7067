---------------------------- MODULE OadTransfer ----------------------------
(***************************************************************************)
(* Files that a phone sends to the BLE coprocessor (bleware/src/oad.c):    *)
(* metadata takes the one transfer session, each payload is written at the *)
(* cursor into the external flash, sectors are erased ahead of it, and the *)
(* last payload decides.  File 0 is the bike's update pack; an accepted    *)
(* pack is ingested by event 0x13 of the coprocessor's own queue           *)
(* (pack_ingest.c).  The other files are sounds.                           *)
(*                                                                         *)
(* The flash is a row of cells; Sector of them are erased together, a file *)
(* slot is SlotCells long and a payload holds up to Chunk cells.  A cell   *)
(* holds <<file, version, position>>, Blank, or Spoilt when it was written *)
(* without having been erased.  A running CRC is the sequence it was taken *)
(* over.                                                                   *)
(***************************************************************************)
EXTENDS Integers, Sequences

CONSTANTS Phones,     \* connections that may send
          LastType,   \* the highest file type (0x20 in the code)
          Sector, SlotCells, Chunk,
          Sizes,      \* file sizes a phone announces
          MaxActs     \* how often phones and faults act

OadAssumption == /\ "none" \notin Phones
                 /\ Sector \in Nat \ {0} /\ SlotCells \in Nat \ {0} /\ SlotCells % Sector = 0
                 /\ Chunk \in 1..Sector - 1
                 /\ LastType \in Nat /\ MaxActs \in Nat /\ Sizes \subseteq Nat

VARIABLES owner,     \* conn_handle, or "none" for 0xFFFF
          taken,     \* the session semaphore
          file,      \* the announced file
          got,       \* what the CRC was taken over
          cursor,    \* flash_cursor - flash_base
          flash,
          sending,   \* what each phone is sending and has sent
          event,     \* the last status event posted
          ingest,    \* event 0x13 waits in the queue
          dropping,  \* links the stack was told to close
          acts

vars == <<owner, taken, file, got, cursor, flash, sending, event, ingest, dropping, acts>>

Blank == <<"blank">>
Spoilt == <<"spoilt">>
Types == 0..LastType + 1
Cells == 0..(LastType + 2) * SlotCells - 1
Base(ty) == ty * SlotCells
NoFile == [type |-> 0, size |-> 0, version |-> 0]
Version == acts     \* every transfer is a version of its own
Cell(f, i) == <<f.type, f.version, i>>
Whole(f) == \A i \in 0..f.size - 1 : flash[Base(f.type) + i] = Cell(f, i)
Expected(f) == [i \in 1..f.size |-> Cell(f, i - 1)]

Init == /\ owner = "none" /\ taken = FALSE
        /\ file = NoFile /\ got = <<>> /\ cursor = 0
        /\ flash = [a \in Cells |-> Cell([type |-> a \div SlotCells, version |-> 0], a % SlotCells)]
        /\ sending = [p \in Phones |-> NoFile]
        /\ event = "none" /\ ingest = FALSE
        /\ dropping = {} /\ acts = 0

(* oad_session_close: gives the semaphore back if it was taken             *)
CloseKeeping == UNCHANGED taken /\ owner' = "none"
Close == taken' = FALSE /\ owner' = "none"
Refuse(p) == dropping' = dropping \cup {p}
Happens == acts < MaxActs /\ acts' = acts + 1

(***************************************************************************)
(* Metadata: the session is waited for 10 ms, whoever holds it             *)
(***************************************************************************)
Capacity(ty) == SlotCells
Fits(f) == f.type <= LastType /\ f.size <= Capacity(f.type)

Metadata(p, ty, n) ==
  LET f == [type |-> ty, size |-> n, version |-> Version + 1]
  IN /\ Happens /\ p \notin dropping
     /\ IF taken THEN Refuse(p) /\ UNCHANGED <<owner, taken, file, got, cursor, event, sending>>
        ELSE /\ file' = f /\ got' = <<>> /\ cursor' = 0
             /\ sending' = [sending EXCEPT ![p] = f]
             /\ IF Fits(f) THEN owner' = p /\ taken' = TRUE /\ event' = "started" /\ UNCHANGED dropping
                ELSE Close /\ Refuse(p) /\ UNCHANGED event
     /\ UNCHANGED <<flash, ingest>>

(***************************************************************************)
(* Payloads                                                                *)
(***************************************************************************)
Less(m, n) == IF m < n THEN m ELSE n
CrossesOnly(a, n) == (a + n) \div Sector # a \div Sector
Crosses(a, n) == (a + n) \div Sector # a \div Sector \/ a % Sector = 0
ErasedFrom(a) == IF a % Sector = 0 THEN a ELSE (a \div Sector + 1) * Sector
Erase(fl, a, n) == IF Crosses(a, n)
                   THEN [c \in Cells |-> IF c \in ErasedFrom(a)..ErasedFrom(a) + Sector - 1 THEN Blank ELSE fl[c]]
                   ELSE fl
Program(fl, a, d) == [c \in Cells |-> IF c \notin a..a + Len(d) - 1 THEN fl[c]
                                      ELSE IF fl[c] = Blank THEN d[c - a + 1] ELSE Spoilt]

(* the last payload: a pack is accepted or refused by its CRC, another     *)
(* file is announced to mainware as it is                                  *)
Verdict(f, g) == IF f.type # 0 THEN "stored" ELSE IF g = Expected(f) THEN "accepted" ELSE "bad"

Payload(p, d) ==
  LET a == Base(file.type) + cursor
      n == Less(Len(d), file.size - cursor)
      w == SubSeq(d, 1, n)
  IN /\ flash' = Program(Erase(flash, a, n), a, w)
     /\ got' = got \o w
     /\ cursor' = cursor + n
     /\ IF cursor + n < file.size THEN UNCHANGED <<owner, taken, event, ingest>>
        ELSE /\ Close
             /\ event' = Verdict(file, got \o w)
             /\ ingest' = (ingest \/ event' = "accepted")
     /\ UNCHANGED <<file, dropping>>

(* what a phone puts in a payload: what comes next, or, with a mistake,    *)
(* what comes after that                                                   *)
Data(f, from) == [i \in 1..Less(Chunk, f.size - from) |-> Cell(f, from + i - 1)]

Send(p) ==
  /\ sending[p] # NoFile /\ p \notin dropping /\ cursor < sending[p].size
  /\ \E slip \in {0} \cup {i \in {1} : acts < MaxActs /\ cursor + 1 < sending[p].size} :
       /\ acts' = acts + slip
       /\ IF owner # p THEN Refuse(p) /\ UNCHANGED <<owner, taken, file, got, cursor, flash, event, ingest>>
          ELSE Payload(p, Data(sending[p], cursor + slip))
  /\ UNCHANGED sending

(* the external flash does not answer when it is opened                    *)
OpenFails(p) == /\ Happens /\ owner = p /\ p \notin dropping
                /\ event' = "flash" /\ Close /\ Refuse(p)
                /\ UNCHANGED <<file, got, cursor, flash, sending, ingest>>

(***************************************************************************)
(* The end of a link (event 0x06, oad_close_for_conn), the session's clock *)
(* and the ingestion of an accepted pack                                   *)
(***************************************************************************)
LinkEnds(p) == /\ dropping' = dropping \ {p}
               /\ sending' = [sending EXCEPT ![p] = NoFile]
               /\ IF owner = p THEN Close /\ event' = "aborted" ELSE UNCHANGED <<owner, taken, event>>
               /\ UNCHANGED <<file, got, cursor, flash, ingest>>
Dropped(p) == p \in dropping /\ LinkEnds(p) /\ UNCHANGED acts
Leaves(p) == sending[p] # NoFile /\ p \notin dropping /\ Happens /\ LinkEnds(p)

Expire == /\ owner # "none" /\ Close
          /\ UNCHANGED <<file, got, cursor, flash, sending, event, ingest, dropping, acts>>

(* pack_ingest_start looks only for the pack's header, its first cell      *)
HasPack == flash[0] \notin {Blank, Spoilt}
Ingest == /\ ingest /\ ingest' = FALSE
          /\ event' = IF HasPack THEN "ready" ELSE "invalid"
          /\ UNCHANGED <<owner, taken, file, got, cursor, flash, sending, dropping, acts>>

Next == \/ \E p \in Phones, ty \in Types, n \in Sizes : Metadata(p, ty, n)
        \/ \E p \in Phones : Send(p)
        \/ \E p \in Phones : OpenFails(p)
        \/ \E p \in Phones : Dropped(p)
        \/ \E p \in Phones : Leaves(p)
        \/ Expire
        \/ Ingest

Fairness == WF_vars(Expire) /\ WF_vars(Ingest) /\ \A p \in Phones : WF_vars(Dropped(p))
Spec == Init /\ [][Next]_vars /\ Fairness

----------------------------------------------------------------------------
(* Values of the variables.                                                *)
TypeOK == /\ owner \in Phones \cup {"none"} /\ taken \in BOOLEAN
          /\ file.type \in Types /\ cursor \in 0..SlotCells
          /\ DOMAIN flash = Cells
          /\ event \in {"none", "started", "accepted", "bad", "stored", "flash", "aborted", "ready", "invalid"}
          /\ dropping \subseteq Phones /\ acts \in 0..MaxActs

(* A pack that was just accepted is in the flash from its first to its     *)
(* last cell: the sectors erased ahead of the cursor never take what was   *)
(* already written, no cell was written twice, and payloads that slipped   *)
(* are found by the CRC.                                                   *)
AcceptedIsWhole == (event = "accepted" /\ cursor > 0) => Whole(file)

=============================================================================
