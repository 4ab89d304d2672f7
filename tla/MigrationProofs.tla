----------------------------- MODULE MigrationProofs -----------------------------
(***************************************************************************)
(* The layout migrations and the script that drives them, for any number   *)
(* of vaults, counterparties and authorities: every account keeps a layout *)
(* its version byte allows, a vault enters V6 sound, the chain of hops     *)
(* keeps the terms of the vault, and the script adds nothing to what the   *)
(* hops do, however often it is killed and its transactions come late.     *)
(***************************************************************************)
EXTENDS FleetMigration, TLAPS, FiniteSetTheorems

\* What the bytes of an account can be: the version byte and the layout behind it
\* agree up to what migrate_v2_to_v3 (the byte alone) and a later initialize_vault
\* (V6 stamped 4) make of them; only the layouts without a version byte are short,
\* and told by their length; no session account is counted before V6.
Shape(i) ==
    /\ i.version \in {2, 3, 4, 5, 6, 255}
    /\ i.layout = 1 <=> i.version = 255
    /\ i.layout = 1 => \/ i.len = LegacyV1Len
                       \/ i.len = LegacyV15Len /\ i.authority # None
    /\ i.version # 6 => i.live_session_count = 0
    /\ i.layout # 1 => /\ i.len >= Size(6)
                       /\ i.authority # None
                       /\ i.cooling_off_seconds \in 0 .. MaxCooling
    /\ i.layout = 2 => i.len = Size(2)
    /\ i.version = 2 => i.layout = 2
    /\ i.version = 3 => i.layout \in {2, 3}
    /\ i.version = 4 => i.layout \in {4, 6}
    /\ i.version = 5 => i.layout = 5
    /\ i.version = 6 => /\ i.layout = 6
                        /\ i.len = Size(6)
                        /\ ~i.stale_tail
                        /\ i.active_session = None

\* The session accounts of a vault: none before V6, then the one that was carried.
SessionsMatch(i, row) ==
    /\ i.version # 6 => \A c \in Counterparties : row[c] = None
    /\ i.version = 6 =>
        \/ i.live_session_count = 0 /\ \A c \in Counterparties : row[c] = None
        \/ /\ i.live_session_count = 1
           /\ \E c \in Counterparties :
                /\ row[c] # None /\ row[c].allowed_counterparty = c
                /\ \A d \in Counterparties \ {c} : row[d] = None

SoundInv == TypeOK /\ \A v \in Vaults : Shape(image[v]) /\ SessionsMatch(image[v], carried[v])

\* What the fields of a layout cannot say yet: the hop that adds a field finds it
\* neutral.
Neutral(i) ==
    /\ i.layout = 1 => /\ i.authority = None <=> i.len = LegacyV1Len
                       /\ i.active_session = None
    /\ i.layout \in {1, 2, 3} => i.locked = 0
    /\ i.version \in {2, 3, 4, 255} => i.borrowed = 0
    /\ i.layout \in {2, 3} /\ i.active_session # None =>
           i.active_session.crystallized_cumulative = 0
    /\ i.layout = 6 => i.active_session = None

TermsInv == \A v \in Vaults : Neutral(image[v])

-----------------------------------------------------------------------------
(***************************************************************************)
(* The accounts the older builds left.                                     *)
(***************************************************************************)

LEMMA Sizes ==
  /\ Size(2) = 289 /\ Size(3) = 305 /\ Size(4) = 341 /\ Size(5) = 399 /\ Size(6) = 279
  BY DEF Size, RegistrationLen

\* The fields of an account, and an account put together from fields.
LEMMA ImageFields ==
  ASSUME NEW i \in Image
  PROVE  /\ i.len \in Nat /\ i.version \in Nat /\ i.layout \in 1 .. 6
         /\ i.stale_tail \in BOOLEAN /\ i.decodes \in SUBSET {5, 6}
         /\ i.authority \in Authorities \cup {LegacyAdmin, None}
         /\ i.pending_withdrawal \in Nat \cup {None}
         /\ i.cooling_off_seconds \in Int
         /\ i.active_session \in Registration \cup {None}
         /\ i.live_session_count \in Nat /\ i.locked \in Nat /\ i.borrowed \in Nat
  BY DEF Image

\* A record with the fields of an account and no others.
IsRecord(i) ==
    i = [len |-> i.len, version |-> i.version, layout |-> i.layout,
         stale_tail |-> i.stale_tail, decodes |-> i.decodes, authority |-> i.authority,
         pending_withdrawal |-> i.pending_withdrawal,
         cooling_off_seconds |-> i.cooling_off_seconds,
         active_session |-> i.active_session,
         live_session_count |-> i.live_session_count,
         locked |-> i.locked, borrowed |-> i.borrowed]

LEMMA ImageMember ==
  ASSUME NEW i, IsRecord(i),
         i.len \in Nat, i.version \in Nat, i.layout \in 1 .. 6, i.stale_tail \in BOOLEAN,
         i.decodes \in SUBSET {5, 6},
         i.authority \in Authorities \cup {LegacyAdmin, None},
         i.pending_withdrawal \in Nat \cup {None},
         i.cooling_off_seconds \in Int,
         i.active_session \in Registration \cup {None},
         i.live_session_count \in Nat, i.locked \in Nat, i.borrowed \in Nat
  PROVE  i \in Image
  BY DEF IsRecord, Image

LEMMA RegistrationsType ==
  ASSUME NEW layout \in 2 .. 5, NEW s \in Registrations(layout)
  PROVE  /\ s \in Registration \cup {None}
         /\ s # None /\ layout < 4 => s.crystallized_cumulative = 0
  <1> DEFINE capacities == IF layout >= 3 THEN Capacities ELSE {0}
             crystallized == IF layout >= 4 THEN Amounts ELSE {0}
  <1>1. CASE s = None
    BY <1>1
  <1>2. CASE s # None
    <2>1. capacities \subseteq Nat /\ crystallized \subseteq Nat
      BY MigrationsAssumption
    <2>2. s \in [allowed_counterparty : Counterparties, expires_at : 1 .. MaxTime,
                 spent : Spends, current_outstanding : {0},
                 max_revolving_capacity : capacities,
                 crystallized_cumulative : crystallized]
      BY <1>2 DEF Registrations
    <2>3. layout < 4 => crystallized = {0}
      OBVIOUS
    <2> HIDE DEF capacities, crystallized
    <2>4. s \in Registration
      <3>1. 1 .. MaxTime \subseteq Int /\ Spends \subseteq Nat /\ {0} \subseteq Nat
        BY MigrationsAssumption
      <3> QED BY <2>1, <2>2, <3>1 DEF Registration
    <2> QED BY <2>2, <2>3, <2>4
  <1> QED BY <1>1, <1>2

LEMMA WrittenShape ==
  ASSUME NEW layout \in 2 .. 5, NEW len \in Nat, len >= Size(6), layout = 2 => len = Size(2),
         NEW i \in Written(layout, len)
  PROVE  /\ i \in Image /\ Shape(i)
         /\ i.version = layout /\ i.layout = layout /\ i.live_session_count = 0
         /\ Neutral(i)
  <1>1. /\ i.len = len /\ i.version = layout /\ i.layout = layout
        /\ i.stale_tail \in BOOLEAN /\ i.decodes \in SUBSET {5, 6}
        /\ i.authority \in Authorities
        /\ i.pending_withdrawal \in Pendings \cup {None}
        /\ i.cooling_off_seconds = 0
        /\ i.active_session \in Registrations(layout)
        /\ i.live_session_count = 0
        /\ i.locked \in Nat /\ (layout < 4 => i.locked = 0)
        /\ i.borrowed \in Nat /\ (layout < 5 => i.borrowed = 0)
        /\ IsRecord(i)
    <2> DEFINE locks == IF layout >= 4 THEN Amounts ELSE {0}
               loans == IF layout >= 5 THEN Amounts ELSE {0}
    <2>1. locks \subseteq Nat /\ loans \subseteq Nat
      BY MigrationsAssumption
    <2>2. (layout < 4 => locks = {0}) /\ (layout < 5 => loans = {0})
      OBVIOUS
    <2>3. i \in [len : {len}, version : {layout}, layout : {layout},
                stale_tail : BOOLEAN, decodes : {{5}, {5, 6}}, authority : Authorities,
                pending_withdrawal : Pendings \cup {None},
                cooling_off_seconds : {0},
                active_session : Registrations(layout),
                live_session_count : {0},
                locked : locks, borrowed : loans]
      BY DEF Written
    <2> HIDE DEF locks, loans
    <2>4. {5} \in SUBSET {5, 6} /\ {5, 6} \in SUBSET {5, 6}
      OBVIOUS
    <2> QED BY <2>1, <2>2, <2>3, <2>4 DEF IsRecord
  <1>2. i.active_session \in Registration \cup {None}
    BY <1>1, RegistrationsType
  <1>3. i \in Image
    BY <1>1, <1>2, MigrationsAssumption DEF Image, IsRecord
  <1>4. Shape(i)
    BY <1>1, MigrationsAssumption DEF Shape
  <1>5. Neutral(i)
    BY <1>1, RegistrationsType DEF Neutral
  <1> QED BY <1>1, <1>3, <1>4, <1>5

LEMMA LegacyShape ==
  ASSUME NEW len \in Nat, NEW authorities \in SUBSET (Authorities \cup {None}),
         \/ len = LegacyV1Len
         \/ len = LegacyV15Len /\ None \notin authorities,
         NEW i \in Legacy(len, authorities)
  PROVE  /\ i \in Image /\ Shape(i)
         /\ i.version = 255 /\ i.layout = 1 /\ i.live_session_count = 0
         /\ i.authority \in authorities /\ i.len = len
         /\ i.active_session = None /\ i.locked = 0 /\ i.borrowed = 0
  <1>1. /\ i.len = len /\ i.version = 255 /\ i.layout = 1 /\ i.stale_tail \in BOOLEAN
        /\ i.decodes = {5, 6} /\ i.authority \in authorities
        /\ i.pending_withdrawal \in Pendings \cup {None}
        /\ i.cooling_off_seconds \in Coolings
        /\ i.active_session = None /\ i.live_session_count = 0
        /\ i.locked = 0 /\ i.borrowed = 0
        /\ IsRecord(i)
    BY DEF Legacy, IsRecord
  <1>2. /\ i.pending_withdrawal \in Nat \cup {None}
        /\ i.cooling_off_seconds \in Int
        /\ i.authority \in Authorities \cup {LegacyAdmin, None}
    BY <1>1, MigrationsAssumption
  <1>3. i \in Image
    <2>1. i.decodes \in SUBSET {5, 6}
      BY <1>1
    <2> QED BY <1>1, <1>2, <2>1, ImageMember
  <1> QED BY <1>1, <1>3 DEF Shape

LEMMA BornBrokenShape ==
  ASSUME NEW i \in BornBroken
  PROVE  i \in Image /\ Shape(i) /\ Neutral(i) /\ i.version = 4 /\ i.live_session_count = 0
  <1>1. PICK w \in Written(4, Size(4)) :
            /\ ~w.stale_tail /\ 6 \in w.decodes
            /\ i = [w EXCEPT !.len = Size(6), !.layout = 6, !.active_session = None, !.locked = 0]
    BY DEF BornBroken
  <1>2. /\ w \in Image /\ Shape(w) /\ Neutral(w)
        /\ w.version = 4 /\ w.layout = 4 /\ w.live_session_count = 0
    BY WrittenShape, Sizes
  <1>3. /\ i.len = 279 /\ i.layout = 6 /\ i.active_session = None
        /\ i.locked = 0 /\ i.version = w.version /\ i.authority = w.authority
        /\ i.cooling_off_seconds = w.cooling_off_seconds
        /\ i.borrowed = w.borrowed /\ i.live_session_count = w.live_session_count
        /\ i.pending_withdrawal = w.pending_withdrawal
    BY <1>1, <1>2, Sizes DEF Image
  <1>4. i.stale_tail \in BOOLEAN /\ i.decodes \in SUBSET {5, 6}
    BY <1>1, <1>2 DEF Image
  <1>5. IsRecord(i)
    <2> DEFINE n == Size(6)
    <2>1. i = [w EXCEPT !.len = n, !.layout = 6, !.active_session = None, !.locked = 0]
      BY <1>1
    <2> HIDE DEF n
    <2> QED BY <1>2, <2>1 DEF Image, IsRecord
  <1>6. i \in Image
    BY <1>2, <1>3, <1>4, <1>5, ImageFields, ImageMember
  <1> QED BY <1>2, <1>3, <1>6, Sizes DEF Shape, Neutral

LEMMA LeftShape ==
  ASSUME NEW era \in Eras, NEW i \in LeftBy(era)
  PROVE  /\ i \in Image /\ Shape(i)
         /\ i.version # 6
         /\ Neutral(i)
  <1> USE Sizes
  <1>1. CASE era = "V1"
    <2>1. i \in Legacy(151, {None})
      BY <1>1 DEF LeftBy, LegacyV1Len
    <2> QED BY <2>1, LegacyShape DEF Neutral, LegacyV1Len, LegacyV15Len
  <1>2. CASE era = "V1_5"
    <2>1. i \in Legacy(183, Authorities)
      BY <1>2 DEF LeftBy, LegacyV15Len
    <2> QED BY <2>1, LegacyShape, MigrationsAssumption DEF Neutral, LegacyV1Len, LegacyV15Len
  <1>3. CASE era = "V2"
    BY <1>3, WrittenShape DEF LeftBy
  <1>4. CASE era = "V2_shrunk"
    BY <1>4, WrittenShape DEF LeftBy
  <1>5. CASE era = "V3"
    BY <1>5, WrittenShape DEF LeftBy
  <1>6. CASE era = "V4"
    BY <1>6, WrittenShape DEF LeftBy
  <1>7. CASE era = "V5"
    BY <1>7, WrittenShape DEF LeftBy
  <1>8. CASE era = "pre_grown"
    BY <1>8, WrittenShape DEF LeftBy
  <1>9. CASE era = "born_broken"
    BY <1>9, BornBrokenShape DEF LeftBy
  <1> QED BY <1>1, <1>2, <1>3, <1>4, <1>5, <1>6, <1>7, <1>8, <1>9, MigrationsAssumption

LEMMA SoundInit == Init => SoundInv
  <1> SUFFICES ASSUME Init PROVE SoundInv
    OBVIOUS
  <1>1. ASSUME NEW v \in Vaults
        PROVE  image[v] \in Image /\ Shape(image[v]) /\ image[v].version # 6
    <2>1. PICK era \in Eras : image[v] \in LeftBy(era)
      BY DEF Init
    <2> QED BY <2>1, LeftShape
  <1>2. image \in [Vaults -> Image]
    BY <1>1 DEF Init
  <1>3. TypeOK
    BY <1>1, <1>2 DEF TypeOK, Init, Shape
  <1> QED BY <1>1, <1>3 DEF SoundInv, SessionsMatch, Init

LEMMA TermsInit == Init => TermsInv
  <1> SUFFICES ASSUME Init, NEW v \in Vaults PROVE Neutral(image[v])
    BY DEF TermsInv
  <1>1. PICK era \in Eras : image[v] \in LeftBy(era)
    BY DEF Init
  <1> QED BY <1>1, LeftShape

-----------------------------------------------------------------------------
(***************************************************************************)
(* What each hop makes of an account.                                      *)
(***************************************************************************)

\* The fields no hop but the last touches.
SameTerms(i, n) ==
    /\ n.authority = i.authority
    /\ n.pending_withdrawal = i.pending_withdrawal
    /\ n.cooling_off_seconds = i.cooling_off_seconds

LEMMA StampedV3 ==
  ASSUME NEW i \in Image, Shape(i), i.version = 2,
         NEW n, n = [i EXCEPT !.version = 3, !.len = Larger(@, Size(6))]
  PROVE  /\ n \in Image /\ Shape(n) /\ SameTerms(i, n)
         /\ n.version = 3 /\ n.layout = 2
         /\ n.active_session = i.active_session
         /\ n.locked = i.locked /\ n.borrowed = i.borrowed
         /\ n.stale_tail <=> i.stale_tail
  <1> DEFINE len == Larger(i.len, Size(6))
  <1>1. len \in Nat /\ len >= Size(6) /\ (i.len = Size(2) => len = Size(2))
    BY ImageFields, Sizes DEF Larger
  <1>2. n = [i EXCEPT !.version = 3, !.len = len]
    OBVIOUS
  <1> HIDE DEF len
  <1>3. /\ n.version = 3 /\ n.len = len /\ n.layout = i.layout
        /\ n.active_session = i.active_session
        /\ n.live_session_count = i.live_session_count
        /\ n.locked = i.locked /\ n.borrowed = i.borrowed
        /\ SameTerms(i, n)
    BY <1>2 DEF Image, SameTerms
  <1>4. /\ n.stale_tail \in BOOLEAN /\ (n.stale_tail <=> i.stale_tail)
        /\ n.decodes \in SUBSET {5, 6}
    BY <1>2 DEF Image
  <1>5. IsRecord(n)
    BY <1>2 DEF Image, IsRecord
  <1>6. n \in Image
    <2>1. /\ n.len \in Nat /\ n.version \in Nat /\ n.layout \in 1 .. 6
          /\ n.authority \in Authorities \cup {LegacyAdmin, None}
          /\ n.pending_withdrawal \in Nat \cup {None}
          /\ n.cooling_off_seconds \in Int
          /\ n.active_session \in Registration \cup {None}
          /\ n.live_session_count \in Nat /\ n.locked \in Nat /\ n.borrowed \in Nat
      BY <1>1, <1>3, ImageFields DEF SameTerms
    <2> QED BY <1>4, <1>5, <2>1, ImageMember
  <1> QED BY <1>1, <1>3, <1>4, <1>6 DEF Shape, SameTerms

Metered(s, outstanding, capacity) ==
    [s EXCEPT !.current_outstanding = outstanding, !.max_revolving_capacity = capacity]

\* What the session of an account may say.
Said(i) ==
    IF i.layout # 2 \/ i.active_session = None THEN {i.active_session}
    ELSE {Metered(i.active_session, outstanding, capacity) :
             outstanding \in BeyondPayload(i), capacity \in BeyondPayload(i)}

LEMMA MeteredType ==
  ASSUME NEW s \in Registration, NEW outstanding \in Nat, NEW capacity \in Nat
  PROVE  /\ Metered(s, outstanding, capacity) \in Registration
         /\ Metered(s, outstanding, capacity).crystallized_cumulative = s.crystallized_cumulative
  BY DEF Metered, Registration

LEMMA BeyondType ==
  ASSUME NEW i
  PROVE  BeyondPayload(i) \subseteq Nat /\ BeyondPayload(i) # {}
  BY MigrationsAssumption DEF BeyondPayload

\* VaultV3 over V2 bytes changes the two new meters at most.
LEMMA DecodedV3 ==
  ASSUME NEW i \in Image, Shape(i), i.version = 3, NEW r \in ReadV3(i)
  PROVE  /\ r \in Image /\ SameTerms(i, r)
         /\ r.locked = i.locked /\ r.borrowed = i.borrowed
         /\ r.live_session_count = i.live_session_count
         /\ r.len = i.len
         /\ r.active_session \in Said(i)
         /\ r.active_session # None =>
               /\ i.active_session # None
               /\ r.active_session.crystallized_cumulative
                     = i.active_session.crystallized_cumulative
  <1>0. i.layout \in {2, 3}
    BY DEF Shape
  <1>1. CASE r = i /\ (i.layout = 3 \/ i.active_session = None)
    BY <1>1 DEF SameTerms, Said
  <1>2. CASE ~(r = i /\ (i.layout = 3 \/ i.active_session = None))
    <2>1. i.layout = 2 /\ i.active_session # None /\ r \in ReadV2AsV3(i)
      BY <1>0, <1>2 DEF ReadV3, ReadV2AsV3
    <2>2. PICK outstanding \in BeyondPayload(i), capacity \in BeyondPayload(i) :
            r = WithNewMeters(i, outstanding, capacity)
      BY <2>1 DEF ReadV2AsV3
    <2>3. i.active_session \in Registration /\ outstanding \in Nat /\ capacity \in Nat
      BY <2>1, ImageFields, BeyondType
    <2> DEFINE s == Metered(i.active_session, outstanding, capacity)
    <2>4. /\ s \in Registration /\ s \in Said(i)
          /\ s.crystallized_cumulative = i.active_session.crystallized_cumulative
      <3>1. s \in Said(i)
        BY <2>1, <2>2 DEF Said
      <3> QED BY <2>3, <3>1, MeteredType
    <2>5. r = [i EXCEPT !.active_session = s]
      BY <2>2, <2>3 DEF Image, WithNewMeters, Metered
    <2> HIDE DEF s
    <2>6. r \in Image
      BY <2>4, <2>5 DEF Image
    <2>7. /\ r.locked = i.locked /\ r.borrowed = i.borrowed
          /\ r.live_session_count = i.live_session_count
          /\ r.len = i.len /\ r.active_session = s /\ SameTerms(i, r)
      BY <2>5 DEF Image, SameTerms
    <2> QED BY <2>1, <2>4, <2>6, <2>7
  <1> QED BY <1>1, <1>2

LEMMA MetersAdded ==
  ASSUME NEW s \in Registration \cup {None}
  PROVE  /\ WithLockMeters(s) \in Registration \cup {None}
         /\ s # None /\ s.crystallized_cumulative = 0 => WithLockMeters(s) = s
         /\ s = None => WithLockMeters(s) = None
  BY DEF WithLockMeters, Registration

LEMMA RewrittenV4 ==
  ASSUME NEW i \in Image, Shape(i), i.version = 3, NEW r \in ReadV3(i), NEW n,
         n = [r EXCEPT !.version = 4, !.layout = 4, !.len = Larger(@, Size(4)),
                       !.active_session = WithLockMeters(@), !.locked = 0]
  PROVE  /\ n \in Image /\ Shape(n) /\ SameTerms(i, n)
         /\ n.version = 4 /\ n.layout = 4
         /\ n.locked = 0 /\ n.borrowed = i.borrowed
         /\ Neutral(i) => n.active_session \in Said(i)
  <1> DEFINE len == Larger(r.len, Size(4))
             s == WithLockMeters(r.active_session)
  <1>1. r \in Image
    BY DecodedV3
  <1>2. len \in Nat /\ len >= Size(6)
    BY <1>1, ImageFields, Sizes DEF Larger
  <1>3. s \in Registration \cup {None}
    BY <1>1, ImageFields, MetersAdded
  <1>4. Neutral(i) => s \in Said(i)
    <2> SUFFICES ASSUME Neutral(i) PROVE s = r.active_session
      BY DecodedV3
    <2>1. i.layout \in {2, 3}
      BY DEF Shape
    <2>2. r.active_session # None => r.active_session.crystallized_cumulative = 0
      BY <2>1, DecodedV3 DEF Neutral
    <2> QED BY <1>1, <2>2, ImageFields, MetersAdded
  <1>5. n = [r EXCEPT !.version = 4, !.layout = 4, !.len = len, !.active_session = s, !.locked = 0]
    OBVIOUS
  <1> HIDE DEF len, s
  <1>6. /\ n.version = 4 /\ n.layout = 4 /\ n.len = len /\ n.active_session = s
        /\ n.locked = 0 /\ n.borrowed = r.borrowed
        /\ n.live_session_count = r.live_session_count
        /\ SameTerms(r, n)
    BY <1>1, <1>5 DEF Image, SameTerms
  <1>7. n.stale_tail \in BOOLEAN /\ n.decodes \in SUBSET {5, 6}
    BY <1>1, <1>5 DEF Image
  <1>8. IsRecord(n)
    BY <1>1, <1>5 DEF Image, IsRecord
  <1>9. n \in Image
    <2>1. /\ n.len \in Nat /\ n.version \in Nat /\ n.layout \in 1 .. 6
          /\ n.authority \in Authorities \cup {LegacyAdmin, None}
          /\ n.pending_withdrawal \in Nat \cup {None}
          /\ n.cooling_off_seconds \in Int
          /\ n.active_session \in Registration \cup {None}
          /\ n.live_session_count \in Nat /\ n.locked \in Nat /\ n.borrowed \in Nat
      BY <1>1, <1>2, <1>3, <1>6, ImageFields DEF SameTerms
    <2> QED BY <1>7, <1>8, <2>1, ImageMember
  <1>10. /\ SameTerms(i, n) /\ n.borrowed = i.borrowed
         /\ n.live_session_count = i.live_session_count
    BY <1>6, DecodedV3 DEF SameTerms
  <1>11. Shape(n)
    BY <1>2, <1>6, <1>10 DEF Shape, SameTerms
  <1> QED BY <1>4, <1>6, <1>9, <1>10, <1>11

InV5(i, decodes) ==
    [i EXCEPT !.version = 5, !.layout = 5, !.len = Larger(@, Size(5)),
              !.borrowed = 0, !.decodes = decodes]

LEMMA RewrittenV5 ==
  ASSUME NEW i \in Image, Shape(i), i.version = 4,
         NEW decodes \in SUBSET {5, 6}, NEW n, n = InV5(i, decodes)
  PROVE  /\ n \in Image /\ Shape(n) /\ SameTerms(i, n)
         /\ n.version = 5 /\ n.layout = 5
         /\ n.locked = i.locked /\ n.borrowed = 0
         /\ n.active_session = i.active_session
  <1> DEFINE len == Larger(i.len, Size(5))
  <1>2. len \in Nat /\ len >= Size(6)
    BY ImageFields, Sizes DEF Larger
  <1>3. n = [i EXCEPT !.version = 5, !.layout = 5, !.len = len, !.borrowed = 0,
                      !.decodes = decodes]
    BY DEF InV5
  <1> HIDE DEF len
  <1>4. /\ n.version = 5 /\ n.layout = 5 /\ n.len = len /\ n.active_session = i.active_session
        /\ n.locked = i.locked /\ n.borrowed = 0
        /\ n.live_session_count = i.live_session_count
        /\ SameTerms(i, n)
    BY <1>3 DEF Image, SameTerms
  <1>5. n.stale_tail \in BOOLEAN /\ n.decodes \in SUBSET {5, 6}
    BY <1>3 DEF Image
  <1>6. IsRecord(n)
    BY <1>3 DEF Image, IsRecord
  <1>7. n \in Image
    <2>1. /\ n.len \in Nat /\ n.version \in Nat /\ n.layout \in 1 .. 6
          /\ n.authority \in Authorities \cup {LegacyAdmin, None}
          /\ n.pending_withdrawal \in Nat \cup {None}
          /\ n.cooling_off_seconds \in Int
          /\ n.active_session \in Registration \cup {None}
          /\ n.live_session_count \in Nat /\ n.locked \in Nat /\ n.borrowed \in Nat
      BY <1>2, <1>4, ImageFields DEF SameTerms
    <2> QED BY <1>5, <1>6, <2>1, ImageMember
  <1> QED BY <1>2, <1>4, <1>7 DEF Shape, SameTerms

LEMMA RewrittenV6 ==
  ASSUME NEW i \in Image, NEW count \in Nat, NEW n, n = InV6(i, count)
  PROVE  /\ n \in Image /\ SameTerms(i, n)
         /\ n.version = 6 /\ n.layout = 6 /\ n.len = Size(6) /\ ~n.stale_tail
         /\ n.active_session = None /\ n.live_session_count = count
         /\ n.locked = i.locked /\ n.borrowed = i.borrowed
         /\ i.layout # 1 /\ Shape(i) => Shape(n)
  <1> DEFINE len == Size(6)
  <1>1. len \in Nat
    BY Sizes
  <1>2. n = [i EXCEPT !.version = 6, !.layout = 6, !.len = len, !.stale_tail = FALSE,
                      !.decodes = {5, 6}, !.active_session = None,
                      !.live_session_count = count]
    BY DEF InV6
  <1>3. n.len = Size(6)
    BY <1>2 DEF Image
  <1> HIDE DEF len
  <1>4. /\ n.version = 6 /\ n.layout = 6 /\ n.len = len /\ n.active_session = None
        /\ n.locked = i.locked /\ n.borrowed = i.borrowed
        /\ n.live_session_count = count /\ SameTerms(i, n)
    BY <1>2 DEF Image, SameTerms
  <1>5. n.stale_tail \in BOOLEAN /\ ~n.stale_tail /\ n.decodes \in SUBSET {5, 6}
    BY <1>2 DEF Image
  <1>6. IsRecord(n)
    BY <1>2 DEF Image, IsRecord
  <1>7. n \in Image
    BY <1>1, <1>4, <1>5, <1>6, ImageFields, ImageMember DEF SameTerms
  <1> QED BY <1>1, <1>3, <1>4, <1>5, <1>7, ImageFields DEF Shape, SameTerms

LEMMA ClampedType ==
  ASSUME NEW seconds \in Int
  PROVE  /\ Clamped(seconds) \in 0 .. MaxCooling
         /\ seconds \in 0 .. MaxCooling => Clamped(seconds) = seconds
  BY MigrationsAssumption DEF Clamped

LEMMA LegacyToV6 ==
  ASSUME NEW i \in Image, NEW authority \in Authorities \cup {LegacyAdmin}, NEW n,
         n = FromLegacy(i, authority)
  PROVE  /\ n \in Image /\ Shape(n)
         /\ n.version = 6 /\ n.layout = 6
         /\ n.active_session = None /\ n.live_session_count = 0
         /\ n.authority = authority
         /\ n.pending_withdrawal = i.pending_withdrawal
         /\ n.cooling_off_seconds = Clamped(i.cooling_off_seconds)
         /\ n.locked = 0 /\ n.borrowed = 0
  <1> DEFINE m == InV6(i, 0)
             cooling == Clamped(m.cooling_off_seconds)
  <1>1. /\ m \in Image /\ SameTerms(i, m)
        /\ m.version = 6 /\ m.layout = 6 /\ m.len = Size(6) /\ ~m.stale_tail
        /\ m.active_session = None /\ m.live_session_count = 0
    BY RewrittenV6
  <1>2. cooling \in 0 .. MaxCooling
    BY <1>1, ImageFields, ClampedType
  <1>3. n = [m EXCEPT !.authority = authority, !.cooling_off_seconds = cooling,
                      !.locked = 0, !.borrowed = 0]
    BY DEF FromLegacy
  <1>4. cooling = Clamped(i.cooling_off_seconds)
    BY <1>1 DEF SameTerms
  <1> HIDE DEF m, cooling
  <1>5. /\ n.version = 6 /\ n.layout = 6 /\ n.len = m.len /\ n.active_session = None
        /\ n.locked = 0 /\ n.borrowed = 0
        /\ n.live_session_count = 0
        /\ n.authority = authority /\ n.cooling_off_seconds = cooling
        /\ n.pending_withdrawal = m.pending_withdrawal
    BY <1>1, <1>3 DEF Image
  <1>6. n.stale_tail \in BOOLEAN /\ ~n.stale_tail /\ n.decodes \in SUBSET {5, 6}
    BY <1>1, <1>3 DEF Image
  <1>7. IsRecord(n)
    BY <1>1, <1>3 DEF Image, IsRecord
  <1>8. n \in Image
    <2>1. n.len \in Nat /\ n.cooling_off_seconds \in Int
      BY <1>1, <1>2, <1>5, ImageFields
    <2> QED BY <1>1, <1>5, <1>6, <1>7, <2>1, ImageFields, ImageMember
  <1>9. Shape(n)
    BY <1>1, <1>2, <1>5, <1>6, Sizes, MigrationsAssumption DEF Shape
  <1> QED BY <1>1, <1>4, <1>5, <1>8, <1>9 DEF SameTerms

\* A withdrawal over an inline session: the session, and the meters behind it, are
\* not what they were.
Spoilt(i, n) ==
    /\ i.version # 6 /\ i.active_session # None /\ n.active_session # None
    /\ i.pending_withdrawal = None <=> n.pending_withdrawal # None
    /\ n.active_session \in Registration
    /\ i.layout < 4 => n.active_session.crystallized_cumulative = 0 /\ n.locked = i.locked
    /\ i.layout < 5 => n.borrowed = i.borrowed

\* Any other step of the current program.
Unspoilt(i, n) ==
    /\ n.active_session = i.active_session
    /\ n.locked = i.locked /\ n.borrowed = i.borrowed
    /\ n.stale_tail <=> i.stale_tail

LEMMA OverwrittenType ==
  ASSUME NEW layout \in 1 .. 6, NEW c \in Counterparties, NEW t \in 0 .. MaxTime + 1,
         NEW x \in Leftovers
  PROVE  /\ Overwritten(layout, c, t, x) \in Registration
         /\ Overwritten(layout, c, t, x) # None
         /\ layout < 4 => Overwritten(layout, c, t, x).crystallized_cumulative = 0
  <1> DEFINE meter(n) == IF layout >= n THEN x ELSE 0
  <1>1. /\ \A n \in Nat : meter(n) \in Nat /\ (layout < n => meter(n) = 0)
        /\ t \in Int /\ x \in Nat
    BY MigrationsAssumption
  <1> HIDE DEF meter
  <1>2. Overwritten(layout, c, t, x) =
            [allowed_counterparty |-> c, expires_at |-> t, spent |-> x,
             current_outstanding |-> meter(3), max_revolving_capacity |-> meter(3),
             crystallized_cumulative |-> meter(4)]
    BY DEF Overwritten, meter
  <1>3. Overwritten(layout, c, t, x) \in Registration
    BY <1>1, <1>2 DEF Registration
  <1> QED BY <1>1, <1>2, <1>3, MigrationsAssumption

\* What the current program writes to an account it can read.
LEMMA RewrittenByV6 ==
  ASSUME NEW i \in Image, Shape(i), ReadsAsV6(i), NEW pending \in Nat \cup {None},
         NEW n \in WrittenBack(i, pending)
  PROVE  /\ n \in Image /\ Shape(n)
         /\ n.version = i.version /\ n.layout = i.layout /\ n.layout # 1
         /\ n.live_session_count = i.live_session_count
         /\ n.authority = i.authority
         /\ n.cooling_off_seconds = i.cooling_off_seconds
         /\ n.pending_withdrawal = pending
         /\ Unspoilt(i, n) \/ Spoilt(i, n)
         /\ i.active_session # None /\ (i.pending_withdrawal = None <=> pending # None)
                => Spoilt(i, n)
  <1> DEFINE j == [i EXCEPT !.pending_withdrawal = pending]
             moves == i.active_session # None /\ (i.pending_withdrawal = None <=> pending # None)
  <1>1. i.layout # 1
    BY DEF ReadsAsV6, Shape
  <1>2. CASE ~moves
    <2>1. n = j
      BY <1>2 DEF WrittenBack
    <2>2. /\ n.len = i.len /\ n.version = i.version /\ n.layout = i.layout
          /\ n.active_session = i.active_session
          /\ n.live_session_count = i.live_session_count
          /\ n.cooling_off_seconds = i.cooling_off_seconds
          /\ n.locked = i.locked /\ n.borrowed = i.borrowed
          /\ n.authority = i.authority /\ n.pending_withdrawal = pending
      BY <2>1 DEF Image
    <2>3. n.stale_tail <=> i.stale_tail
      BY <2>1 DEF Image
    <2>4. n \in Image
      BY <2>1 DEF Image
    <2> QED BY <1>1, <1>2, <2>2, <2>3, <2>4 DEF Shape, Unspoilt
  <1>3. CASE moves
    <2>1. j \in Image /\ j.layout = i.layout
      BY DEF Image
    <2>2. PICK c \in Counterparties, t \in 0 .. MaxTime + 1, x \in Leftovers,
               d \in {{6}, {5, 6}} : n = WrittenOver(j, c, t, x, d)
      <3>1. n \in {WrittenOver(j, c, t, x, d) :
                      c \in Counterparties, t \in 0 .. MaxTime + 1, x \in Leftovers,
                      d \in {{6}, {5, 6}}}
        BY <1>3, SMT DEF WrittenBack
      <3> HIDE DEF j
      <3> QED BY <3>1
    <2>3. n = [j EXCEPT !.active_session = Overwritten(j.layout, c, t, x),
                        !.locked = IF j.layout >= 4 THEN x ELSE @,
                        !.borrowed = IF j.layout >= 5 THEN x ELSE @,
                        !.decodes = IF j.layout >= 5 THEN d ELSE @]
      BY <2>2, Zenon DEF WrittenOver
    <2> DEFINE s == Overwritten(i.layout, c, t, x)
               locked == IF i.layout >= 4 THEN x ELSE i.locked
               borrowed == IF i.layout >= 5 THEN x ELSE i.borrowed
               decodes == IF i.layout >= 5 THEN d ELSE i.decodes
    <2>4. n = [i EXCEPT !.pending_withdrawal = pending, !.active_session = s,
                        !.locked = locked, !.borrowed = borrowed, !.decodes = decodes]
      BY <2>1, <2>3 DEF Image
    <2>5. /\ s \in Registration /\ s # None
          /\ i.layout < 4 => s.crystallized_cumulative = 0
      BY OverwrittenType, ImageFields
    <2>6. /\ locked \in Nat /\ borrowed \in Nat
          /\ i.layout < 4 => locked = i.locked
          /\ i.layout < 5 => borrowed = i.borrowed
      BY ImageFields, MigrationsAssumption
    <2>7. decodes \in SUBSET {5, 6}
      BY ImageFields
    <2> HIDE DEF s, locked, borrowed, decodes
    <2>8. /\ n.len = i.len /\ n.version = i.version /\ n.layout = i.layout
          /\ n.active_session = s /\ n.locked = locked /\ n.borrowed = borrowed
          /\ n.live_session_count = i.live_session_count
          /\ n.cooling_off_seconds = i.cooling_off_seconds
          /\ n.authority = i.authority /\ n.pending_withdrawal = pending
      BY <2>4 DEF Image
    <2>9. n \in Image
      BY <2>4, <2>5, <2>6, <2>7 DEF Image
    <2>10. i.version # 6
      BY <1>3 DEF Shape
    <2>11. Shape(n)
      BY <2>8, <2>10 DEF Shape
    <2>12. Spoilt(i, n)
      BY <1>3, <2>5, <2>6, <2>8, <2>10 DEF Spoilt
    <2> QED BY <1>1, <2>8, <2>9, <2>11, <2>12
  <1> QED BY <1>2, <1>3

\* The bytes a paid withdrawal leaves behind an inline session.
LEMMA LeftBehind ==
  ASSUME NEW i \in Image, Shape(i), i.active_session # None, NEW n,
         n = [i EXCEPT !.stale_tail = TRUE]
  PROVE  /\ n \in Image /\ Shape(n)
         /\ n.version = i.version /\ n.layout = i.layout
         /\ n.authority = i.authority
         /\ n.pending_withdrawal = i.pending_withdrawal
         /\ n.cooling_off_seconds = i.cooling_off_seconds
         /\ n.live_session_count = i.live_session_count
         /\ n.active_session = i.active_session
         /\ n.locked = i.locked /\ n.borrowed = i.borrowed
  BY DEF Image, Shape

LEMMA RotatedByV6 ==
  ASSUME NEW i \in Image, Shape(i), ReadsAsV6(i), NEW authority \in Authorities, NEW n,
         n = [i EXCEPT !.authority = authority]
  PROVE  /\ n \in Image /\ Shape(n)
         /\ n.version = i.version /\ n.layout = i.layout /\ n.layout # 1
         /\ n.live_session_count = i.live_session_count
         /\ n.authority = authority
         /\ n.pending_withdrawal = i.pending_withdrawal
         /\ n.cooling_off_seconds = i.cooling_off_seconds
         /\ Unspoilt(i, n)
  <1>1. /\ n.len = i.len /\ n.version = i.version /\ n.layout = i.layout
        /\ n.active_session = i.active_session
        /\ n.live_session_count = i.live_session_count
        /\ n.cooling_off_seconds = i.cooling_off_seconds
        /\ n.locked = i.locked /\ n.borrowed = i.borrowed
        /\ n.authority = authority /\ n.pending_withdrawal = i.pending_withdrawal
    BY DEF Image
  <1>2. n.stale_tail <=> i.stale_tail
    BY DEF Image
  <1>3. n \in Image
    BY DEF Image
  <1>4. i.layout # 1
    BY DEF ReadsAsV6, Shape
  <1> QED BY <1>1, <1>2, <1>3, <1>4, MigrationsAssumption DEF Shape, Unspoilt

-----------------------------------------------------------------------------
(***************************************************************************)
(* Every step keeps the accounts sound.                                    *)
(***************************************************************************)

LEMMA SoundPut ==
  ASSUME SoundInv, NEW v \in Vaults, NEW n \in Image, Shape(n),
         image' = [image EXCEPT ![v] = n],
         carried' \in [Vaults -> [Counterparties -> Registration \cup {None}]],
         \A u \in Vaults \ {v} : carried'[u] = carried[u],
         SessionsMatch(n, carried'[v]),
         now' = now
  PROVE  SoundInv'
  <1>1. image' \in [Vaults -> Image]
    BY DEF SoundInv, TypeOK
  <1>2. ASSUME NEW u \in Vaults
        PROVE  Shape(image'[u]) /\ SessionsMatch(image'[u], carried'[u])
    <2>1. CASE u = v
      BY <2>1 DEF SoundInv, TypeOK
    <2>2. CASE u # v
      BY <2>2 DEF SoundInv, TypeOK
    <2> QED BY <2>1, <2>2
  <1>3. TypeOK'
    BY <1>1, <1>2 DEF TypeOK, SoundInv, Shape
  <1> QED BY <1>2, <1>3 DEF SoundInv

\* The one account an instruction writes, and what it is before and after.
Step(v, i, n) ==
    /\ i = image[v] /\ i \in Image /\ Shape(i)
    /\ n \in Image /\ Shape(n)
    /\ image' = [image EXCEPT ![v] = n]

\* The fields of the account that a plain hop leaves alone.
LEMMA StepV2ToV3 ==
  ASSUME SoundInv, NEW v \in Vaults, NEW authority, MigrateV2ToV3(v, authority)
  PROVE  /\ SoundInv' /\ carried' = carried /\ now' = now
         /\ \E i, n : /\ Step(v, i, n) /\ SameTerms(i, n)
                      /\ i.version = 2 /\ n.version = 3 /\ n.layout = 2
                      /\ n.active_session = i.active_session
                      /\ n.locked = i.locked /\ n.borrowed = i.borrowed
                      /\ n.stale_tail <=> i.stale_tail
  <1> DEFINE i == image[v]
             n == [i EXCEPT !.version = 3, !.len = Larger(@, Size(6))]
  <1>1. i \in Image /\ Shape(i) /\ SessionsMatch(i, carried[v]) /\ i.version = 2
    BY DEF SoundInv, TypeOK, MigrateV2ToV3, V2Accepted
  <1>2. image' = [image EXCEPT ![v] = n]
    BY <1>1 DEF MigrateV2ToV3, SoundInv, TypeOK
  <1> HIDE DEF n
  <1>3. n = [i EXCEPT !.version = 3, !.len = Larger(@, Size(6))]
    BY DEF n
  <1> HIDE DEF i
  <1>4. /\ n \in Image /\ Shape(n) /\ SameTerms(i, n)
        /\ n.version = 3 /\ n.layout = 2
        /\ n.active_session = i.active_session
        /\ n.locked = i.locked /\ n.borrowed = i.borrowed
        /\ n.stale_tail <=> i.stale_tail
    BY <1>1, <1>3, StampedV3
  <1>5. SessionsMatch(n, carried[v])
    BY <1>1, <1>4 DEF SessionsMatch
  <1>6. carried' = carried /\ now' = now
    BY DEF MigrateV2ToV3
  <1>7. SoundInv'
    BY <1>2, <1>4, <1>5, <1>6, SoundPut DEF SoundInv, TypeOK
  <1>8. Step(v, i, n)
    BY <1>1, <1>2, <1>4 DEF Step, i
  <1> QED BY <1>1, <1>4, <1>6, <1>7, <1>8

LEMMA StepV3ToV4 ==
  ASSUME SoundInv, NEW v \in Vaults, NEW authority, MigrateV3ToV4(v, authority)
  PROVE  /\ SoundInv' /\ carried' = carried /\ now' = now
         /\ \E i, n : /\ Step(v, i, n) /\ SameTerms(i, n)
                      /\ i.version = 3 /\ n.version = 4 /\ n.layout = 4
                      /\ n.locked = 0 /\ n.borrowed = i.borrowed
                      /\ Neutral(i) => n.active_session \in Said(i)
  <1> DEFINE i == image[v]
  <1>1. i \in Image /\ Shape(i) /\ SessionsMatch(i, carried[v]) /\ i.version = 3
    BY DEF SoundInv, TypeOK, MigrateV3ToV4, V3Accepted
  <1>2. PICK r \in ReadV3(i) :
          image' = [image EXCEPT ![v] =
                [r EXCEPT !.version = 4, !.layout = 4, !.len = Larger(@, Size(4)),
                          !.active_session = WithLockMeters(@), !.locked = 0]]
    BY DEF MigrateV3ToV4
  <1> DEFINE n == [r EXCEPT !.version = 4, !.layout = 4, !.len = Larger(@, Size(4)),
                            !.active_session = WithLockMeters(@), !.locked = 0]
  <1>3. image' = [image EXCEPT ![v] = n]
    BY <1>2
  <1> HIDE DEF n
  <1>4. n = [r EXCEPT !.version = 4, !.layout = 4, !.len = Larger(@, Size(4)),
                      !.active_session = WithLockMeters(@), !.locked = 0]
    BY DEF n
  <1> HIDE DEF i
  <1>5. /\ n \in Image /\ Shape(n) /\ SameTerms(i, n)
        /\ n.version = 4 /\ n.layout = 4
        /\ n.locked = 0 /\ n.borrowed = i.borrowed
        /\ Neutral(i) => n.active_session \in Said(i)
    BY <1>1, <1>4, RewrittenV4
  <1>6. SessionsMatch(n, carried[v])
    BY <1>1, <1>5 DEF SessionsMatch
  <1>7. carried' = carried /\ now' = now
    BY DEF MigrateV3ToV4
  <1>8. SoundInv'
    BY <1>3, <1>5, <1>6, <1>7, SoundPut DEF SoundInv, TypeOK
  <1>9. Step(v, i, n)
    BY <1>1, <1>3, <1>5 DEF Step, i
  <1> QED BY <1>1, <1>5, <1>7, <1>8, <1>9

LEMMA StepV4ToV5 ==
  ASSUME SoundInv, NEW v \in Vaults, NEW authority, MigrateV4ToV5(v, authority)
  PROVE  /\ SoundInv' /\ carried' = carried /\ now' = now
         /\ \E i, n : /\ Step(v, i, n) /\ SameTerms(i, n)
                      /\ i.version = 4 /\ n.version = 5 /\ n.layout = 5
                      /\ n.locked = i.locked /\ n.borrowed = 0
                      /\ n.active_session = i.active_session
  <1> DEFINE i == image[v]
  <1>1. i \in Image /\ Shape(i) /\ SessionsMatch(i, carried[v]) /\ i.version = 4
    BY DEF SoundInv, TypeOK, MigrateV4ToV5, V4Accepted
  <1> DEFINE decodes == IF i.active_session = None THEN {5, 6} ELSE i.decodes
             n == InV5(i, decodes)
  <1>2. ReadV4(i) \subseteq {i}
    BY DEF ReadV4
  <1>3. image' = [image EXCEPT ![v] = n]
    BY <1>1, <1>2 DEF MigrateV4ToV5, Image, InV5
  <1> HIDE DEF n, decodes
  <1>4. n = InV5(i, decodes) /\ decodes \in SUBSET {5, 6}
    BY <1>1, ImageFields DEF n, decodes
  <1> HIDE DEF i
  <1>5. /\ n \in Image /\ Shape(n) /\ SameTerms(i, n)
        /\ n.version = 5 /\ n.layout = 5
        /\ n.locked = i.locked /\ n.borrowed = 0
        /\ n.active_session = i.active_session
    BY <1>1, <1>4, RewrittenV5
  <1>6. SessionsMatch(n, carried[v])
    BY <1>1, <1>5 DEF SessionsMatch
  <1>7. carried' = carried /\ now' = now
    BY DEF MigrateV4ToV5
  <1>8. SoundInv'
    BY <1>3, <1>5, <1>6, <1>7, SoundPut DEF SoundInv, TypeOK
  <1>9. Step(v, i, n)
    BY <1>1, <1>3, <1>5 DEF Step, i
  <1> QED BY <1>1, <1>5, <1>7, <1>8, <1>9

LEMMA StepV5ToV6 ==
  ASSUME SoundInv, NEW v \in Vaults, NEW authority, MigrateV5ToV6(v, authority)
  PROVE  /\ SoundInv' /\ carried' = carried /\ now' = now
         /\ \E i, n : /\ Step(v, i, n) /\ SameTerms(i, n)
                      /\ i.version = 5 /\ n.version = 6
                      /\ n.locked = i.locked /\ n.borrowed = i.borrowed
                      /\ n.active_session = None
                      /\ i.active_session # None => i.active_session.expires_at <= now
  <1> DEFINE i == image[v]
             n == InV6(i, 0)
  <1>1. /\ i \in Image /\ Shape(i) /\ SessionsMatch(i, carried[v]) /\ i.version = 5
        /\ i.active_session # None => i.active_session.expires_at <= now
    BY DEF SoundInv, TypeOK, MigrateV5ToV6, V5Accepted
  <1>2. image' = [image EXCEPT ![v] = n]
    BY DEF MigrateV5ToV6
  <1>3. n = InV6(i, 0)
    OBVIOUS
  <1> HIDE DEF n, i
  <1>4. i.layout # 1
    BY <1>1 DEF Shape
  <1>5. /\ n \in Image /\ Shape(n) /\ SameTerms(i, n)
        /\ n.version = 6 /\ n.active_session = None /\ n.live_session_count = 0
        /\ n.locked = i.locked /\ n.borrowed = i.borrowed
    <2>1. PICK none \in Nat : none = 0 /\ n = InV6(i, none)
      BY <1>3
    <2>2. /\ n \in Image /\ SameTerms(i, n)
          /\ n.version = 6 /\ n.active_session = None /\ n.live_session_count = none
          /\ n.locked = i.locked /\ n.borrowed = i.borrowed
          /\ i.layout # 1 /\ Shape(i) => Shape(n)
      BY <1>1, <2>1, RewrittenV6
    <2> QED BY <1>1, <1>4, <2>1, <2>2
  <1>6. SessionsMatch(n, carried[v])
    BY <1>1, <1>5 DEF SessionsMatch
  <1>7. carried' = carried /\ now' = now
    BY DEF MigrateV5ToV6
  <1>8. SoundInv'
    BY <1>2, <1>5, <1>6, <1>7, SoundPut DEF SoundInv, TypeOK
  <1>9. Step(v, i, n)
    BY <1>1, <1>2, <1>5 DEF Step, i
  <1> QED BY <1>1, <1>5, <1>7, <1>8, <1>9

LEMMA StepWithSession ==
  ASSUME SoundInv, NEW v \in Vaults, NEW authority, NEW c \in Counterparties,
         MigrateV5ToV6WithSession(v, authority, c)
  PROVE  /\ SoundInv' /\ now' = now
         /\ \A d \in Counterparties : carried'[v][d] # None => d = c
         /\ \A u \in Vaults \ {v} : carried'[u] = carried[u]
         /\ \E i, n : /\ Step(v, i, n) /\ SameTerms(i, n)
                      /\ i.version = 5 /\ n.version = 6
                      /\ n.locked = i.locked /\ n.borrowed = i.borrowed
                      /\ i.active_session # None
                      /\ i.active_session.expires_at > now
                      /\ carried'[v][c] = i.active_session
  <1> DEFINE i == image[v]
             n == InV6(i, 1)
  <1>1. /\ i \in Image /\ Shape(i) /\ SessionsMatch(i, carried[v]) /\ i.version = 5
        /\ i.active_session # None
        /\ i.active_session.expires_at > now
        /\ i.active_session.allowed_counterparty = c
    BY DEF SoundInv, TypeOK, MigrateV5ToV6WithSession, V5AcceptedWithSession
  <1>2. image' = [image EXCEPT ![v] = n]
    BY DEF MigrateV5ToV6WithSession
  <1>3. n = InV6(i, 1)
    OBVIOUS
  <1>4. carried' = [carried EXCEPT ![v][c] = i.active_session] /\ now' = now
    BY DEF MigrateV5ToV6WithSession
  <1>5. Step(v, i, n) <=> (i \in Image /\ Shape(i) /\ n \in Image /\ Shape(n))
    BY <1>2 DEF Step
  <1> HIDE DEF n, i
  <1>6. i.layout # 1
    BY <1>1 DEF Shape
  <1>7. /\ n \in Image /\ Shape(n) /\ SameTerms(i, n)
        /\ n.version = 6 /\ n.active_session = None /\ n.live_session_count = 1
        /\ n.locked = i.locked /\ n.borrowed = i.borrowed
    BY <1>1, <1>3, <1>6, RewrittenV6
  <1>8. /\ carried' \in [Vaults -> [Counterparties -> Registration \cup {None}]]
        /\ carried'[v][c] = i.active_session
        /\ \A d \in Counterparties \ {c} : carried'[v][d] = carried[v][d]
        /\ \A u \in Vaults \ {v} : carried'[u] = carried[u]
    BY <1>1, <1>4, ImageFields DEF SoundInv, TypeOK
  <1>9. \A d \in Counterparties : carried[v][d] = None
    BY <1>1 DEF SessionsMatch
  <1>10. SessionsMatch(n, carried'[v])
    BY <1>1, <1>7, <1>8, <1>9 DEF SessionsMatch
  <1>11. SoundInv'
    BY <1>2, <1>4, <1>7, <1>8, <1>10, SoundPut
  <1> QED BY <1>1, <1>4, <1>5, <1>7, <1>8, <1>9, <1>11

LEMMA StepLegacy ==
  ASSUME SoundInv, NEW v \in Vaults, NEW authority \in Authorities \cup {LegacyAdmin},
         MigrateLegacyToV6(v, authority)
  PROVE  /\ SoundInv' /\ carried' = carried /\ now' = now
         /\ \E i, n : /\ Step(v, i, n)
                      /\ i.layout = 1 /\ n.version = 6
                      /\ n.authority = authority
                      /\ \/ i.len = LegacyV1Len /\ authority = LegacyAdmin
                         \/ i.len = LegacyV15Len /\ authority = i.authority
                      /\ n.pending_withdrawal = i.pending_withdrawal
                      /\ n.cooling_off_seconds = Clamped(i.cooling_off_seconds)
                      /\ n.active_session = None /\ n.locked = 0 /\ n.borrowed = 0
  <1> DEFINE i == image[v]
             n == FromLegacy(i, authority)
  <1>1. /\ i \in Image /\ Shape(i) /\ SessionsMatch(i, carried[v])
        /\ \/ i.len = LegacyV1Len /\ authority = LegacyAdmin
           \/ i.len = LegacyV15Len /\ authority = i.authority
    BY DEF SoundInv, TypeOK, MigrateLegacyToV6, LegacyAccepted
  <1>2. image' = [image EXCEPT ![v] = n]
    BY DEF MigrateLegacyToV6
  <1>3. n = FromLegacy(i, authority)
    OBVIOUS
  <1>4. Step(v, i, n) <=> (i \in Image /\ Shape(i) /\ n \in Image /\ Shape(n))
    BY <1>2 DEF Step
  <1> HIDE DEF n, i
  <1>5. i.layout = 1 /\ i.version = 255
    BY <1>1, Sizes, ImageFields DEF Shape, LegacyV1Len, LegacyV15Len
  <1>6. /\ n \in Image /\ Shape(n)
        /\ n.version = 6 /\ n.active_session = None /\ n.live_session_count = 0
        /\ n.authority = authority
        /\ n.pending_withdrawal = i.pending_withdrawal
        /\ n.cooling_off_seconds = Clamped(i.cooling_off_seconds)
        /\ n.locked = 0 /\ n.borrowed = 0
    BY <1>1, <1>3, LegacyToV6
  <1>7. SessionsMatch(n, carried[v])
    BY <1>1, <1>5, <1>6 DEF SessionsMatch
  <1>8. carried' = carried /\ now' = now
    BY DEF MigrateLegacyToV6
  <1>9. SoundInv'
    BY <1>2, <1>6, <1>7, <1>8, SoundPut DEF SoundInv, TypeOK
  <1> QED BY <1>1, <1>4, <1>5, <1>6, <1>8, <1>9

\* What stays when the current program writes to an account it can read.
Kept(i, n) ==
    /\ n.version = i.version /\ n.layout = i.layout /\ n.layout # 1
    /\ n.cooling_off_seconds = i.cooling_off_seconds

\* request_withdrawal and finalize_withdrawal.
LEMMA StepWithdrawal ==
  ASSUME SoundInv, NEW v \in Vaults,
         \/ \E amount \in Pendings : RequestWithdrawal(v, amount)
         \/ FinalizeWithdrawal(v)
  PROVE  /\ SoundInv' /\ carried' = carried /\ now' = now
         /\ \E i, n : /\ Step(v, i, n) /\ Kept(i, n)
                      /\ n.authority = i.authority
                      /\ n.pending_withdrawal \in Pendings \cup {None}
                      /\ Unspoilt(i, n) \/ Spoilt(i, n)
  <1> DEFINE i == image[v]
  <1>1. /\ i \in Image /\ Shape(i) /\ SessionsMatch(i, carried[v]) /\ ReadsAsV6(i)
        /\ carried' = carried /\ now' = now
    BY DEF SoundInv, TypeOK, RequestWithdrawal, FinalizeWithdrawal
  <1>2. ASSUME NEW n, n \in Image, Shape(n), Kept(i, n),
               n.authority = i.authority, n.pending_withdrawal \in Pendings \cup {None},
               n.live_session_count = i.live_session_count,
               Unspoilt(i, n) \/ Spoilt(i, n),
               image' = [image EXCEPT ![v] = n]
        PROVE  SoundInv' /\ Step(v, i, n)
    <2>1. SessionsMatch(n, carried[v])
      BY <1>1, <1>2 DEF SessionsMatch, Kept
    <2>2. SoundInv'
      BY <1>1, <1>2, <2>1, SoundPut DEF SoundInv, TypeOK
    <2> QED BY <1>1, <1>2, <2>2 DEF Step
  <1>3. ASSUME NEW amount \in Pendings, RequestWithdrawal(v, amount)
        PROVE  \E n : SoundInv' /\ Step(v, i, n) /\ Kept(i, n)
                      /\ n.authority = i.authority
                      /\ n.pending_withdrawal \in Pendings \cup {None}
                      /\ (Unspoilt(i, n) \/ Spoilt(i, n))
    <2>1. PICK n \in WrittenBack(i, amount) : image' = [image EXCEPT ![v] = n]
      BY <1>3 DEF RequestWithdrawal
    <2>2. amount \in Nat \cup {None}
      BY MigrationsAssumption
    <2> HIDE DEF i
    <2>3. /\ n \in Image /\ Shape(n) /\ Kept(i, n)
          /\ n.authority = i.authority /\ n.pending_withdrawal = amount
          /\ n.live_session_count = i.live_session_count
          /\ Unspoilt(i, n) \/ Spoilt(i, n)
      BY <1>1, <2>1, <2>2, RewrittenByV6 DEF Kept
    <2> QED BY <1>2, <2>1, <2>3
  <1>4. ASSUME FinalizeWithdrawal(v)
        PROVE  \E n : SoundInv' /\ Step(v, i, n) /\ Kept(i, n)
                      /\ n.authority = i.authority
                      /\ n.pending_withdrawal \in Pendings \cup {None}
                      /\ (Unspoilt(i, n) \/ Spoilt(i, n))
    <2>1. i.pending_withdrawal # None
      BY <1>4 DEF FinalizeWithdrawal
    <2>2. PICK m \in WrittenBack(i, None) :
            image' = [image EXCEPT ![v] =
                        [m EXCEPT !.stale_tail = @ \/ m.active_session # None]]
      BY <1>4 DEF FinalizeWithdrawal
    <2> DEFINE n == [m EXCEPT !.stale_tail = @ \/ m.active_session # None]
    <2>3. image' = [image EXCEPT ![v] = n]
      BY <2>2
    <2> HIDE DEF i
    <2>4. /\ m \in Image /\ Shape(m) /\ Kept(i, m)
          /\ m.authority = i.authority /\ m.pending_withdrawal = None
          /\ m.live_session_count = i.live_session_count
          /\ Unspoilt(i, m) \/ Spoilt(i, m)
          /\ i.active_session # None => Spoilt(i, m)
      BY <1>1, <2>1, <2>2, RewrittenByV6 DEF Kept
    <2>5. CASE m.active_session = None
      <3>1. n = m
        BY <2>4, <2>5 DEF Image
      <3> HIDE DEF n
      <3> QED BY <1>2, <2>3, <2>4, <3>1
    <2>6. CASE m.active_session # None
      <3>1. n = [m EXCEPT !.stale_tail = TRUE]
        BY <2>4, <2>6 DEF Image
      <3> HIDE DEF n
      <3>2. /\ n \in Image /\ Shape(n)
            /\ n.version = m.version /\ n.layout = m.layout
            /\ n.authority = m.authority
            /\ n.pending_withdrawal = m.pending_withdrawal
            /\ n.cooling_off_seconds = m.cooling_off_seconds
            /\ n.live_session_count = m.live_session_count
            /\ n.active_session = m.active_session
            /\ n.locked = m.locked /\ n.borrowed = m.borrowed
        BY <2>4, <2>6, <3>1, LeftBehind
      <3>3. Spoilt(i, n)
        <4>1. Spoilt(i, m)
          BY <2>4, <2>6 DEF Unspoilt
        <4> QED BY <3>2, <4>1 DEF Spoilt
      <3> QED BY <1>2, <2>3, <2>4, <3>2, <3>3 DEF Kept
    <2> QED BY <2>5, <2>6
  <1> QED BY <1>1, <1>3, <1>4

LEMMA StepRotation ==
  ASSUME SoundInv, NEW v \in Vaults, NEW new \in Authorities, RotateDexterAuthority(v, new)
  PROVE  /\ SoundInv' /\ carried' = carried /\ now' = now
         /\ \E i, n : /\ Step(v, i, n) /\ Kept(i, n) /\ Unspoilt(i, n)
                      /\ n.authority = new
                      /\ n.pending_withdrawal = i.pending_withdrawal
  <1> DEFINE i == image[v]
             n == [i EXCEPT !.authority = new]
  <1>1. /\ i \in Image /\ Shape(i) /\ SessionsMatch(i, carried[v]) /\ ReadsAsV6(i)
        /\ carried' = carried /\ now' = now
    BY DEF SoundInv, TypeOK, RotateDexterAuthority
  <1>2. image' = [image EXCEPT ![v] = n]
    BY DEF RotateDexterAuthority, SoundInv, TypeOK
  <1>3. n = [i EXCEPT !.authority = new]
    OBVIOUS
  <1>4. Step(v, i, n) <=> (i \in Image /\ Shape(i) /\ n \in Image /\ Shape(n))
    BY <1>2 DEF Step
  <1> HIDE DEF n, i
  <1>5. /\ n \in Image /\ Shape(n) /\ Kept(i, n) /\ Unspoilt(i, n)
        /\ n.live_session_count = i.live_session_count
        /\ n.authority = new /\ n.pending_withdrawal = i.pending_withdrawal
    BY <1>1, <1>3, RotatedByV6 DEF Kept
  <1>6. SessionsMatch(n, carried[v])
    BY <1>1, <1>5 DEF SessionsMatch, Kept
  <1>7. SoundInv'
    BY <1>1, <1>2, <1>5, <1>6, SoundPut DEF SoundInv, TypeOK
  <1> QED BY <1>1, <1>4, <1>5, <1>7

\* A registration that register_session_key makes.
Opened(c, expires_at, max_revolving_capacity) ==
    [allowed_counterparty |-> c, expires_at |-> expires_at, spent |-> 0,
     current_outstanding |-> 0, max_revolving_capacity |-> max_revolving_capacity,
     crystallized_cumulative |-> 0]

LEMMA StepRegister ==
  ASSUME SoundInv, NEW v \in Vaults, NEW c \in Counterparties, NEW t \in 1 .. MaxTime,
         NEW capacity \in Capacities, RegisterSessionKey(v, c, t, capacity)
  PROVE  /\ SoundInv' /\ now' = now /\ t > now
         /\ \A d \in Counterparties : carried[v][d] = None
         /\ \A d \in Counterparties : carried'[v][d] # None => d = c
         /\ carried'[v][c] = Opened(c, t, capacity) /\ Opened(c, t, capacity) # None
         /\ \A u \in Vaults \ {v} : carried'[u] = carried[u]
         /\ \E i, n : /\ Step(v, i, n) /\ Kept(i, n) /\ Unspoilt(i, n) /\ n.version = 6
                      /\ n.authority = i.authority
                      /\ n.pending_withdrawal = i.pending_withdrawal
  <1> DEFINE i == image[v]
             n == [i EXCEPT !.live_session_count = @ + 1]
             s == Opened(c, t, capacity)
  <1>1. /\ i \in Image /\ Shape(i) /\ SessionsMatch(i, carried[v])
        /\ i.version = 6 /\ i.live_session_count = 0
        /\ image' = [image EXCEPT ![v] = n]
        /\ carried' = [carried EXCEPT ![v][c] = s]
        /\ now' = now /\ t > now
    BY DEF SoundInv, TypeOK, RegisterSessionKey, Opened
  <1>2. s \in Registration /\ s # None /\ s.allowed_counterparty = c
    <2>1. capacity \in Nat /\ t \in Int
      BY MigrationsAssumption
    <2>2. s \in Registration
      BY <2>1 DEF Opened, Registration
    <2> QED BY <2>2, MigrationsAssumption DEF Opened
  <1>3. n = [i EXCEPT !.live_session_count = 1]
    BY <1>1
  <1>4. Step(v, i, n) <=> (i \in Image /\ Shape(i) /\ n \in Image /\ Shape(n))
    BY <1>1 DEF Step
  <1> HIDE DEF n, i, s
  <1>5. n.stale_tail <=> i.stale_tail
    BY <1>1, <1>3 DEF Image
  <1>6. /\ n.len = i.len /\ n.version = 6 /\ n.layout = i.layout
        /\ n.active_session = i.active_session
        /\ n.live_session_count = 1
        /\ n.cooling_off_seconds = i.cooling_off_seconds
        /\ n.locked = i.locked /\ n.borrowed = i.borrowed
        /\ n.authority = i.authority /\ n.pending_withdrawal = i.pending_withdrawal
    BY <1>1, <1>3 DEF Image
  <1>7. n \in Image /\ Shape(n)
    <2>1. n \in Image
      BY <1>1, <1>3 DEF Image
    <2> QED BY <1>1, <1>5, <1>6, <2>1 DEF Shape
  <1>8. Kept(i, n) /\ Unspoilt(i, n)
    BY <1>1, <1>5, <1>6 DEF Kept, Unspoilt, Shape
  <1>9. \A d \in Counterparties : carried[v][d] = None
    BY <1>1 DEF SessionsMatch
  <1>10. /\ carried' \in [Vaults -> [Counterparties -> Registration \cup {None}]]
         /\ carried'[v][c] = s
         /\ \A d \in Counterparties \ {c} : carried'[v][d] = carried[v][d]
         /\ \A u \in Vaults \ {v} : carried'[u] = carried[u]
    BY <1>1, <1>2 DEF SoundInv, TypeOK
  <1>11. SessionsMatch(n, carried'[v])
    BY <1>2, <1>6, <1>9, <1>10 DEF SessionsMatch
  <1>12. SoundInv'
    BY <1>1, <1>7, <1>10, <1>11, SoundPut
  <1> QED BY <1>1, <1>2, <1>4, <1>6, <1>7, <1>8, <1>9, <1>10, <1>12 DEF s

LEMMA SoundStep == SoundInv /\ [Next]_migrationVars => SoundInv'
  <1> SUFFICES ASSUME SoundInv, [Next]_migrationVars PROVE SoundInv'
    OBVIOUS
  <1>1. ASSUME NEW v \in Vaults, Hop(v) PROVE SoundInv'
    BY <1>1, StepV2ToV3, StepV3ToV4, StepV4ToV5, StepV5ToV6, StepWithSession, StepLegacy DEF Hop
  <1>2. ASSUME NEW v \in Vaults, NEW amount \in Pendings, RequestWithdrawal(v, amount)
        PROVE  SoundInv'
    BY <1>2, StepWithdrawal
  <1>3. ASSUME NEW v \in Vaults, FinalizeWithdrawal(v) PROVE SoundInv'
    BY <1>3, StepWithdrawal
  <1>4. ASSUME NEW v \in Vaults, NEW new \in Authorities, RotateDexterAuthority(v, new)
        PROVE  SoundInv'
    BY <1>4, StepRotation
  <1>5. ASSUME NEW v \in Vaults, NEW c \in Counterparties, NEW t \in 1 .. MaxTime,
               NEW capacity \in Capacities, RegisterSessionKey(v, c, t, capacity)
        PROVE  SoundInv'
    BY <1>5, StepRegister
  <1>6. CASE Tick
    BY <1>6 DEF Tick, SoundInv, TypeOK, Shape, SessionsMatch
  <1>7. CASE UNCHANGED migrationVars
    BY <1>7 DEF migrationVars, SoundInv, TypeOK, Shape, SessionsMatch
  <1> QED BY <1>1, <1>2, <1>3, <1>4, <1>5, <1>6, <1>7 DEF Next

\* Whatever builds left the accounts, and in whatever order the authority migrates
\* them while the owner withdraws and the clock runs, a decoder never makes of an
\* account what its fields cannot hold.
THEOREM MigrationTypes == Spec => []TypeOK
  <1>1. SoundInv => TypeOK
    BY DEF SoundInv
  <1> QED BY <1>1, SoundInit, SoundStep, PTL DEF Spec

LEMMA SoundVaults == SoundInv => MigratedVaultsAreSound
  <1> SUFFICES ASSUME SoundInv, NEW v \in Vaults, image[v].version = 6
               PROVE  /\ image[v].layout = 6 /\ image[v].len = Size(6) /\ ~image[v].stale_tail
                      /\ image[v].live_session_count = Cardinality(Registered(v))
                      /\ \A c \in Registered(v) : carried[v][c].allowed_counterparty = c
                      /\ image[v].authority # None
    BY DEF MigratedVaultsAreSound
  <1>1. Shape(image[v]) /\ SessionsMatch(image[v], carried[v])
    BY DEF SoundInv
  <1>2. CASE /\ image[v].live_session_count = 0
             /\ \A c \in Counterparties : carried[v][c] = None
    <2>1. Registered(v) = {}
      BY <1>2 DEF Registered
    <2> QED BY <1>1, <1>2, <2>1, FS_EmptySet DEF Shape
  <1>3. CASE /\ image[v].live_session_count = 1
             /\ \E c \in Counterparties :
                    /\ carried[v][c] # None /\ carried[v][c].allowed_counterparty = c
                    /\ \A d \in Counterparties \ {c} : carried[v][d] = None
    <2>1. PICK c \in Counterparties :
              /\ carried[v][c] # None /\ carried[v][c].allowed_counterparty = c
              /\ \A d \in Counterparties \ {c} : carried[v][d] = None
      BY <1>3
    <2>2. Registered(v) = {c}
      BY <2>1 DEF Registered
    <2>3. Cardinality(Registered(v)) = 1
      BY <2>2, FS_Singleton
    <2>4. \A d \in Registered(v) : carried[v][d].allowed_counterparty = d
      BY <2>1, <2>2
    <2>5. image[v].authority # None /\ image[v].layout = 6 /\ image[v].len = Size(6)
      BY <1>1 DEF Shape
    <2>6. ~image[v].stale_tail
      BY <1>1 DEF Shape
    <2> QED BY <1>3, <2>3, <2>4, <2>5, <2>6
  <1> QED BY <1>1, <1>2, <1>3 DEF SessionsMatch

\* Every vault that reaches V6, by whichever hops and from whichever build, is a
\* vault the rest of the program may rely on: live_session_count counts the session
\* accounts there are, each carried to its own counterparty, and nothing is left
\* over in the account.
THEOREM MigrationsAreSound == Spec => []MigratedVaultsAreSound
  BY SoundInit, SoundStep, SoundVaults, PTL DEF Spec

-----------------------------------------------------------------------------
(***************************************************************************)
(* The way on from every layout.                                           *)
(***************************************************************************)

LEMMA Prefixes ==
  ASSUME NEW i
  PROVE  /\ i.pending_withdrawal = None => PrefixLen(i) = 148
         /\ i.pending_withdrawal # None => PrefixLen(i) = 196
         /\ RegistrationLen(3) = 108
  BY DEF PrefixLen, RegistrationLen

\* VaultV3 decodes every account stamped 3 but a full one of V2 length, and keeps
\* the authority in the same place.
LEMMA ReadableAsV3 ==
  ASSUME NEW i \in Image, Shape(i), i.version = 3
  PROVE  (\E r \in ReadV3(i) : r.authority = i.authority) <=> ~IsFullV2(i)
  <1>1. CASE i.layout = 3
    BY <1>1 DEF ReadV3, IsFullV2
  <1>2. CASE i.layout # 3
    <2>1. i.layout = 2 /\ i.len = 289 /\ i.len \in Nat
      BY <1>2, Sizes, ImageFields DEF Shape
    <2>2. CASE i.active_session = None
      BY <1>2, <2>2 DEF ReadV3, ReadV2AsV3, IsFullV2
    <2>3. CASE i.active_session # None /\ i.pending_withdrawal # None
      <3>1. PrefixLen(i) + 1 + RegistrationLen(3) > i.len
        BY <2>1, <2>3, Prefixes
      <3>2. ReadV3(i) = {}
        BY <1>2, <2>3, <3>1 DEF ReadV3
      <3> QED BY <2>1, <2>3, <3>2 DEF IsFullV2
    <2>4. CASE i.active_session # None /\ i.pending_withdrawal = None
      <3>1. ~(PrefixLen(i) + 1 + RegistrationLen(3) > i.len)
        BY <2>1, <2>4, Prefixes
      <3>2. PICK n \in BeyondPayload(i) : TRUE
        BY MigrationsAssumption DEF BeyondPayload
      <3> DEFINE r == WithNewMeters(i, n, n)
      <3>3. r \in ReadV3(i)
        <4>1. ReadV3(i) = ReadV2AsV3(i)
          BY <1>2, <3>1 DEF ReadV3
        <4>2. r \in ReadV2AsV3(i)
          BY <2>4, <3>2 DEF ReadV2AsV3
        <4> QED BY <4>1, <4>2
      <3>4. r.authority = i.authority
        BY <2>4, <3>3, DecodedV3 DEF SameTerms
      <3> QED BY <2>4, <3>3, <3>4 DEF IsFullV2
    <2> QED BY <2>2, <2>3, <2>4
  <1> QED BY <1>1, <1>2

LEMMA SomeHop == SoundInv => OnlyStrandedVaultsAreStuck
  <1> SUFFICES ASSUME SoundInv, NEW v \in Vaults, image[v].version # 6
               PROVE  HopApplies(v) <=>
                        ~(IsStuck(image[v]) \/ (image[v].version = 5 /\ 5 \notin image[v].decodes))
    BY DEF OnlyStrandedVaultsAreStuck
  <1> USE DEF IsStuck
  <1> DEFINE i == image[v]
  <1>1. /\ i \in Image /\ Shape(i) /\ SessionsMatch(i, carried[v]) /\ now \in Nat
    BY DEF SoundInv, TypeOK
  <1>2. i.layout # 1 => i.authority \in Authorities \cup {LegacyAdmin}
    BY <1>1, ImageFields DEF Shape
  <1>3. CASE i.version = 255
    <2>1. i.layout = 1
      BY <1>1, <1>3 DEF Shape
    <2>2. CASE i.len = LegacyV1Len
      BY <1>3, <2>2 DEF HopApplies, LegacyAccepted
    <2>3. CASE i.len = LegacyV15Len /\ i.authority # None
      <3>1. i.authority \in Authorities \cup {LegacyAdmin}
        BY <1>1, <2>3, ImageFields
      <3> QED BY <1>3, <2>3, <3>1 DEF HopApplies, LegacyAccepted
    <2> QED BY <1>1, <2>1, <2>2, <2>3 DEF Shape
  <1>4. CASE i.version = 2
    <2>1. i.layout # 1
      BY <1>1, <1>4 DEF Shape
    <2> QED BY <1>2, <1>4, <2>1 DEF HopApplies, V2Accepted
  <1>5. CASE i.version = 3
    <2>1. i.layout # 1 /\ i.len >= 279 /\ i.len \in Nat
      BY <1>1, <1>5, Sizes, ImageFields DEF Shape
    <2>2. ~IsFullV2(i) => HopApplies(v)
      BY <1>1, <1>2, <1>5, <2>1, ReadableAsV3 DEF HopApplies, V3Accepted
    <2>3. IsFullV2(i) => ~HopApplies(v)
      <3>1. SUFFICES ASSUME IsFullV2(i), HopApplies(v) PROVE FALSE
        OBVIOUS
      <3>2. i.len # LegacyV1Len /\ i.len # LegacyV15Len
        BY <2>1 DEF LegacyV1Len, LegacyV15Len
      <3>3. PICK authority : \E v3 \in ReadV3(i) : V3Accepted(v, v3, authority)
        BY <1>5, <3>1, <3>2
        DEF HopApplies, V2Accepted, V4Accepted, V5Accepted, V5AcceptedWithSession,
            LegacyAccepted
      <3>4. \E v3 \in ReadV3(i) : v3.authority = i.authority
        BY <1>1, <1>5, <3>3, DecodedV3 DEF SameTerms
      <3> QED BY <1>1, <1>5, <3>1, <3>4, ReadableAsV3
    <2> QED BY <1>5, <2>2, <2>3
  <1>6. CASE i.version = 4
    <2>1. i.layout # 1 /\ i.live_session_count = 0
      BY <1>1, <1>6 DEF Shape
    <2>2. i \in ReadV4(i)
      BY <2>1 DEF ReadV4
    <2>3. V4Accepted(v, i, i.authority)
      BY <1>6 DEF V4Accepted
    <2> QED BY <1>2, <1>6, <2>1, <2>2, <2>3 DEF HopApplies
  <1>7. CASE i.version = 5 /\ 5 \in i.decodes
    <2>1. i.layout # 1
      BY <1>1, <1>7 DEF Shape
    <2>2. CASE i.active_session = None
      BY <1>2, <1>7, <2>1, <2>2 DEF HopApplies, V5Accepted
    <2>3. CASE i.active_session # None
      <3>1. i.active_session \in Registration
        BY <1>1, <2>3, ImageFields
      <3>2. /\ i.active_session.allowed_counterparty \in Counterparties
            /\ i.active_session.expires_at \in Int
        BY <3>1 DEF Registration
      <3>3. CASE i.active_session.expires_at <= now
        BY <1>2, <1>7, <2>1, <3>3 DEF HopApplies, V5Accepted
      <3>4. CASE i.active_session.expires_at > now
        <4>1. carried[v][i.active_session.allowed_counterparty] = None
          BY <1>1, <1>7, <3>2 DEF SessionsMatch
        <4>2. V5AcceptedWithSession(v, i.authority, i.active_session.allowed_counterparty)
          BY <1>7, <2>3, <3>4, <4>1 DEF V5AcceptedWithSession
        <4> QED BY <1>2, <1>7, <2>1, <3>2, <4>2 DEF HopApplies
      <3> QED BY <1>1, <3>2, <3>3, <3>4
    <2> QED BY <2>2, <2>3
  <1>8. CASE i.version = 5 /\ 5 \notin i.decodes
    <2>1. i.layout = 5 /\ i.len >= 279 /\ i.len \in Nat
      BY <1>1, <1>8, Sizes, ImageFields DEF Shape
    <2>2. i.len # LegacyV1Len /\ i.len # LegacyV15Len
      BY <2>1 DEF LegacyV1Len, LegacyV15Len
    <2>3. ~HopApplies(v)
      BY <1>8, <2>2
      DEF HopApplies, V2Accepted, V3Accepted, V4Accepted, V5Accepted, V5AcceptedWithSession,
          LegacyAccepted
    <2> QED BY <1>8, <2>3
  <1> QED BY <1>1, <1>3, <1>4, <1>5, <1>6, <1>7, <1>8 DEF Shape

\* Whatever build a vault comes from and whatever was done to it since, some
\* migration accepts it until it is at V6, but for two kinds: a V2 vault with both
\* Options in use after migrate_v2_to_v3, and a V5 vault that VaultV5 no longer
\* decodes since a withdrawal wrote over its session.
THEOREM AWayToV6 == Spec => []OnlyStrandedVaultsAreStuck
  BY SoundInit, SoundStep, SomeHop, PTL DEF Spec

LEMMA NoHopNoChange ==
  ASSUME SoundInv, NEW v \in Vaults, ~HopApplies(v), Hop(v)
  PROVE  FALSE
  BY DEF HopApplies, Hop, MigrateV2ToV3, MigrateV3ToV4, MigrateV4ToV5, MigrateV5ToV6,
         MigrateV5ToV6WithSession, MigrateLegacyToV6

\* An instruction writes one vault and its session accounts.
LEMMA StepsAreLocal ==
  ASSUME SoundInv, NEW u \in Vaults, NEW v \in Vaults, u # v,
         \/ Hop(u)
         \/ \E amount \in Pendings : RequestWithdrawal(u, amount)
         \/ FinalizeWithdrawal(u)
         \/ \E new \in Authorities : RotateDexterAuthority(u, new)
         \/ \E c \in Counterparties, t \in 1 .. MaxTime, capacity \in Capacities :
                RegisterSessionKey(u, c, t, capacity)
  PROVE  image'[v] = image[v] /\ carried'[v] = carried[v]
  <1>1. ASSUME NEW i, NEW n, Step(u, i, n) PROVE image'[v] = image[v]
    BY <1>1 DEF Step, SoundInv, TypeOK
  <1>2. ASSUME NEW authority \in Authorities \cup {LegacyAdmin},
               \/ MigrateV2ToV3(u, authority) \/ MigrateV3ToV4(u, authority)
               \/ MigrateV4ToV5(u, authority) \/ MigrateV5ToV6(u, authority)
               \/ MigrateLegacyToV6(u, authority)
        PROVE  image'[v] = image[v] /\ carried'[v] = carried[v]
    BY <1>1, <1>2, StepV2ToV3, StepV3ToV4, StepV4ToV5, StepV5ToV6, StepLegacy
  <1>3. ASSUME NEW authority \in Authorities \cup {LegacyAdmin}, NEW c \in Counterparties,
               MigrateV5ToV6WithSession(u, authority, c)
        PROVE  image'[v] = image[v] /\ carried'[v] = carried[v]
    BY <1>1, <1>3, StepWithSession
  <1>4. ASSUME \/ \E amount \in Pendings : RequestWithdrawal(u, amount)
               \/ FinalizeWithdrawal(u)
        PROVE  image'[v] = image[v] /\ carried'[v] = carried[v]
    BY <1>1, <1>4, StepWithdrawal
  <1>5. ASSUME NEW new \in Authorities, RotateDexterAuthority(u, new)
        PROVE  image'[v] = image[v] /\ carried'[v] = carried[v]
    BY <1>1, <1>5, StepRotation
  <1>6. ASSUME NEW c \in Counterparties, NEW t \in 1 .. MaxTime, NEW capacity \in Capacities,
               RegisterSessionKey(u, c, t, capacity)
        PROVE  image'[v] = image[v] /\ carried'[v] = carried[v]
    BY <1>1, <1>6, StepRegister
  <1>7. Hop(u) => image'[v] = image[v] /\ carried'[v] = carried[v]
    BY <1>2, <1>3 DEF Hop
  <1> QED BY <1>4, <1>5, <1>6, <1>7

\* A request on a stuck vault, or a change of its authority: all else stays.
LEMMA StuckStays ==
  ASSUME SoundInv, NEW v \in Vaults, IsStuck(image[v]),
         \/ \E amount \in Pendings : RequestWithdrawal(v, amount)
         \/ \E new \in Authorities : RotateDexterAuthority(v, new)
  PROVE  /\ IsStuck(image'[v])
         /\ image'[v].active_session = image[v].active_session
         /\ carried'[v] = carried[v]
  <1> DEFINE i == image[v]
  <1>1. /\ i \in Image /\ i.version = 3 /\ i.layout = 2
        /\ i.active_session # None /\ i.pending_withdrawal # None
    BY DEF SoundInv, TypeOK, IsStuck, IsFullV2
  <1>2. ASSUME NEW amount \in Pendings, RequestWithdrawal(v, amount)
        PROVE  /\ image'[v] = [i EXCEPT !.pending_withdrawal = amount]
               /\ carried' = carried /\ amount # None
    <2>1. amount # None
      BY MigrationsAssumption
    <2>2. WrittenBack(i, amount) = {[i EXCEPT !.pending_withdrawal = amount]}
      BY <1>1, <2>1 DEF WrittenBack
    <2> QED BY <1>2, <2>1, <2>2 DEF RequestWithdrawal, SoundInv, TypeOK
  <1>3. ASSUME NEW new \in Authorities, RotateDexterAuthority(v, new)
        PROVE  image'[v] = [i EXCEPT !.authority = new] /\ carried' = carried
    BY <1>3 DEF RotateDexterAuthority, SoundInv, TypeOK
  <1> HIDE DEF i
  <1>4. /\ image'[v].version = 3 /\ image'[v].layout = 2
        /\ image'[v].active_session = i.active_session
        /\ image'[v].pending_withdrawal # None
        /\ carried' = carried
    BY <1>1, <1>2, <1>3 DEF Image
  <1> QED BY <1>1, <1>4 DEF IsStuck, IsFullV2, i

\* The dead end is one: a full V2 vault past migrate_v2_to_v3 takes no hop, keeps its
\* session and a pending withdrawal, and opens no session account, whatever the
\* authority, the owner and the clock do, until a withdrawal is paid from it; and
\* that happens only if today's struct decodes the account, by the bytes it has.
THEOREM DeadEnd == Spec => StuckVaultsStayStuck
  <1>1. SoundInv /\ [Next]_migrationVars =>
            [\A v \in Vaults :
                IsStuck(image[v]) =>
                    \/ FinalizeWithdrawal(v)
                    \/ /\ IsStuck(image'[v])
                       /\ image'[v].active_session = image[v].active_session
                       /\ carried'[v] = carried[v]]_migrationVars
    <2> SUFFICES ASSUME SoundInv, Next, NEW v \in Vaults,
                        IsStuck(image[v]), ~FinalizeWithdrawal(v)
                 PROVE  /\ IsStuck(image'[v])
                        /\ image'[v].active_session = image[v].active_session
                        /\ carried'[v] = carried[v]
      OBVIOUS
    <2>1. ~Hop(v)
      <3>1. image[v].version # 6
        BY DEF IsStuck
      <3>2. ~HopApplies(v)
        BY <3>1, SomeHop DEF OnlyStrandedVaultsAreStuck
      <3> QED BY <3>2, NoHopNoChange
    <2>2. \A c \in Counterparties, t \in 1 .. MaxTime, capacity \in Capacities :
                ~RegisterSessionKey(v, c, t, capacity)
      BY DEF RegisterSessionKey, IsStuck
    <2>3. CASE Tick
      BY <2>3 DEF Tick
    <2>4. CASE ~Tick
      <3>1. PICK u \in Vaults :
                \/ Hop(u)
                \/ \E amount \in Pendings : RequestWithdrawal(u, amount)
                \/ FinalizeWithdrawal(u)
                \/ \E new \in Authorities : RotateDexterAuthority(u, new)
                \/ \E c \in Counterparties, t \in 1 .. MaxTime, capacity \in Capacities :
                        RegisterSessionKey(u, c, t, capacity)
        BY <2>4 DEF Next
      <3>2. CASE u = v
        BY <2>1, <2>2, <3>1, <3>2, StuckStays
      <3>3. CASE u # v
        BY <3>1, <3>3, StepsAreLocal
      <3> QED BY <3>2, <3>3
    <2> QED BY <2>3, <2>4
  <1> QED BY <1>1, SoundInit, SoundStep, PTL DEF Spec, StuckVaultsStayStuck

-----------------------------------------------------------------------------
(***************************************************************************)
(* The terms of a vault.                                                   *)
(***************************************************************************)

LEMMA TermsPut ==
  ASSUME SoundInv, TermsInv, NEW v \in Vaults, NEW i, NEW n, Step(v, i, n), Neutral(n)
  PROVE  TermsInv'
  BY DEF TermsInv, Step, SoundInv, TypeOK

LEMMA TermsStep == SoundInv /\ TermsInv /\ [Next]_migrationVars => TermsInv'
  <1> SUFFICES ASSUME SoundInv, TermsInv, [Next]_migrationVars PROVE TermsInv'
    OBVIOUS
  <1>1. ASSUME NEW v \in Vaults, NEW i, NEW n, Step(v, i, n)
        PROVE  Neutral(i) /\ Shape(i)
    BY <1>1 DEF Step, TermsInv
  <1>2. ASSUME NEW v \in Vaults, NEW authority, MigrateV2ToV3(v, authority) PROVE TermsInv'
    <2>1. PICK i, n : /\ Step(v, i, n)
                      /\ i.version = 2 /\ n.version = 3 /\ n.layout = 2
                      /\ n.active_session = i.active_session
                      /\ n.locked = i.locked /\ n.borrowed = i.borrowed
                      /\ n.stale_tail <=> i.stale_tail
      BY <1>2, StepV2ToV3
    <2>2. Neutral(n)
      BY <1>1, <2>1 DEF Neutral, Shape
    <2> QED BY <2>1, <2>2, TermsPut
  <1>3. ASSUME NEW v \in Vaults, NEW authority, MigrateV3ToV4(v, authority) PROVE TermsInv'
    <2>1. PICK i, n : /\ Step(v, i, n)
                      /\ i.version = 3 /\ n.version = 4 /\ n.layout = 4
                      /\ n.locked = 0 /\ n.borrowed = i.borrowed
      BY <1>3, StepV3ToV4
    <2>2. Neutral(n)
      BY <1>1, <2>1 DEF Neutral
    <2> QED BY <2>1, <2>2, TermsPut
  <1>4. ASSUME NEW v \in Vaults, NEW authority, MigrateV4ToV5(v, authority) PROVE TermsInv'
    <2>1. PICK i, n : Step(v, i, n) /\ n.version = 5 /\ n.layout = 5
      BY <1>4, StepV4ToV5
    <2>2. Neutral(n)
      BY <2>1 DEF Neutral
    <2> QED BY <2>1, <2>2, TermsPut
  <1>5. ASSUME NEW v \in Vaults, NEW i, NEW n, Step(v, i, n), n.version = 6 PROVE TermsInv'
    <2>1. Neutral(n)
      BY <1>5 DEF Neutral, Step, Shape
    <2> QED BY <1>5, <2>1, TermsPut
  <1>6. ASSUME NEW v \in Vaults, Hop(v) PROVE TermsInv'
    <2>1. PICK authority \in Authorities \cup {LegacyAdmin} :
            \/ MigrateV2ToV3(v, authority)
            \/ MigrateV3ToV4(v, authority)
            \/ MigrateV4ToV5(v, authority)
            \/ MigrateV5ToV6(v, authority)
            \/ \E c \in Counterparties : MigrateV5ToV6WithSession(v, authority, c)
            \/ MigrateLegacyToV6(v, authority)
      BY <1>6 DEF Hop
    <2>2. CASE MigrateV5ToV6(v, authority)
      BY <2>2, <1>5, StepV5ToV6
    <2>3. CASE \E c \in Counterparties : MigrateV5ToV6WithSession(v, authority, c)
      BY <2>3, <1>5, StepWithSession
    <2>4. CASE MigrateLegacyToV6(v, authority)
      BY <2>4, <1>5, StepLegacy
    <2> QED BY <1>2, <1>3, <1>4, <2>1, <2>2, <2>3, <2>4
  <1>7. ASSUME NEW v \in Vaults, NEW i, NEW n, Step(v, i, n), Kept(i, n),
               Unspoilt(i, n) \/ Spoilt(i, n)
        PROVE  TermsInv'
    <2>1. CASE Unspoilt(i, n)
      <3>1. Neutral(n)
        BY <1>1, <1>7, <2>1 DEF Neutral, Kept, Unspoilt
      <3> QED BY <1>7, <3>1, TermsPut
    <2>2. CASE Spoilt(i, n)
      <3>1. i.version # 6 /\ i.layout \in 1 .. 6 /\ Neutral(i) /\ Shape(i)
        BY <1>1, <1>7, <2>2, ImageFields DEF Step, Spoilt
      <3>2. Neutral(n)
        <4>1. n.layout # 1 /\ n.layout # 6
          BY <1>7, <2>2, <3>1 DEF Kept, Neutral, Spoilt
        <4>2. n.layout \in {1, 2, 3} => n.locked = 0
          BY <1>7, <2>2, <3>1 DEF Kept, Neutral, Spoilt
        <4>3. n.version \in {2, 3, 4, 255} => n.borrowed = 0
          <5>1. n.version \in {2, 3, 4, 255} => n.layout < 5
            BY <1>7, <3>1, <4>1 DEF Kept, Shape
          <5> QED BY <1>7, <2>2, <3>1, <5>1 DEF Kept, Neutral, Spoilt
        <4>4. n.layout \in {2, 3} => n.active_session.crystallized_cumulative = 0
          BY <1>7, <2>2, <3>1 DEF Kept, Spoilt
        <4> QED BY <4>1, <4>2, <4>3, <4>4 DEF Neutral
      <3> QED BY <1>7, <3>2, TermsPut
    <2> QED BY <1>7, <2>1, <2>2
  <1>8. ASSUME NEW v \in Vaults,
               \/ \E amount \in Pendings : RequestWithdrawal(v, amount)
               \/ FinalizeWithdrawal(v)
        PROVE  TermsInv'
    BY <1>7, <1>8, StepWithdrawal
  <1>9. ASSUME NEW v \in Vaults, NEW new \in Authorities, RotateDexterAuthority(v, new)
        PROVE  TermsInv'
    BY <1>7, <1>9, StepRotation
  <1>10. ASSUME NEW v \in Vaults, NEW c \in Counterparties, NEW t \in 1 .. MaxTime,
                NEW capacity \in Capacities, RegisterSessionKey(v, c, t, capacity)
         PROVE  TermsInv'
    BY <1>7, <1>10, StepRegister
  <1>11. CASE Tick \/ UNCHANGED migrationVars
    BY <1>11 DEF Tick, migrationVars, TermsInv, Neutral
  <1> QED BY <1>6, <1>8, <1>9, <1>10, <1>11 DEF Next

\* The terms of a vault whose account is i and whose session says one of readings.
TermsWith(i, readings) ==
    [authority |-> i.authority, pending_withdrawal |-> i.pending_withdrawal,
     cooling_off_seconds |-> i.cooling_off_seconds, session |-> readings,
     locked |-> i.locked, borrowed |-> i.borrowed]

Generation(i) == IF i.layout = 1 THEN 1 ELSE i.version

LEMMA MapPut ==
  ASSUME SoundInv, NEW v \in Vaults, NEW i, NEW n, Step(v, i, n),
         \A u \in Vaults \ {v} : carried'[u] = carried[u]
  PROVE  /\ VaultTerms' = [VaultTerms EXCEPT ![v] = TermsWith(n, Readings(v)')]
         /\ VaultTerms[v] = TermsWith(i, Readings(v))
         /\ Generations' = [Generations EXCEPT ![v] = Generation(n)]
         /\ Generations[v] = Generation(i)
         /\ Generation(n) = Generation(i) => Generations' = Generations
  <1>1. image'[v] = n /\ image[v] = i
    BY DEF Step, SoundInv, TypeOK
  <1>2. \A u \in Vaults \ {v} : image'[u] = image[u]
    BY DEF Step, SoundInv, TypeOK
  <1>3. \A u \in Vaults \ {v} : Terms(u)' = Terms(u)
    <2> SUFFICES ASSUME NEW u \in Vaults \ {v} PROVE Terms(u)' = Terms(u)
      OBVIOUS
    <2>1. image'[u] = image[u] /\ carried'[u] = carried[u]
      BY <1>2
    <2>2. Registered(u)' = Registered(u)
      BY <2>1 DEF Registered
    <2>3. SessionOf(u)' = SessionOf(u)
      BY <2>1, <2>2 DEF SessionOf
    <2>4. Readings(u)' = Readings(u)
      BY <2>1, <2>3 DEF Readings
    <2> QED BY <2>1, <2>4 DEF Terms
  <1>4. Terms(v)' = TermsWith(n, Readings(v)') /\ Terms(v) = TermsWith(i, Readings(v))
    BY <1>1 DEF Terms, TermsWith
  <1>5. /\ VaultTerms' = [VaultTerms EXCEPT ![v] = TermsWith(n, Readings(v)')]
        /\ VaultTerms[v] = TermsWith(i, Readings(v))
    BY <1>3, <1>4 DEF VaultTerms
  <1>6. /\ Generations' = [Generations EXCEPT ![v] = Generation(n)]
        /\ Generations[v] = Generation(i)
    BY <1>1, <1>2 DEF Generations, Generation
  <1>7. Generation(n) = Generation(i) => Generations' = Generations
    BY <1>6 DEF Generations
  <1> QED BY <1>5, <1>6, <1>7

\* Where the session is, before a step and after it.
LEMMA InlineSession ==
  ASSUME NEW v \in Vaults
  PROVE  /\ image[v].version # 6 \/ (\A c \in Counterparties : carried[v][c] = None)
             => SessionOf(v) = image[v].active_session
         /\ image'[v].version # 6 \/ (\A c \in Counterparties : carried'[v][c] = None)
             => SessionOf(v)' = image'[v].active_session
  BY DEF SessionOf, Registered

LEMMA CarriedSession ==
  ASSUME NEW v \in Vaults, image'[v].version = 6,
         NEW c \in Counterparties, carried'[v][c] # None,
         \A d \in Counterparties : carried'[v][d] # None => d = c
  PROVE  SessionOf(v)' = carried'[v][c]
  <1>1. Registered(v)' = {c}
    BY DEF Registered
  <1>2. (CHOOSE d \in {c} : TRUE) = c
    OBVIOUS
  <1> QED BY <1>1, <1>2 DEF SessionOf

\* What a V2 session may say is what VaultV3 may make of it.
LEMMA ReadAsSaid ==
  ASSUME NEW i \in Image, i.layout = 2
  PROVE  {r.active_session : r \in ReadV2AsV3(i)} = Said(i)
  <1>1. CASE i.active_session = None
    BY <1>1 DEF ReadV2AsV3, Said
  <1>2. CASE i.active_session # None
    <2>1. \A outstanding, capacity :
            WithNewMeters(i, outstanding, capacity).active_session
                = Metered(i.active_session, outstanding, capacity)
      BY DEF WithNewMeters, Metered, Image
    <2>2. ReadV2AsV3(i) = {WithNewMeters(i, outstanding, capacity) :
                outstanding \in BeyondPayload(i), capacity \in BeyondPayload(i)}
      BY <1>2 DEF ReadV2AsV3
    <2>3. Said(i) = {Metered(i.active_session, outstanding, capacity) :
                outstanding \in BeyondPayload(i), capacity \in BeyondPayload(i)}
      BY <1>2 DEF Said
    <2> QED BY <2>1, <2>2, <2>3
  <1> QED BY <1>1, <1>2

\* Before V6 all a session may say is in the account; at V6 there is one session.
LEMMA ReadingsAre ==
  ASSUME NEW v \in Vaults
  PROVE  /\ image[v] \in Image /\ image[v].version # 6 => Readings(v) = Said(image[v])
         /\ image[v].layout # 2 => Readings(v) = {SessionOf(v)}
         /\ image'[v] \in Image /\ image'[v].version # 6 => Readings(v)' = Said(image'[v])
         /\ image'[v].layout # 2 => Readings(v)' = {SessionOf(v)'}
  <1>0. \A i : i.layout # 2 => Said(i) = {i.active_session}
    BY DEF Said
  <1>1. ASSUME image[v] \in Image, image[v].version # 6 PROVE Readings(v) = Said(image[v])
    <2>1. SessionOf(v) = image[v].active_session
      BY <1>1, InlineSession
    <2> QED BY <1>0, <1>1, <2>1, ReadAsSaid DEF Readings
  <1>2. ASSUME image'[v] \in Image, image'[v].version # 6 PROVE Readings(v)' = Said(image'[v])
    <2>1. SessionOf(v)' = image'[v].active_session
      BY <1>2, InlineSession
    <2> QED BY <1>0, <1>2, <2>1, ReadAsSaid DEF Readings
  <1> QED BY <1>1, <1>2 DEF Readings

\* A session says something, and if there is one, never that there is none.
LEMMA SomethingSaid ==
  ASSUME NEW i \in Image
  PROVE  /\ Said(i) # {}
         /\ i.active_session # None => None \notin Said(i)
  <1>1. CASE i.layout # 2 \/ i.active_session = None
    BY <1>1 DEF Said
  <1>2. CASE i.layout = 2 /\ i.active_session # None
    <2>1. i.active_session \in Registration
      BY <1>2, ImageFields
    <2>2. Said(i) = {Metered(i.active_session, outstanding, capacity) :
                outstanding \in BeyondPayload(i), capacity \in BeyondPayload(i)}
      BY <1>2 DEF Said
    <2>3. PICK x \in BeyondPayload(i) : TRUE
      BY BeyondType
    <2>4. \A outstanding \in BeyondPayload(i), capacity \in BeyondPayload(i) :
                Metered(i.active_session, outstanding, capacity) # None
      BY <2>1, BeyondType, MeteredType, MigrationsAssumption
    <2> QED BY <2>2, <2>3, <2>4
  <1> QED BY <1>1, <1>2

LEMMA SaidAlike ==
  ASSUME NEW i, NEW n, n.layout = i.layout, n.active_session = i.active_session,
         n.stale_tail <=> i.stale_tail
  PROVE  Said(n) = Said(i)
  <1>1. BeyondPayload(n) = BeyondPayload(i)
    BY DEF BeyondPayload
  <1> QED BY <1>1 DEF Said

LEMMA OtherSession ==
  ASSUME NEW i, NEW n, NEW readings, NEW after,
         SameTerms(i, n), n.locked = i.locked, n.borrowed = i.borrowed
  PROVE  TermsWith(n, after) = [TermsWith(i, readings) EXCEPT !.session = after]
  BY DEF TermsWith, SameTerms

\* What a withdrawal over a session may change.
SpoiltBy(before, pending, readings, locked, borrowed) ==
    [before EXCEPT !.pending_withdrawal = pending, !.session = readings,
                   !.locked = locked, !.borrowed = borrowed]

LEMMA SpoiltTerms ==
  ASSUME NEW i, NEW n, NEW readings, NEW after, NEW before, before = TermsWith(i, readings),
         n.authority = i.authority, n.cooling_off_seconds = i.cooling_off_seconds,
         NEW spoilt,
         spoilt = SpoiltBy(before, n.pending_withdrawal, after, n.locked, n.borrowed)
  PROVE  spoilt = TermsWith(n, after)
  BY DEF TermsWith, SpoiltBy

LEMMA PlainHop ==
  ASSUME SoundInv, NEW v \in Vaults, NEW i, NEW n, Step(v, i, n),
         i.version \in 2 .. 4, n.version = i.version + 1,
         SameTerms(i, n), Said(n) \in SUBSET Said(i),
         n.locked = i.locked, n.borrowed = i.borrowed,
         carried' = carried, now' = now
  PROVE  Upgrade!UpgradeVault(v)
  <1>1. image'[v] = n /\ image[v] = i /\ i \in Image /\ n \in Image
    BY DEF Step, SoundInv, TypeOK
  <1>2. Readings(v) = Said(i) /\ Readings(v)' = Said(n)
    BY <1>1, ReadingsAre
  <1>3. /\ VaultTerms' = [VaultTerms EXCEPT ![v] = TermsWith(n, Said(n))]
        /\ VaultTerms[v] = TermsWith(i, Said(i))
    BY <1>2, MapPut
  <1>4. TermsWith(n, Said(n)) = [VaultTerms[v] EXCEPT !.session = Said(n)]
    BY <1>3, OtherSession
  <1>5. Said(n) \in (SUBSET VaultTerms[v].session) \ {{}}
    BY <1>1, <1>3, SomethingSaid DEF TermsWith
  <1>6. Generation(i) = i.version /\ Generation(n) = i.version + 1
    BY DEF Generation, Step, Shape
  <1>7. Generations' = [Generations EXCEPT ![v] = i.version + 1] /\ Generations[v] = i.version
    BY <1>6, MapPut
  <1>8. /\ i.version + 1 \in Generations[v] + 1 .. 6
        /\ i.version + 1 # 6 /\ Generations[v] < 6
    BY <1>7
  <1> DEFINE next == i.version + 1
             session == Said(n)
             t == [VaultTerms[v] EXCEPT !.session = session]
  <1>9. /\ next \in Generations[v] + 1 .. 6 /\ next # 6 /\ Generations[v] < 6
        /\ session \in (SUBSET VaultTerms[v].session) \ {{}}
        /\ Generations' = [Generations EXCEPT ![v] = next]
        /\ VaultTerms' = [VaultTerms EXCEPT ![v] = IF next = 6 THEN Upgrade!AfterUpgrade(t) ELSE t]
    BY <1>3, <1>4, <1>5, <1>7, <1>8
  <1> HIDE DEF next, session
  <1> QED BY <1>9, Zenon DEF Upgrade!UpgradeVault, Upgrade!Current

LEMMA LastHop ==
  ASSUME SoundInv, NEW v \in Vaults, NEW i, NEW n, Step(v, i, n),
         i.layout # 2, i.version # 6, n.version = 6,
         \A u \in Vaults \ {v} : carried'[u] = carried[u], now' = now,
         TermsWith(n, {SessionOf(v)'}) = Upgrade!AfterUpgrade(TermsWith(i, {i.active_session}))
  PROVE  Upgrade!UpgradeVault(v)
  <1>1. Generation(i) \in 1 .. 5 /\ Generation(n) = 6 /\ n.layout # 2
    BY DEF Generation, Step, Shape
  <1>2. image'[v] = n /\ image[v] = i /\ i \in Image
    BY DEF Step, SoundInv, TypeOK
  <1>3. Readings(v) = {i.active_session} /\ Readings(v)' = {SessionOf(v)'}
    BY <1>1, <1>2, ReadingsAre DEF Said
  <1>4. /\ Generations' = [Generations EXCEPT ![v] = 6] /\ Generations[v] \in 1 .. 5
        /\ VaultTerms[v] = TermsWith(i, {i.active_session})
        /\ VaultTerms' = [VaultTerms EXCEPT ![v] = Upgrade!AfterUpgrade(VaultTerms[v])]
    <2>1. /\ VaultTerms' = [VaultTerms EXCEPT ![v] = TermsWith(n, {SessionOf(v)'})]
          /\ VaultTerms[v] = TermsWith(i, {i.active_session})
          /\ Generations' = [Generations EXCEPT ![v] = Generation(n)]
          /\ Generations[v] = Generation(i)
      BY <1>3, MapPut
    <2> QED BY <1>1, <2>1
  <1> DEFINE session == {i.active_session}
             t == [VaultTerms[v] EXCEPT !.session = session]
  <1>5. session \in (SUBSET VaultTerms[v].session) \ {{}} /\ t = VaultTerms[v]
    BY <1>4 DEF TermsWith
  <1>6. 6 \in Generations[v] + 1 .. 6 /\ Generations[v] < 6
    BY <1>4
  <1>7. VaultTerms' = [VaultTerms EXCEPT ![v] = IF 6 = 6 THEN Upgrade!AfterUpgrade(t) ELSE t]
    BY <1>4, <1>5
  <1> HIDE DEF session
  <1> QED BY <1>4, <1>5, <1>6, <1>7, Zenon DEF Upgrade!UpgradeVault, Upgrade!Current

\* What an upgrade may replace.
Replaced(before, authority, cooling, readings) ==
    [before EXCEPT !.authority = authority, !.cooling_off_seconds = cooling,
                   !.session = readings]

LEMMA TermsReplaced ==
  ASSUME NEW i, NEW s, NEW n, NEW t, NEW before, NEW after,
         before = TermsWith(i, s),
         n.pending_withdrawal = i.pending_withdrawal,
         n.locked = i.locked, n.borrowed = i.borrowed,
         after = Replaced(before, n.authority, n.cooling_off_seconds, t)
  PROVE  after = TermsWith(n, t)
  BY DEF TermsWith, Replaced

LEMMA UpgradedTerms ==
  ASSUME NEW i \in Image, NEW s, NEW n, NEW t,
         n.authority = IF i.authority = None THEN LegacyAdmin ELSE i.authority,
         n.pending_withdrawal = i.pending_withdrawal,
         n.cooling_off_seconds = Clamped(i.cooling_off_seconds),
         n.locked = i.locked, n.borrowed = i.borrowed,
         t = IF Upgrade!Expired(s) THEN None ELSE s
  PROVE  TermsWith(n, {t}) = Upgrade!AfterUpgrade(TermsWith(i, {s}))
  <1> DEFINE before == TermsWith(i, {s})
             after == Upgrade!AfterUpgrade(before)
             readings == {IF Upgrade!Expired(r) THEN None ELSE r : r \in before.session}
  <1>1. /\ before.authority = i.authority /\ before.session = {s}
        /\ before.cooling_off_seconds = i.cooling_off_seconds
        /\ before = TermsWith(i, {s})
    BY DEF TermsWith
  <1>2. readings = {t}
    BY <1>1
  <1> HIDE DEF before
  <1>3. after = Replaced(before, n.authority, n.cooling_off_seconds, readings)
    BY <1>1, Zenon DEF Upgrade!AfterUpgrade, Clamped, Replaced
  <1> HIDE DEF after, readings
  <1>4. after = TermsWith(n, {t})
    BY <1>1, <1>2, <1>3, TermsReplaced
  <1> QED BY <1>4 DEF after, before

LEMMA MapV5ToV6 ==
  ASSUME SoundInv, NEW v \in Vaults, NEW authority, MigrateV5ToV6(v, authority)
  PROVE  Upgrade!UpgradeVault(v)
  <1>1. carried' = carried /\ now' = now
    BY StepV5ToV6
  <1>2. PICK i, n : /\ Step(v, i, n) /\ SameTerms(i, n)
                    /\ i.version = 5 /\ n.version = 6
                    /\ n.locked = i.locked /\ n.borrowed = i.borrowed
                    /\ n.active_session = None
                    /\ i.active_session # None => i.active_session.expires_at <= now
    BY StepV5ToV6
  <1>3. image'[v] = n /\ image[v] = i /\ i \in Image /\ Shape(i) /\ i.layout = 5
    BY <1>2 DEF Step, SoundInv, TypeOK, Shape
  <1>4. \A c \in Counterparties : carried'[v][c] = None
    BY <1>1, <1>2, <1>3 DEF SoundInv, SessionsMatch
  <1>5. SessionOf(v)' = None
    BY <1>2, <1>3, <1>4, InlineSession
  <1>6. None = IF Upgrade!Expired(i.active_session) THEN None ELSE i.active_session
    BY <1>2 DEF Upgrade!Expired
  <1>7. /\ n.authority = IF i.authority = None THEN LegacyAdmin ELSE i.authority
        /\ n.cooling_off_seconds = Clamped(i.cooling_off_seconds)
    BY <1>2, <1>3, ClampedType, ImageFields DEF SameTerms, Shape
  <1>8. TermsWith(n, {None}) = Upgrade!AfterUpgrade(TermsWith(i, {i.active_session}))
    BY <1>2, <1>3, <1>6, <1>7, UpgradedTerms DEF SameTerms
  <1> QED BY <1>1, <1>2, <1>3, <1>5, <1>8, LastHop

LEMMA MapWithSession ==
  ASSUME SoundInv, NEW v \in Vaults, NEW authority, NEW c \in Counterparties,
         MigrateV5ToV6WithSession(v, authority, c)
  PROVE  Upgrade!UpgradeVault(v)
  <1>1. /\ now' = now
        /\ \A d \in Counterparties : carried'[v][d] # None => d = c
        /\ \A u \in Vaults \ {v} : carried'[u] = carried[u]
    BY StepWithSession
  <1>2. PICK i, n : /\ Step(v, i, n) /\ SameTerms(i, n)
                    /\ i.version = 5 /\ n.version = 6
                    /\ n.locked = i.locked /\ n.borrowed = i.borrowed
                    /\ i.active_session # None
                    /\ i.active_session.expires_at > now
                    /\ carried'[v][c] = i.active_session
    BY StepWithSession
  <1>3. image'[v] = n /\ image[v] = i /\ i \in Image /\ Shape(i) /\ i.layout = 5
    BY <1>2 DEF Step, SoundInv, TypeOK, Shape
  <1>4. SessionOf(v)' = i.active_session
    BY <1>1, <1>2, <1>3, CarriedSession
  <1>5. ~Upgrade!Expired(i.active_session)
    <2>1. i.active_session.expires_at \in Int /\ now \in Nat
      BY <1>2, <1>3, ImageFields DEF SoundInv, TypeOK, Registration
    <2> QED BY <1>2, <2>1 DEF Upgrade!Expired
  <1>6. /\ n.authority = IF i.authority = None THEN LegacyAdmin ELSE i.authority
        /\ n.cooling_off_seconds = Clamped(i.cooling_off_seconds)
    BY <1>2, <1>3, ClampedType, ImageFields DEF SameTerms, Shape
  <1>7. TermsWith(n, {i.active_session}) = Upgrade!AfterUpgrade(TermsWith(i, {i.active_session}))
    BY <1>2, <1>3, <1>5, <1>6, UpgradedTerms DEF SameTerms
  <1> QED BY <1>1, <1>2, <1>3, <1>4, <1>7, LastHop

LEMMA MapLegacy ==
  ASSUME SoundInv, TermsInv, NEW v \in Vaults, NEW authority \in Authorities \cup {LegacyAdmin},
         MigrateLegacyToV6(v, authority)
  PROVE  Upgrade!UpgradeVault(v)
  <1>1. carried' = carried /\ now' = now
    BY StepLegacy
  <1>2. PICK i, n : /\ Step(v, i, n)
                    /\ i.layout = 1 /\ n.version = 6
                    /\ n.authority = authority
                    /\ \/ i.len = LegacyV1Len /\ authority = LegacyAdmin
                       \/ i.len = LegacyV15Len /\ authority = i.authority
                    /\ n.pending_withdrawal = i.pending_withdrawal
                    /\ n.cooling_off_seconds = Clamped(i.cooling_off_seconds)
                    /\ n.active_session = None /\ n.locked = 0 /\ n.borrowed = 0
    BY StepLegacy
  <1>3. /\ image'[v] = n /\ image[v] = i /\ i \in Image /\ Neutral(i) /\ i.version # 6
    BY <1>2 DEF Step, SoundInv, TypeOK, TermsInv, Shape
  <1>4. \A c \in Counterparties : carried'[v][c] = None
    BY <1>1, <1>3 DEF SoundInv, SessionsMatch
  <1>5. i.active_session = None /\ i.locked = 0 /\ i.borrowed = 0
    BY <1>2, <1>3 DEF Neutral, Step, Shape
  <1>6. SessionOf(v)' = None
    BY <1>2, <1>3, <1>4, InlineSession
  <1>7. n.authority = IF i.authority = None THEN LegacyAdmin ELSE i.authority
    BY <1>2, <1>3 DEF Neutral, LegacyV1Len, LegacyV15Len
  <1>8. TermsWith(n, {None}) = Upgrade!AfterUpgrade(TermsWith(i, {None}))
    <2>1. None = IF Upgrade!Expired(None) THEN None ELSE None
      OBVIOUS
    <2> QED BY <1>2, <1>3, <1>5, <1>7, <2>1, UpgradedTerms
  <1> QED BY <1>1, <1>2, <1>3, <1>5, <1>6, <1>8, LastHop

\* The terms of a vault the current program writes to, and its generation.
LEMMA MapKept ==
  ASSUME SoundInv, NEW v \in Vaults, NEW i, NEW n, Step(v, i, n), Kept(i, n),
         carried' = carried
  PROVE  /\ VaultTerms' = [VaultTerms EXCEPT ![v] = TermsWith(n, Readings(v)')]
         /\ VaultTerms[v] = TermsWith(i, Readings(v))
         /\ Generations' = Generations /\ Generations[v] = i.version
         /\ Unspoilt(i, n) => Readings(v)' = Readings(v)
  <1>1. image'[v] = n /\ image[v] = i /\ i \in Image /\ n \in Image
    BY DEF Step, SoundInv, TypeOK
  <1>2. Generation(n) = Generation(i) /\ Generation(i) = i.version
    BY DEF Kept, Generation
  <1>3. ASSUME Unspoilt(i, n) PROVE Readings(v)' = Readings(v)
    <2>1. CASE i.version # 6
      BY <1>1, <1>3, <2>1, ReadingsAre, SaidAlike DEF Kept, Unspoilt
    <2>2. CASE i.version = 6
      <3>1. i.layout = 6 /\ n.layout = 6 /\ n.version = 6
        BY <2>2 DEF Step, Shape, Kept
      <3>2. SessionOf(v)' = SessionOf(v)
        <4>1. Registered(v)' = Registered(v)
          BY DEF Registered
        <4> QED BY <1>1, <1>3, <2>2, <3>1, <4>1 DEF SessionOf, Unspoilt
      <3>3. Readings(v) = {SessionOf(v)}
        BY <1>1, <3>1, ReadingsAre
      <3>4. Readings(v)' = {SessionOf(v)'}
        BY <1>1, <3>1, ReadingsAre
      <3> QED BY <3>2, <3>3, <3>4
    <2> QED BY <2>1, <2>2
  <1> QED BY <1>2, <1>3, MapPut

LEMMA MapWithdrawal ==
  ASSUME SoundInv, NEW v \in Vaults,
         \/ \E amount \in Pendings : RequestWithdrawal(v, amount)
         \/ FinalizeWithdrawal(v)
  PROVE  Upgrade!ChangeWithdrawal(v) \/ Upgrade!SpoilSession(v)
  <1>1. carried' = carried /\ now' = now
    BY StepWithdrawal
  <1>2. PICK i, n : /\ Step(v, i, n) /\ Kept(i, n)
                    /\ n.authority = i.authority
                    /\ n.pending_withdrawal \in Pendings \cup {None}
                    /\ Unspoilt(i, n) \/ Spoilt(i, n)
    BY StepWithdrawal
  <1>3. /\ VaultTerms' = [VaultTerms EXCEPT ![v] = TermsWith(n, Readings(v)')]
        /\ VaultTerms[v] = TermsWith(i, Readings(v))
        /\ Generations' = Generations /\ Generations[v] = i.version
        /\ Unspoilt(i, n) => Readings(v)' = Readings(v)
    BY <1>1, <1>2, MapKept
  <1>4. CASE Unspoilt(i, n)
    <2>1. TermsWith(n, Readings(v)') =
            [VaultTerms[v] EXCEPT !.pending_withdrawal = n.pending_withdrawal]
      BY <1>2, <1>3, <1>4 DEF TermsWith, Kept, Unspoilt
    <2>2. VaultTerms' = [VaultTerms EXCEPT ![v].pending_withdrawal = n.pending_withdrawal]
      BY <1>3, <2>1
    <2> QED BY <1>1, <1>2, <1>3, <2>2 DEF Upgrade!ChangeWithdrawal
  <1>5. CASE Spoilt(i, n)
    <2>1. image'[v] = n /\ image[v] = i /\ i \in Image /\ n \in Image
      BY <1>2 DEF Step, SoundInv, TypeOK
    <2>2. i.version # 6 /\ n.version # 6 /\ i.version \in {2, 3, 4, 5}
      BY <1>2, <1>5 DEF Spoilt, Kept, Step, Shape
    <2>3. None \notin Readings(v) /\ None \notin Readings(v)'
      BY <1>5, <2>1, <2>2, ReadingsAre, SomethingSaid DEF Spoilt
    <2> DEFINE after == VaultTerms'[v]
    <2>4. after = TermsWith(n, Readings(v)')
      BY <1>3 DEF VaultTerms
    <2>5. /\ after.pending_withdrawal = n.pending_withdrawal /\ after.session = Readings(v)'
          /\ after.locked = n.locked /\ after.borrowed = n.borrowed
      BY <2>4 DEF TermsWith
    <2>6. VaultTerms[v].pending_withdrawal = i.pending_withdrawal
          /\ VaultTerms[v].session = Readings(v)
      BY <1>3 DEF TermsWith
    <2>7. TermsWith(n, Readings(v)') =
            SpoiltBy(VaultTerms[v], n.pending_withdrawal, Readings(v)', n.locked, n.borrowed)
      BY <1>2, <1>3, SpoiltTerms DEF Kept
    <2>8. VaultTerms' = [VaultTerms EXCEPT ![v] =
            [@ EXCEPT !.pending_withdrawal = after.pending_withdrawal,
                      !.session = after.session,
                      !.locked = after.locked, !.borrowed = after.borrowed]]
      BY <1>3, <2>5, <2>7 DEF SpoiltBy
    <2>9. (after.pending_withdrawal = None) <=> (VaultTerms[v].pending_withdrawal # None)
      BY <1>5, <2>5, <2>6 DEF Spoilt
    <2>10. Generations[v] < 6
      BY <1>3, <2>2
    <2>11. None \notin VaultTerms[v].session /\ None \notin after.session
      BY <2>3, <2>5, <2>6
    <2> HIDE DEF after
    <2>12. after = VaultTerms'[v]
      BY DEF after
    <2> QED BY <1>1, <1>3, <2>8, <2>9, <2>10, <2>11, <2>12 DEF Upgrade!SpoilSession, Upgrade!Current
  <1> QED BY <1>2, <1>4, <1>5

LEMMA MapRotation ==
  ASSUME SoundInv, NEW v \in Vaults, NEW new \in Authorities, RotateDexterAuthority(v, new)
  PROVE  Upgrade!ChangeAuthority(v)
  <1>1. carried' = carried /\ now' = now
    BY StepRotation
  <1>2. PICK i, n : /\ Step(v, i, n) /\ Kept(i, n) /\ Unspoilt(i, n)
                    /\ n.authority = new
                    /\ n.pending_withdrawal = i.pending_withdrawal
    BY StepRotation
  <1>3. /\ VaultTerms' = [VaultTerms EXCEPT ![v] = TermsWith(n, Readings(v)')]
        /\ VaultTerms[v] = TermsWith(i, Readings(v))
        /\ Generations' = Generations
        /\ Readings(v)' = Readings(v)
    BY <1>1, <1>2, MapKept
  <1>4. TermsWith(n, Readings(v)') = [VaultTerms[v] EXCEPT !.authority = new]
    BY <1>2, <1>3 DEF TermsWith, Kept, Unspoilt
  <1>5. VaultTerms' = [VaultTerms EXCEPT ![v].authority = new]
    BY <1>3, <1>4
  <1> QED BY <1>1, <1>3, <1>5 DEF Upgrade!ChangeAuthority

LEMMA MapRegister ==
  ASSUME SoundInv, NEW v \in Vaults, NEW c \in Counterparties, NEW t \in 1 .. MaxTime,
         NEW capacity \in Capacities, RegisterSessionKey(v, c, t, capacity)
  PROVE  Upgrade!OpenSession(v)
  <1> DEFINE s == Opened(c, t, capacity)
  <1>1. /\ now' = now /\ t > now
        /\ \A d \in Counterparties : carried[v][d] = None
        /\ \A d \in Counterparties : carried'[v][d] # None => d = c
        /\ carried'[v][c] = s /\ s # None
        /\ \A u \in Vaults \ {v} : carried'[u] = carried[u]
    BY StepRegister
  <1>2. PICK i, n : /\ Step(v, i, n) /\ Kept(i, n) /\ Unspoilt(i, n) /\ n.version = 6
                    /\ n.authority = i.authority
                    /\ n.pending_withdrawal = i.pending_withdrawal
    BY StepRegister
  <1>3. s.expires_at = t
    BY DEF Opened
  <1> HIDE DEF s
  <1>4. /\ image'[v] = n /\ image[v] = i
        /\ i.version = 6 /\ i.layout = 6 /\ n.layout = 6 /\ i.active_session = None
    BY <1>2 DEF Step, SoundInv, TypeOK, Kept, Shape
  <1>5. SessionOf(v) = None /\ SessionOf(v)' = s
    BY <1>1, <1>2, <1>4, InlineSession, CarriedSession
  <1>6. Readings(v) = {None} /\ Readings(v)' = {s}
    BY <1>4, <1>5, ReadingsAre
  <1>7. Generation(n) = Generation(i) /\ Generation(i) = 6
    BY <1>2, <1>4 DEF Generation
  <1>8. /\ VaultTerms' = [VaultTerms EXCEPT ![v] = TermsWith(n, {s})]
        /\ VaultTerms[v] = TermsWith(i, {None})
        /\ Generations' = Generations /\ Generations[v] = 6
    <2>1. /\ VaultTerms' = [VaultTerms EXCEPT ![v] = TermsWith(n, Readings(v)')]
          /\ VaultTerms[v] = TermsWith(i, Readings(v))
          /\ Generations[v] = Generation(i)
          /\ Generation(n) = Generation(i) => Generations' = Generations
      BY <1>1, <1>2, MapPut
    <2> QED BY <1>6, <1>7, <2>1
  <1>9. TermsWith(n, {s}) = [VaultTerms[v] EXCEPT !.session = {s}]
    BY <1>2, <1>8 DEF TermsWith, Kept, Unspoilt
  <1>10. VaultTerms' = [VaultTerms EXCEPT ![v].session = {s}]
    BY <1>8, <1>9
  <1>11. VaultTerms[v].session = {None} /\ s \in VaultTerms'[v].session
    <2>1. VaultTerms'[v] = TermsWith(n, {s})
      BY <1>8 DEF VaultTerms
    <2> QED BY <1>8, <2>1 DEF TermsWith
  <1> QED BY <1>1, <1>3, <1>8, <1>10, <1>11 DEF Upgrade!OpenSession, Upgrade!Current

LEMMA MapHop ==
  ASSUME SoundInv, TermsInv, NEW v \in Vaults, Hop(v)
  PROVE  Upgrade!UpgradeVault(v)
  <1>1. PICK authority \in Authorities \cup {LegacyAdmin} :
            \/ MigrateV2ToV3(v, authority)
            \/ MigrateV3ToV4(v, authority)
            \/ MigrateV4ToV5(v, authority)
            \/ MigrateV5ToV6(v, authority)
            \/ \E c \in Counterparties : MigrateV5ToV6WithSession(v, authority, c)
            \/ MigrateLegacyToV6(v, authority)
    BY DEF Hop
  <1>2. ASSUME NEW i, NEW n, Step(v, i, n) PROVE Neutral(i) /\ Shape(i)
    BY <1>2 DEF Step, TermsInv
  <1>3. CASE MigrateV2ToV3(v, authority)
    <2>1. PICK i, n : /\ Step(v, i, n) /\ SameTerms(i, n)
                      /\ i.version = 2 /\ n.version = 3 /\ n.layout = 2
                      /\ n.active_session = i.active_session
                      /\ n.locked = i.locked /\ n.borrowed = i.borrowed
                      /\ n.stale_tail <=> i.stale_tail
      BY <1>3, StepV2ToV3
    <2>2. carried' = carried /\ now' = now
      BY <1>3, StepV2ToV3
    <2>3. Said(n) = Said(i)
      BY <1>2, <2>1, SaidAlike DEF Shape
    <2> QED BY <2>1, <2>2, <2>3, PlainHop
  <1>4. CASE MigrateV3ToV4(v, authority)
    <2>1. PICK i, n : /\ Step(v, i, n) /\ SameTerms(i, n)
                      /\ i.version = 3 /\ n.version = 4 /\ n.layout = 4
                      /\ n.locked = 0 /\ n.borrowed = i.borrowed
                      /\ Neutral(i) => n.active_session \in Said(i)
      BY <1>4, StepV3ToV4
    <2>2. carried' = carried /\ now' = now
      BY <1>4, StepV3ToV4
    <2>3. n.locked = i.locked /\ Said(n) \in SUBSET Said(i)
      BY <1>2, <2>1 DEF Neutral, Shape, Said
    <2> QED BY <2>1, <2>2, <2>3, PlainHop
  <1>5. CASE MigrateV4ToV5(v, authority)
    <2>1. PICK i, n : /\ Step(v, i, n) /\ SameTerms(i, n)
                      /\ i.version = 4 /\ n.version = 5 /\ n.layout = 5
                      /\ n.locked = i.locked /\ n.borrowed = 0
                      /\ n.active_session = i.active_session
      BY <1>5, StepV4ToV5
    <2>2. carried' = carried /\ now' = now
      BY <1>5, StepV4ToV5
    <2>3. n.borrowed = i.borrowed /\ i.layout # 2
      BY <1>2, <2>1 DEF Neutral, Shape
    <2>4. Said(n) = Said(i)
      BY <2>1, <2>3 DEF Said
    <2> QED BY <2>1, <2>2, <2>3, <2>4, PlainHop
  <1>6. CASE MigrateV5ToV6(v, authority)
    BY <1>6, MapV5ToV6
  <1>7. CASE \E c \in Counterparties : MigrateV5ToV6WithSession(v, authority, c)
    BY <1>7, MapWithSession
  <1>8. CASE MigrateLegacyToV6(v, authority)
    BY <1>8, MapLegacy
  <1> QED BY <1>1, <1>3, <1>4, <1>5, <1>6, <1>7, <1>8

LEMMA MapStep ==
  SoundInv /\ TermsInv /\ [Next]_migrationVars
      => [Upgrade!Next]_<<VaultTerms, Generations, now>>
  <1> SUFFICES ASSUME SoundInv, TermsInv, [Next]_migrationVars
               PROVE  Upgrade!Next \/ UNCHANGED <<VaultTerms, Generations, now>>
    OBVIOUS
  <1>1. ASSUME NEW v \in Vaults, Hop(v) PROVE Upgrade!Next
    BY <1>1, MapHop DEF Upgrade!Next
  <1>2. ASSUME NEW v \in Vaults,
               \/ \E amount \in Pendings : RequestWithdrawal(v, amount)
               \/ FinalizeWithdrawal(v)
        PROVE  Upgrade!Next
    BY <1>2, MapWithdrawal DEF Upgrade!Next
  <1>3. ASSUME NEW v \in Vaults, NEW new \in Authorities, RotateDexterAuthority(v, new)
        PROVE  Upgrade!Next
    BY <1>3, MapRotation DEF Upgrade!Next
  <1>4. ASSUME NEW v \in Vaults, NEW c \in Counterparties, NEW t \in 1 .. MaxTime,
               NEW capacity \in Capacities, RegisterSessionKey(v, c, t, capacity)
        PROVE  Upgrade!Next
    BY <1>4, MapRegister DEF Upgrade!Next
  <1>5. ASSUME image' = image, carried' = carried
        PROVE  VaultTerms' = VaultTerms /\ Generations' = Generations
    BY <1>5 DEF VaultTerms, Terms, Readings, SessionOf, Registered, Generations
  <1>6. CASE Tick
    <2>1. VaultTerms' = VaultTerms /\ Generations' = Generations
      BY <1>5, <1>6 DEF Tick
    <2> QED BY <1>6, <2>1 DEF Tick, Upgrade!Next, Upgrade!Tick
  <1>7. CASE UNCHANGED migrationVars
    BY <1>5, <1>7 DEF migrationVars
  <1> QED BY <1>1, <1>2, <1>3, <1>4, <1>6, <1>7 DEF Next

LEMMA MapInit == Init => Upgrade!Init
  <1> SUFFICES ASSUME Init PROVE Upgrade!Init
    OBVIOUS
  <1>1. ASSUME NEW v \in Vaults
        PROVE  (IF image[v].layout = 1 THEN 1 ELSE image[v].version) \in 1 .. 5
    <2>1. PICK era \in Eras : image[v] \in LeftBy(era)
      BY DEF Init
    <2>2. Shape(image[v]) /\ image[v].version # 6
      BY <2>1, LeftShape
    <2> QED BY <2>2 DEF Shape
  <1> QED BY <1>1 DEF Upgrade!Init, Upgrade!Current, Generations, Init

\* The byte-level hops of migrate_v2_to_v3 through migrate_v5_to_v6, and
\* migrate_legacy_to_v6, implement the one upgrade VaultUpgrade describes, however
\* withdrawals, rotations and the clock come between them: no hop loses or makes up
\* an authority, pending withdrawal, cooling-off, session, locked amount or loan on
\* the way.  What a V2 session says of meters it does not have is settled by
\* migrate_v3_to_v4, from the bytes behind it.  A withdrawal is the one step that
\* spoils a session, and then only one that is still inline.
THEOREM HopsKeepTerms == Spec => HopsKeepTheTerms
  <1>1. Init => SoundInv /\ TermsInv
    BY SoundInit, TermsInit
  <1>2. SoundInv /\ TermsInv /\ [Next]_migrationVars => SoundInv' /\ TermsInv'
    BY SoundStep, TermsStep
  <1> QED BY <1>1, <1>2, MapInit, MapStep, PTL DEF Spec, HopsKeepTheTerms, Upgrade!Spec

-----------------------------------------------------------------------------
(***************************************************************************)
(* migrate-fleet.ts.  What the script holds is good for the chain as it is *)
(* by then: the vault of its transaction has not fallen behind it, and is  *)
(* past it once the transaction was seen to land.  That needs the versions *)
(* of the vaults to move up only, and by one.                              *)
(***************************************************************************)

\* Where the script is comes with the fields that step uses.
WalkOK ==
    /\ walk.step \in {"idle", "pick", "read", "verify", "send", "poll", "recheck"}
    /\ walk.step \in {"read", "verify"} => walk.vault \in Vaults
    /\ walk.step = "read" => walk.authority \in Authorities
    /\ walk.step \in {"send", "poll", "recheck"} => walk.tx \in Transaction
    /\ walk.step = "poll" => walk = [step |-> "poll", tx |-> walk.tx, status |-> walk.status]

\* The versions the script has learnt of are behind the chain.
TrailInv ==
    /\ walk.step \in {"send", "poll", "recheck"} =>
           image[walk.tx.vault].version \in walk.tx.from .. 6
    /\ walk.step = "poll" /\ walk.status = "landed" =>
           image[walk.tx.vault].version > walk.tx.from
    /\ journal # None /\ journal.status # "failed" =>
           image[journal.vault].version >= journal.to

FleetInv == SoundInv /\ FleetTypeOK /\ WalkOK /\ TrailInv

LEMMA TransactionFields ==
  ASSUME NEW tx \in Transaction
  PROVE  /\ tx.vault \in Vaults /\ tx.authority \in Authorities /\ tx.from \in 2 .. 5
         /\ tx.live_counterparty \in Counterparties \cup {None}
         /\ tx.attempt \in 1 .. MaxAttempts /\ tx.run \in 0 .. MaxFaults
  BY DEF Transaction

\* Execution moves the one vault up one version, from where the transaction starts.
LEMMA Executed ==
  ASSUME SoundInv, NEW tx \in Transaction, Execute(tx)
  PROVE  /\ Hop(tx.vault)
         /\ image[tx.vault].version = tx.from
         /\ image'[tx.vault].version = tx.from + 1
         /\ \A u \in Vaults \ {tx.vault} : image'[u] = image[u]
  <1> DEFINE v == tx.vault
             authority == tx.authority
  <1>1. /\ v \in Vaults /\ authority \in Authorities \cup {LegacyAdmin}
        /\ tx.live_counterparty \in Counterparties \cup {None}
    BY TransactionFields
  <1>2. \/ tx.from = 2 /\ MigrateV2ToV3(v, authority)
        \/ tx.from = 3 /\ MigrateV3ToV4(v, authority)
        \/ tx.from = 4 /\ MigrateV4ToV5(v, authority)
        \/ tx.from = 5 /\ MigrateV5ToV6(v, authority)
        \/ tx.from = 5 /\ \E c \in Counterparties : MigrateV5ToV6WithSession(v, authority, c)
    BY <1>1 DEF Execute
  <1>3. Hop(v)
    BY <1>1, <1>2 DEF Hop
  <1> HIDE DEF v, authority
  <1>4. PICK i, n : Step(v, i, n) /\ i.version = tx.from /\ n.version = tx.from + 1
    <2>1. CASE tx.from = 2 /\ MigrateV2ToV3(v, authority)
      BY <1>1, <2>1, StepV2ToV3
    <2>2. CASE tx.from = 3 /\ MigrateV3ToV4(v, authority)
      BY <1>1, <2>2, StepV3ToV4
    <2>3. CASE tx.from = 4 /\ MigrateV4ToV5(v, authority)
      BY <1>1, <2>3, StepV4ToV5
    <2>4. CASE tx.from = 5 /\ MigrateV5ToV6(v, authority)
      BY <1>1, <2>4, StepV5ToV6
    <2>5. CASE tx.from = 5 /\ \E c \in Counterparties : MigrateV5ToV6WithSession(v, authority, c)
      BY <1>1, <2>5, StepWithSession
    <2> QED BY <1>2, <2>1, <2>2, <2>3, <2>4, <2>5
  <1>5. /\ image[v].version = tx.from /\ image'[v].version = tx.from + 1
        /\ \A u \in Vaults \ {v} : image'[u] = image[u]
    BY <1>1, <1>4 DEF Step, SoundInv, TypeOK
  <1> QED BY <1>3, <1>5 DEF v

\* The current program does not touch the version byte.
LEMMA VersionKept ==
  ASSUME SoundInv,
         \/ Chain
         \/ \E v \in Vaults : Withdraw(v)
         \/ \E v \in Vaults, new \in Authorities : RotateDexterAuthority(v, new)
  PROVE  \A u \in Vaults : image'[u].version = image[u].version
  <1>1. ASSUME NEW v \in Vaults, NEW i, NEW n, Step(v, i, n), Kept(i, n)
        PROVE  \A u \in Vaults : image'[u].version = image[u].version
    BY <1>1 DEF Step, Kept, SoundInv, TypeOK
  <1>2. ASSUME NEW v \in Vaults, Withdraw(v)
        PROVE  \A u \in Vaults : image'[u].version = image[u].version
    BY <1>1, <1>2, StepWithdrawal DEF Withdraw
  <1>3. ASSUME NEW v \in Vaults, NEW new \in Authorities, RotateDexterAuthority(v, new)
        PROVE  \A u \in Vaults : image'[u].version = image[u].version
    BY <1>1, <1>3, StepRotation
  <1>4. ASSUME NEW v \in Vaults, NEW c \in Counterparties, NEW t \in 1 .. MaxTime,
               NEW capacity \in Capacities, RegisterSessionKey(v, c, t, capacity)
        PROVE  \A u \in Vaults : image'[u].version = image[u].version
    BY <1>1, <1>4, StepRegister
  <1> QED BY <1>2, <1>3, <1>4 DEF Chain, Tick

LEMMA ScriptLeavesTheChain ==
  ASSUME ScriptStep
  PROVE  UNCHANGED migrationVars
  BY DEF ScriptStep, StartRun, PickVault, EndRun, ReadChain, Send, SendFails, PollEnds,
         Recheck, Verify

\* The script and the cluster do nothing to the chain that Migrations does not.
LEMMA FleetStepIsAStep ==
  SoundInv /\ FleetTypeOK /\ [FleetNext]_fleetVars => [Next]_migrationVars
  <1> SUFFICES ASSUME SoundInv, FleetTypeOK, [FleetNext]_fleetVars
               PROVE  Next \/ UNCHANGED migrationVars
    OBVIOUS
  <1>1. ASSUME ScriptStep PROVE UNCHANGED migrationVars
    BY <1>1, ScriptLeavesTheChain
  <1>2. ASSUME NEW tx \in inflight, Land(tx) PROVE Next \/ UNCHANGED migrationVars
    <2>1. tx \in Transaction /\ tx.vault \in Vaults
      BY TransactionFields DEF FleetTypeOK
    <2> QED BY <1>2, <2>1, Executed DEF Land, Next
  <1>3. ASSUME NEW tx \in inflight, Drop(tx) PROVE UNCHANGED migrationVars
    BY <1>3 DEF Drop
  <1>4. CASE Chain
    BY <1>4 DEF Chain, Withdraw, Next
  <1>5. CASE Crash \/ RpcFails
    BY <1>5 DEF Crash, RpcFails
  <1>6. ASSUME NEW v \in Vaults, NEW new \in Keys, Rotate(v, new) PROVE Next
    BY <1>6, FleetAssumption DEF Rotate, Next
  <1>7. ASSUME NEW v \in Vaults, WithdrawOverSession(v) PROVE Next
    BY <1>7 DEF WithdrawOverSession, Withdraw, Next
  <1>8. CASE UNCHANGED fleetVars
    BY <1>8 DEF fleetVars
  <1> QED BY <1>1, <1>2, <1>3, <1>4, <1>5, <1>6, <1>7, <1>8 DEF FleetNext

\* What an action does beyond the chain, in the parts FleetInv is made of.
ScriptInv ==
    /\ queue \subseteq Vaults \X Keys
    /\ inflight \subseteq Transaction
    /\ journal \in [vault : Vaults, to : 3 .. 6,
                    status : {"confirmed", "self_healed", "failed", "verified"}]
                  \cup {None}
    /\ faults \in 0 .. MaxFaults
    /\ WalkOK /\ TrailInv

\* Versions move up only, one at a time, and end at 6.
Climbs ==
    \A u \in Vaults :
        \/ image'[u].version = image[u].version
        \/ image[u].version \in 2 .. 5 /\ image'[u].version = image[u].version + 1

LEMMA JournalEntry ==
  ASSUME NEW v \in Vaults, NEW to \in 3 .. 6,
         NEW status \in {"confirmed", "self_healed", "failed", "verified"},
         Report(v, to, status)
  PROVE  /\ journal' \in [vault : Vaults, to : 3 .. 6,
                          status : {"confirmed", "self_healed", "failed", "verified"}]
         /\ journal'.vault = v /\ journal'.to = to /\ journal'.status = status
  BY DEF Report

\* The version behind a transaction, and the version of an entry, are versions.
LEMMA VersionsAreNumbers ==
  ASSUME FleetInv
  PROVE  /\ \A u \in Vaults : image[u].version \in Nat
         /\ journal # None => journal.vault \in Vaults /\ journal.to \in 3 .. 6
         /\ walk.step \in {"send", "poll", "recheck"} =>
                walk.tx.vault \in Vaults /\ walk.tx.from \in 2 .. 5
  <1>1. \A u \in Vaults : image[u].version \in Nat
    BY ImageFields DEF FleetInv, SoundInv, TypeOK
  <1>2. journal # None => journal.vault \in Vaults /\ journal.to \in 3 .. 6
    BY DEF FleetInv, FleetTypeOK
  <1> QED BY <1>1, <1>2, TransactionFields DEF FleetInv, WalkOK

LEMMA TrailKept ==
  ASSUME FleetInv, Climbs, walk' = walk, journal' = journal
  PROVE  TrailInv'
  BY VersionsAreNumbers DEF FleetInv, TrailInv, Climbs

LEMMA ScriptKept ==
  ASSUME FleetInv, Climbs, UNCHANGED <<queue, walk, journal>>,
         inflight' \subseteq inflight, faults' \in 0 .. MaxFaults
  PROVE  ScriptInv'
  <1>1. TrailInv'
    BY TrailKept
  <1> QED BY <1>1 DEF FleetInv, FleetTypeOK, ScriptInv, WalkOK

\* Giving up on a vault.
LEMMA GivenUp ==
  ASSUME FleetInv, NEW v \in Vaults, GiveUp(v), image' = image
  PROVE  /\ journal' \in [vault : Vaults, to : 3 .. 6,
                          status : {"confirmed", "self_healed", "failed", "verified"}]
         /\ WalkOK' /\ TrailInv'
  <1>1. Report(v, 6, "failed") /\ walk' = [step |-> "pick"]
    BY DEF GiveUp, Picking
  <1>2. /\ journal' \in [vault : Vaults, to : 3 .. 6,
                         status : {"confirmed", "self_healed", "failed", "verified"}]
        /\ journal'.status = "failed"
    BY <1>1, JournalEntry
  <1>3. walk'.step = "pick"
    BY <1>1
  <1> QED BY <1>2, <1>3 DEF WalkOK, TrailInv

\* A step of the script that leaves the chain, the journal and the faults alone, and
\* is not about a transaction afterwards.
LEMMA WalksOn ==
  ASSUME FleetInv, image' = image, journal' = journal, faults' = faults,
         inflight' = inflight, queue' \subseteq Vaults \X Keys,
         walk'.step \in {"idle", "pick", "read", "verify"},
         walk'.step \in {"read", "verify"} => walk'.vault \in Vaults,
         walk'.step = "read" => walk'.authority \in Authorities
  PROVE  ScriptInv'
  BY DEF FleetInv, FleetTypeOK, ScriptInv, WalkOK, TrailInv

LEMMA ChosenHopType ==
  ASSUME FleetInv, NEW v \in Vaults, NEW authority \in Authorities, image[v].version \in 2 .. 5
  PROVE  /\ ChosenHop(v, authority) \in Transaction
         /\ ChosenHop(v, authority).vault = v
         /\ ChosenHop(v, authority).from = image[v].version
  <1> DEFINE s == image[v].active_session
             carry == image[v].version = 5 /\ s # None /\ s.expires_at > now
             counterparty == IF carry THEN s.allowed_counterparty ELSE None
             tx == [vault |-> v, authority |-> authority, from |-> image[v].version,
                    live_counterparty |-> counterparty, attempt |-> 1, run |-> faults]
  <1>1. counterparty \in Counterparties \cup {None}
    BY ImageFields DEF FleetInv, SoundInv, TypeOK, Registration
  <1>2. ChosenHop(v, authority) = tx
    BY DEF ChosenHop
  <1> HIDE DEF counterparty
  <1>3. faults \in 0 .. MaxFaults /\ 1 \in 1 .. MaxAttempts
    BY FleetAssumption DEF FleetInv, FleetTypeOK
  <1>4. tx \in Transaction
    BY <1>1, <1>3 DEF Transaction
  <1> QED BY <1>2, <1>4

LEMMA KeepsReadChain ==
  ASSUME FleetInv, ReadChain
  PROVE  ScriptInv'
  <1> DEFINE v == walk.vault
             i == image[v]
             refused == \/ i.version \notin 2 .. 5
                        \/ i.len = Size(6) /\ ~(IncludeMismatch /\ NothingBehindAuthority(i))
  <1>1. v \in Vaults /\ walk.authority \in Authorities /\ walk.step = "read"
    BY DEF FleetInv, WalkOK, ReadChain
  <1>2. /\ image' = image /\ queue' = queue /\ inflight' = inflight /\ faults' = faults
        /\ \/ /\ walk' = [step |-> "verify", vault |-> v]
              /\ journal' = journal
           \/ GiveUp(v)
           \/ /\ ~refused
              /\ walk' = [step |-> "send", tx |-> ChosenHop(v, walk.authority)]
              /\ journal' = journal
    BY DEF ReadChain, migrationVars
  <1>3. CASE GiveUp(v)
    BY <1>1, <1>2, <1>3, GivenUp DEF ScriptInv, FleetInv, FleetTypeOK
  <1>4. CASE walk' = [step |-> "verify", vault |-> v] /\ journal' = journal
    <2>1. walk'.step = "verify" /\ walk'.vault = v
      BY <1>4
    <2>2. queue \subseteq Vaults \X Keys
      BY DEF FleetInv, FleetTypeOK
    <2> QED BY <1>1, <1>2, <1>4, <2>1, <2>2, WalksOn
  <1>5. CASE /\ ~refused
             /\ walk' = [step |-> "send", tx |-> ChosenHop(v, walk.authority)]
             /\ journal' = journal
    <2>1. i.version \in 2 .. 5
      BY <1>5
    <2>2. /\ walk'.step = "send" /\ walk'.tx \in Transaction
          /\ walk'.tx.vault = v /\ walk'.tx.from = image[v].version
      BY <1>1, <1>5, <2>1, ChosenHopType
    <2>3. WalkOK'
      BY <2>2 DEF WalkOK
    <2>4. TrailInv'
      BY <1>2, <1>5, <2>1, <2>2 DEF TrailInv, FleetInv
    <2> QED BY <1>2, <1>5, <2>3, <2>4 DEF ScriptInv, FleetInv, FleetTypeOK
  <1> QED BY <1>2, <1>3, <1>4, <1>5

LEMMA KeepsSend ==
  ASSUME FleetInv, Send
  PROVE  ScriptInv'
  <1>1. /\ walk.step = "send" /\ walk.tx \in Transaction
        /\ image' = image /\ queue' = queue /\ journal' = journal /\ faults' = faults
        /\ inflight' = inflight \cup {walk.tx}
        /\ walk' = [step |-> "poll", tx |-> walk.tx, status |-> "unknown"]
    BY DEF Send, FleetInv, WalkOK, migrationVars
  <1>2. walk'.step = "poll" /\ walk'.tx = walk.tx /\ walk'.status = "unknown"
    BY <1>1
  <1>3. WalkOK'
    BY <1>1, <1>2 DEF WalkOK
  <1>4. TrailInv'
    BY <1>1, <1>2 DEF TrailInv, FleetInv
  <1> QED BY <1>1, <1>3, <1>4 DEF ScriptInv, FleetInv, FleetTypeOK

\* After an error the transaction is the same.
LEMMA KeepsFailed ==
  ASSUME FleetInv, walk.step \in {"send", "poll"}, NEW transient \in BOOLEAN,
         Failed(walk.tx, transient), UNCHANGED <<migrationVars, queue, inflight, journal, faults>>
  PROVE  ScriptInv'
  <1>1. walk' = [step |-> "recheck", tx |-> walk.tx, transient |-> transient]
    BY DEF Failed
  <1>2. walk'.step = "recheck" /\ walk'.tx = walk.tx
    BY <1>1
  <1>3. WalkOK'
    BY <1>2 DEF WalkOK, FleetInv
  <1>4. TrailInv'
    BY <1>2 DEF TrailInv, FleetInv, migrationVars
  <1> QED BY <1>3, <1>4 DEF ScriptInv, FleetInv, FleetTypeOK

LEMMA KeepsPollEnds ==
  ASSUME FleetInv, PollEnds
  PROVE  ScriptInv'
  <1>1. walk.step = "poll" /\ walk.tx \in Transaction
    BY DEF PollEnds, FleetInv, WalkOK
  <1>2. CASE /\ Confirmed
             /\ Report(walk.tx.vault, walk.tx.from + 1, "confirmed")
             /\ walk' = [step |-> "read", vault |-> walk.tx.vault,
                         authority |-> walk.tx.authority]
             /\ UNCHANGED <<migrationVars, queue, inflight, faults>>
    <2>1. /\ walk.tx.vault \in Vaults /\ walk.tx.authority \in Authorities
          /\ walk.tx.from \in 2 .. 5
      BY <1>1, TransactionFields
    <2>2. /\ journal' \in [vault : Vaults, to : 3 .. 6,
                           status : {"confirmed", "self_healed", "failed", "verified"}]
          /\ journal'.vault = walk.tx.vault /\ journal'.to = walk.tx.from + 1
      BY <1>2, <2>1, JournalEntry
    <2>3. /\ walk'.step = "read" /\ walk'.vault = walk.tx.vault
          /\ walk'.authority = walk.tx.authority
      BY <1>2
    <2>4. WalkOK'
      BY <2>1, <2>3 DEF WalkOK
    <2>5. image[walk.tx.vault].version > walk.tx.from /\ image[walk.tx.vault].version \in Nat
      BY <1>1, <1>2, <2>1, VersionsAreNumbers DEF FleetInv, TrailInv, Confirmed
    <2>6. TrailInv'
      BY <1>2, <2>1, <2>2, <2>3, <2>5 DEF TrailInv, migrationVars
    <2> QED BY <1>2, <2>2, <2>4, <2>6 DEF ScriptInv, FleetInv, FleetTypeOK
  <1>3. CASE /\ \E transient \in BOOLEAN : Failed(walk.tx, transient)
             /\ UNCHANGED <<migrationVars, queue, inflight, journal, faults>>
    BY <1>1, <1>3, KeepsFailed
  <1> QED BY <1>2, <1>3 DEF PollEnds

LEMMA KeepsRecheck ==
  ASSUME FleetInv, Recheck
  PROVE  ScriptInv'
  <1> DEFINE tx == walk.tx
             version == image[tx.vault].version
  <1>1. /\ walk.step = "recheck" /\ tx \in Transaction
        /\ tx.vault \in Vaults /\ tx.authority \in Authorities /\ tx.from \in 2 .. 5
        /\ version \in tx.from .. 6
    BY TransactionFields DEF Recheck, FleetInv, WalkOK, TrailInv
  <1>2. image' = image /\ queue' = queue /\ inflight' = inflight /\ faults' = faults
    BY DEF Recheck, migrationVars
  <1>3. CASE /\ version > tx.from
             /\ Report(tx.vault, version, "self_healed")
             /\ walk' = [step |-> "read", vault |-> tx.vault, authority |-> tx.authority]
    <2>1. version \in 3 .. 6
      BY <1>1, <1>3
    <2>2. /\ journal' \in [vault : Vaults, to : 3 .. 6,
                           status : {"confirmed", "self_healed", "failed", "verified"}]
          /\ journal'.vault = tx.vault /\ journal'.to = version
      BY <1>1, <1>3, <2>1, JournalEntry
    <2>3. walk'.step = "read" /\ walk'.vault = tx.vault /\ walk'.authority = tx.authority
      BY <1>3
    <2>4. WalkOK'
      BY <1>1, <2>3 DEF WalkOK
    <2>5. TrailInv'
      BY <1>2, <2>1, <2>2, <2>3 DEF TrailInv
    <2> QED BY <1>2, <2>2, <2>4, <2>5 DEF ScriptInv, FleetInv, FleetTypeOK
  <1>4. CASE GiveUp(tx.vault)
    BY <1>1, <1>2, <1>4, GivenUp DEF ScriptInv, FleetInv, FleetTypeOK
  <1>5. CASE /\ AttemptsLeft(tx)
             /\ walk' = [step |-> "send", tx |-> [tx EXCEPT !.attempt = @ + 1]]
             /\ journal' = journal
    <2> DEFINE again == [tx EXCEPT !.attempt = @ + 1]
    <2>1. tx.attempt + 1 \in 1 .. MaxAttempts
      BY <1>1, <1>5, TransactionFields, FleetAssumption DEF AttemptsLeft
    <2>2. again \in Transaction /\ again.vault = tx.vault /\ again.from = tx.from
      BY <1>1, <2>1 DEF Transaction
    <2>3. walk'.step = "send" /\ walk'.tx = again
      BY <1>5
    <2> HIDE DEF again
    <2>4. WalkOK'
      BY <2>2, <2>3 DEF WalkOK
    <2>5. TrailInv'
      BY <1>1, <1>2, <1>5, <2>2, <2>3 DEF TrailInv, FleetInv
    <2> QED BY <1>2, <1>5, <2>4, <2>5 DEF ScriptInv, FleetInv, FleetTypeOK
  <1> QED BY <1>3, <1>4, <1>5 DEF Recheck

LEMMA KeepsVerify ==
  ASSUME FleetInv, Verify
  PROVE  ScriptInv'
  <1>1. walk.step = "verify" /\ walk.vault \in Vaults
    BY DEF Verify, FleetInv, WalkOK
  <1>2. image' = image /\ queue' = queue /\ inflight' = inflight /\ faults' = faults
    BY DEF Verify, migrationVars
  <1>3. CASE GiveUp(walk.vault)
    BY <1>1, <1>2, <1>3, GivenUp DEF ScriptInv, FleetInv, FleetTypeOK
  <1>4. CASE /\ image[walk.vault].version = 6
             /\ Report(walk.vault, 6, "verified") /\ walk' = Picking
    <2>1. /\ journal' \in [vault : Vaults, to : 3 .. 6,
                           status : {"confirmed", "self_healed", "failed", "verified"}]
          /\ journal'.vault = walk.vault /\ journal'.to = 6
      BY <1>1, <1>4, JournalEntry
    <2>2. walk'.step = "pick"
      BY <1>4 DEF Picking
    <2>3. WalkOK' /\ TrailInv'
      BY <1>2, <1>4, <2>1, <2>2 DEF WalkOK, TrailInv
    <2> QED BY <1>2, <2>1, <2>3 DEF ScriptInv, FleetInv, FleetTypeOK
  <1> QED BY <1>3, <1>4 DEF Verify

\* The other steps of the script: starting, picking a vault, ending, an error.
LEMMA KeepsOther ==
  ASSUME FleetInv, StartRun \/ PickVault \/ EndRun \/ SendFails \/ Crash
  PROVE  ScriptInv'
  <1>1. queue \subseteq Vaults \X Keys /\ Keys \subseteq Authorities
    BY FleetAssumption DEF FleetInv, FleetTypeOK
  <1>2. CASE StartRun
    <2>1. /\ queue' \subseteq Vaults \X Keys /\ walk'.step = "pick"
          /\ image' = image /\ journal' = journal /\ faults' = faults /\ inflight' = inflight
      BY <1>2 DEF StartRun, Picking, migrationVars
    <2> QED BY <2>1, WalksOn
  <1>3. CASE PickVault
    <2>1. PICK entry \in queue :
              /\ walk' = [step |-> "read", vault |-> entry[1], authority |-> entry[2]]
              /\ queue' = queue \ {entry}
      BY <1>3 DEF PickVault
    <2>2. entry[1] \in Vaults /\ entry[2] \in Authorities
      BY <1>1
    <2>3. /\ walk'.step = "read" /\ walk'.vault = entry[1] /\ walk'.authority = entry[2]
          /\ queue' \subseteq Vaults \X Keys
      BY <1>1, <2>1
    <2>4. image' = image /\ journal' = journal /\ faults' = faults /\ inflight' = inflight
      BY <1>3 DEF PickVault, migrationVars
    <2> QED BY <2>2, <2>3, <2>4, WalksOn
  <1>4. CASE EndRun
    <2>1. /\ queue' = queue /\ walk'.step = "idle"
          /\ image' = image /\ journal' = journal /\ faults' = faults /\ inflight' = inflight
      BY <1>4 DEF EndRun, Idle, migrationVars
    <2> QED BY <1>1, <2>1, WalksOn
  <1>5. CASE SendFails
    BY <1>5, KeepsFailed DEF SendFails
  <1>6. CASE Crash
    <2>1. /\ queue' = {} /\ walk'.step = "idle" /\ faults' \in 0 .. MaxFaults
          /\ image' = image /\ journal' = journal /\ inflight' = inflight
      BY <1>6, FleetAssumption DEF Crash, Idle, migrationVars, FleetInv, FleetTypeOK
    <2> QED BY <2>1 DEF FleetInv, FleetTypeOK, ScriptInv, WalkOK, TrailInv
  <1> QED BY <1>2, <1>3, <1>4, <1>5, <1>6

LEMMA KeepsRpcFails ==
  ASSUME FleetInv, RpcFails
  PROVE  ScriptInv'
  <1> DEFINE v == IF walk.step = "recheck" THEN walk.tx.vault ELSE walk.vault
  <1>1. v \in Vaults
    BY TransactionFields DEF RpcFails, FleetInv, WalkOK
  <1>2. /\ GiveUp(v) /\ image' = image /\ queue' = queue /\ inflight' = inflight
        /\ faults' \in 0 .. MaxFaults
    BY FleetAssumption DEF RpcFails, migrationVars, FleetInv, FleetTypeOK
  <1> HIDE DEF v
  <1> QED BY <1>1, <1>2, GivenUp DEF ScriptInv, FleetInv, FleetTypeOK

LEMMA KeepsLand ==
  ASSUME FleetInv, NEW tx \in inflight, Land(tx)
  PROVE  ScriptInv'
  <1>1. tx \in Transaction /\ tx.vault \in Vaults /\ tx.from \in 2 .. 5
    BY TransactionFields DEF FleetInv, FleetTypeOK
  <1>2. /\ queue' = queue /\ journal' = journal /\ faults' = faults
        /\ inflight' = inflight \ {tx}
    BY DEF Land
  <1>3. Climbs
    <2>1. CASE Execute(tx)
      BY <1>1, <2>1, Executed DEF Climbs, FleetInv
    <2>2. CASE UNCHANGED migrationVars
      BY <2>2 DEF Climbs, migrationVars
    <2> QED BY <2>1, <2>2 DEF Land
  <1>4. CASE walk' = walk
    BY <1>2, <1>3, <1>4, ScriptKept DEF FleetInv, FleetTypeOK
  <1>5. CASE walk' # walk
    <2>1. PICK status \in {"landed", "reverted"} :
              /\ walk' = [walk EXCEPT !.status = status]
              /\ walk.step = "poll" /\ walk.tx = tx
              /\ status = "landed" => Execute(tx)
      BY <1>5 DEF Land, SeenByPoll
    <2>2. walk = [step |-> "poll", tx |-> walk.tx, status |-> walk.status]
      BY <2>1 DEF FleetInv, WalkOK
    <2>3. walk' = [step |-> "poll", tx |-> tx, status |-> status]
      BY <2>1, <2>2
    <2>4. walk'.step = "poll" /\ walk'.tx = tx /\ walk'.status = status
      BY <2>3
    <2>5. WalkOK'
      BY <1>1, <2>3, <2>4 DEF WalkOK
    <2>6. /\ image'[tx.vault].version \in tx.from .. 6
          /\ status = "landed" => image'[tx.vault].version > tx.from
      <3>1. image[tx.vault].version \in tx.from .. 6
        BY <2>1 DEF FleetInv, TrailInv
      <3>2. CASE Execute(tx)
        BY <1>1, <3>2, Executed DEF FleetInv
      <3>3. CASE ~Execute(tx)
        BY <1>1, <1>3, <2>1, <3>1, <3>3 DEF Climbs
      <3> QED BY <3>2, <3>3
    <2>7. journal # None /\ journal.status # "failed" => image'[journal.vault].version >= journal.to
      BY <1>3, VersionsAreNumbers DEF FleetInv, TrailInv, Climbs
    <2>8. TrailInv'
      BY <1>2, <2>4, <2>6, <2>7 DEF TrailInv
    <2> QED BY <1>2, <2>5, <2>8 DEF ScriptInv, FleetInv, FleetTypeOK
  <1> QED BY <1>4, <1>5

LEMMA FleetStep == FleetInv /\ [FleetNext]_fleetVars => FleetInv'
  <1> SUFFICES ASSUME FleetInv, [FleetNext]_fleetVars PROVE FleetInv'
    OBVIOUS
  <1>1. SoundInv'
    BY FleetStepIsAStep, SoundStep DEF FleetInv
  <1>2. ScriptInv'
    <2>1. CASE ScriptStep
      BY <2>1, KeepsReadChain, KeepsSend, KeepsPollEnds, KeepsRecheck, KeepsVerify, KeepsOther
         DEF ScriptStep
    <2>2. ASSUME NEW tx \in inflight, Land(tx) PROVE ScriptInv'
      BY <2>2, KeepsLand
    <2>3. ASSUME image' = image PROVE Climbs
      BY <2>3 DEF Climbs
    <2>4. faults \in 0 .. MaxFaults
      BY DEF FleetInv, FleetTypeOK
    <2>5. ASSUME NEW tx \in inflight, Drop(tx) PROVE ScriptInv'
      BY <2>3, <2>4, <2>5, ScriptKept DEF Drop, migrationVars
    <2>6. CASE Chain /\ UNCHANGED script
      <3>1. Climbs
        BY <2>6, VersionKept DEF Climbs, FleetInv
      <3> QED BY <2>4, <2>6, <3>1, ScriptKept DEF script
    <2>7. CASE Crash \/ RpcFails
      BY <2>7, KeepsOther, KeepsRpcFails
    <2>8. ASSUME NEW v \in Vaults, NEW new \in Keys, Rotate(v, new) PROVE ScriptInv'
      <3>1. Climbs
        BY <2>8, VersionKept, FleetAssumption DEF Climbs, FleetInv, Rotate
      <3>2. faults' \in 0 .. MaxFaults
        BY <2>4, <2>8, FleetAssumption DEF Rotate
      <3> QED BY <2>8, <3>1, <3>2, ScriptKept DEF Rotate
    <2>9. ASSUME NEW v \in Vaults, WithdrawOverSession(v) PROVE ScriptInv'
      <3>1. Climbs
        BY <2>9, VersionKept DEF Climbs, FleetInv, WithdrawOverSession
      <3>2. faults' \in 0 .. MaxFaults
        BY <2>4, <2>9, FleetAssumption DEF WithdrawOverSession
      <3> QED BY <2>9, <3>1, <3>2, ScriptKept DEF WithdrawOverSession
    <2>10. CASE UNCHANGED fleetVars
      BY <2>3, <2>4, <2>10, ScriptKept DEF fleetVars, migrationVars, script
    <2> QED BY <2>1, <2>2, <2>5, <2>6, <2>7, <2>8, <2>9, <2>10 DEF FleetNext
  <1> QED BY <1>1, <1>2 DEF FleetInv, FleetTypeOK, ScriptInv, SoundInv

LEMMA FleetStart == FleetInit => FleetInv
  <1> SUFFICES ASSUME FleetInit PROVE FleetInv
    OBVIOUS
  <1>1. SoundInv
    BY SoundInit DEF FleetInit
  <1>2. walk.step = "idle"
    BY DEF FleetInit, Idle
  <1>3. WalkOK /\ TrailInv
    BY <1>2 DEF WalkOK, TrailInv, FleetInit
  <1> QED BY <1>1, <1>3, FleetAssumption DEF FleetInv, FleetTypeOK, FleetInit, SoundInv

\* The script's own state stays in its ranges, attempts and journal versions
\* included: an entry never names a version the chain does not have.
THEOREM FleetTypes == FleetSpec => []FleetTypeOK
  <1>1. FleetInv => FleetTypeOK
    BY DEF FleetInv
  <1> QED BY <1>1, FleetStart, FleetStep, PTL DEF FleetSpec

\* migrate-fleet.ts is no more than a way to run the migrations: whatever it sends,
\* loses, sends again or leaves behind when it is killed, the chain sees steps of
\* Migrations only, so all that is proved of those holds under the script.
THEOREM FleetOnlyMigrates == FleetSpec => Spec
  <1>1. FleetInit => Init
    BY DEF FleetInit
  <1>2. FleetInv => SoundInv /\ FleetTypeOK
    BY DEF FleetInv
  <1> QED BY <1>1, <1>2, FleetStart, FleetStep, FleetStepIsAStep, PTL DEF FleetSpec, Spec

\* Every "confirmed", "self-healed" and "verified" line of the journal is true, and
\* stays true: the hop it reports has happened, although the script may report it
\* from a poll, from a later read of the chain, or after a retry whose first
\* sending landed after all.
THEOREM JournalTells == FleetSpec => []JournalIsTrue
  <1>1. FleetInv => JournalIsTrue
    BY SoundVaults DEF FleetInv, TrailInv, JournalIsTrue
  <1> QED BY <1>1, FleetStart, FleetStep, PTL DEF FleetSpec

\* However many copies of a hop the script leaves in flight, each vault moves up
\* one version at a time, and only by a transaction that was sent for the version
\* it has; a copy that comes to a vault past it leaves all of the chain alone, the
\* sessions carried over or opened since included.
THEOREM LateTransactions == FleetSpec => LateTransactionsAreHarmless
  <1>1. FleetInv /\ [FleetNext]_fleetVars
          => [ /\ \A v \in Vaults :
                    image'[v].version # image[v].version =>
                        /\ image'[v].version = image[v].version + 1
                        /\ \E tx \in inflight \ inflight' :
                                tx.vault = v /\ tx.from = image[v].version
               /\ \A tx \in inflight \ inflight' :
                    image[tx.vault].version # tx.from => UNCHANGED migrationVars ]_fleetVars
    <2> SUFFICES ASSUME FleetInv, FleetNext
                 PROVE  /\ \A v \in Vaults :
                            image'[v].version # image[v].version =>
                                /\ image'[v].version = image[v].version + 1
                                /\ \E tx \in inflight \ inflight' :
                                        tx.vault = v /\ tx.from = image[v].version
                        /\ \A tx \in inflight \ inflight' :
                            image[tx.vault].version # tx.from => UNCHANGED migrationVars
      OBVIOUS
    <2>1. CASE UNCHANGED migrationVars
      BY <2>1 DEF migrationVars
    <2>2. CASE \E tx \in inflight : Land(tx) /\ Execute(tx)
      <3>1. PICK tx \in inflight : Land(tx) /\ Execute(tx)
        BY <2>2
      <3>2. tx \in Transaction /\ inflight \ inflight' = {tx}
        BY <3>1 DEF Land, FleetInv, FleetTypeOK
      <3>3. /\ image[tx.vault].version = tx.from
            /\ image'[tx.vault].version = tx.from + 1
            /\ \A u \in Vaults \ {tx.vault} : image'[u] = image[u]
        BY <3>1, <3>2, Executed DEF FleetInv
      <3> QED BY <3>2, <3>3
    <2>3. CASE /\ \A u \in Vaults : image'[u].version = image[u].version
               /\ inflight' = inflight
      BY <2>3
    <2>4. ASSUME NEW tx \in inflight, Land(tx)
          PROVE  UNCHANGED migrationVars \/ \E t \in inflight : Land(t) /\ Execute(t)
      BY <2>4 DEF Land
    <2>5. ASSUME NEW tx \in inflight, Drop(tx) PROVE UNCHANGED migrationVars
      BY <2>5 DEF Drop
    <2>6. ASSUME Crash \/ RpcFails PROVE UNCHANGED migrationVars
      BY <2>6 DEF Crash, RpcFails
    <2>7. ASSUME \/ Chain /\ UNCHANGED script
                 \/ \E v \in Vaults : WithdrawOverSession(v) \/ \E new \in Keys : Rotate(v, new)
          PROVE  /\ \A u \in Vaults : image'[u].version = image[u].version
                 /\ inflight' = inflight
      <3>1. inflight' = inflight
        BY <2>7 DEF script, WithdrawOverSession, Rotate
      <3>2. \/ Chain
            \/ \E v \in Vaults : Withdraw(v)
            \/ \E v \in Vaults, new \in Authorities : RotateDexterAuthority(v, new)
        BY <2>7, FleetAssumption DEF WithdrawOverSession, Rotate
      <3> QED BY <3>1, <3>2, VersionKept DEF FleetInv
    <2> QED BY <2>1, <2>2, <2>3, <2>4, <2>5, <2>6, <2>7, ScriptLeavesTheChain DEF FleetNext
  <1> QED BY <1>1, FleetStart, FleetStep, PTL DEF FleetSpec, LateTransactionsAreHarmless

=================================================================================
