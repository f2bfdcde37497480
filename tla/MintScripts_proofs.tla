------------------------- MODULE MintScripts_proofs -------------------------
(***************************************************************************)
(* For any runs of the two scripts, whatever goes wrong and however often: *)
(* nothing is minted twice, what is minted and paid for belongs to the key *)
(* pair in wallet.json unless two runs made one, and no transaction is     *)
(* refused for want of SOL.  No step leads back and every place has its    *)
(* next step, which is why every run ends; and once nothing goes wrong any *)
(* more, a run that is on its way to a mint stays so.                      *)
(***************************************************************************)
EXTENDS MintScripts, Integers, FiniteSetTheorems, TLAPS
-----------------------------------------------------------------------------
\* What a run has made once it sends a transaction, and when that has landed.
MintOnly == [issued |-> 0, held |-> Absent]
MintAndAta == [issued |-> 0, held |-> 0]
Minted == [issued |-> 1, held |-> 1]

Before(tx) ==
  CASE tx \in {"create_mint", "create_nft"} -> Absent
    [] tx = "create_ata" -> MintOnly
    [] tx = "mint_to" -> MintAndAta

Landed(tx) ==
  CASE tx = "create_mint" -> MintOnly
    [] tx = "create_ata" -> MintAndAta
    [] tx \in {"mint_to", "create_nft"} -> Minted

Known(r) == at[r] \in {"generate", "write", "done"} \cup Funding \cup Minting

KeysOK ==
  /\ wallet \in Keys \cup {Absent, Empty, Torn}
  /\ at \in [Runs -> {"idle"} \cup Loading \cup Funding \cup Minting \cup Ended]
  /\ key \in [Runs -> Keys \cup {Absent}]
  /\ \A r \in Runs :
       /\ at[r] \in {"idle", "read"} => key[r] = Absent
       /\ at[r] \in {"generate", "write"} => key[r] = r
       /\ at[r] = "read" => wallet # Absent
       /\ wallet = r => key[r] = r
       /\ Known(r) => key[r] # Absent

StageOK(r) ==
  /\ made[r] \in {Absent, MintOnly, MintAndAta, Minted}
  /\ flight[r] # Absent =>
       /\ flight[r].tx \in Plan(r) /\ key[r] # Absent
       /\ made[r] = IF flight[r].status = "landed" THEN Landed(flight[r].tx)
                                                   ELSE Before(flight[r].tx)
  /\ made[r] # Absent => key[r] # Absent
  /\ at[r] \in {"idle"} \cup Loading \cup Funding => flight[r] = Absent /\ made[r] = Absent
  /\ at[r] \in Transactions =>
       /\ at[r] \in Plan(r)
       /\ IF flight[r] = Absent THEN made[r] = Before(at[r]) ELSE flight[r].tx = at[r]
  /\ at[r] = "get_ata" =>
       /\ r \notin NftRuns
       /\ IF flight[r] = Absent THEN made[r] = MintAndAta ELSE flight[r].tx = "create_ata"
  /\ at[r] \in {"verify", "done"} => flight[r] = Absent /\ made[r] = Minted

Stages ==
  /\ flight \in [Runs -> Sent \cup {Absent}]
  /\ made \in [Runs -> Made \cup {Absent}]
  /\ \A r \in Runs : StageOK(r)

\* The transactions that follow one, those a run has still to send, and those
\* that may still be executed, of a run and with a key pair.
Later(tx) ==
  CASE tx = "create_mint" -> {"create_ata", "mint_to"}
    [] tx = "create_ata" -> {"mint_to"}
    [] tx \in {"mint_to", "create_nft"} -> {}

Ahead(r) ==
  IF at[r] \in Transactions
    THEN Later(at[r]) \cup (IF flight[r] = Absent THEN {at[r]} ELSE {})
    ELSE IF at[r] = "get_ata" THEN {"mint_to"} ELSE {}

Left(r) == Ahead(r) \cup (IF Flying(r) THEN {flight[r].tx} ELSE {})

Owed(k) == {p \in Runs \X Transactions : key[p[1]] = k /\ p[2] \in Left(p[1])}

Funded ==
  /\ sol \in [Keys -> Nat]
  /\ \A k \in Keys : Cardinality(Owed(k)) <= sol[k]

\* No two runs found no wallet file.
Solo == \A p, q \in Runs : key[p] = p /\ key[q] = q => p = q

Active(r) ==
  at[r] \in Funding \cup Minting \cup {"done"} \/ flight[r] # Absent \/ made[r] # Absent

OneWallet ==
  Solo =>
    /\ \A r \in Runs : Active(r) => wallet = key[r]
    /\ \A k \in Keys : sol[k] > 0 => wallet = k
    /\ \A r \in Runs : at[r] \in {"generate", "write"} => wallet \notin Keys
    /\ \A r \in Runs : at[r] = "write" => wallet = Empty

Inv == KeysOK /\ Stages /\ Funded /\ OneWallet

RunStep(q) == FindWallet(q) \/ Progress(q) \/ GoesWrong(q)

-----------------------------------------------------------------------------
(***************************************************************************)
(* What a run makes.                                                       *)
(***************************************************************************)
LEMMA Values ==
  /\ Before("create_mint") = Absent /\ Before("create_nft") = Absent
  /\ Before("create_ata") = MintOnly /\ Before("mint_to") = MintAndAta
  /\ Landed("create_mint") = MintOnly /\ Landed("create_ata") = MintAndAta
  /\ Landed("mint_to") = Minted /\ Landed("create_nft") = Minted
  /\ Later("create_mint") = {"create_ata", "mint_to"} /\ Later("create_ata") = {"mint_to"}
  /\ Later("mint_to") = {} /\ Later("create_nft") = {}
BY DEF Before, Landed, Later

LEMMA MadeValues ==
  /\ {MintOnly, MintAndAta, Minted} \subseteq Made
  /\ Absent \notin {MintOnly, MintAndAta, Minted}
  /\ MintOnly.issued = 0 /\ MintOnly.held = Absent
  /\ MintAndAta.issued = 0 /\ MintAndAta.held = 0 /\ MintAndAta.held # Absent
  /\ Minted.issued = 1 /\ Minted.held = 1 /\ Minted.held # Absent
<1>1. Absent \notin Nat /\ Absent \notin Made
  BY AbsentAssumption
<1>2. {MintOnly, MintAndAta, Minted} \subseteq Made
  BY DEF MintOnly, MintAndAta, Minted, Made
<1> QED  BY <1>1, <1>2 DEF MintOnly, MintAndAta, Minted

LEMMA Distinct ==
  /\ Absent \notin Keys /\ Runs \subseteq Keys
  /\ Empty \notin Keys /\ Empty # Absent
  /\ Torn \notin Keys /\ Torn # Absent /\ Torn # Empty
  /\ Earlier \in Keys /\ Earlier \notin Runs
BY RunsAssumption DEF Keys

LEMMA PlanFirst ==
  ASSUME NEW r \in Runs
  PROVE  /\ FirstStep(r) \in Plan(r) /\ FirstStep(r) \in Transactions
         /\ Before(FirstStep(r)) = Absent
         /\ Plan(r) \subseteq Transactions
BY Values DEF FirstStep, Plan, Transactions

\* A step is one of one run, and leaves the others where they are.
LEMMA OneMoves ==
  ASSUME KeysOK, Stages, NEW q \in Runs, RunStep(q), NEW r \in Runs, r # q
  PROVE  /\ at'[r] = at[r] /\ key'[r] = key[r]
         /\ flight'[r] = flight[r] /\ made'[r] = made[r]
BY DEF KeysOK, Stages, RunStep, FindWallet, Progress, GoesWrong, LoadStep, FundStep,
       MintStep, OpenWallet, WriteWallet, ReadWallet, CheckBalance, Airdrop, Send,
       Confirmed, Rejected, GetAta, NoAta, Verify, Land, Dies, AnswerLost,
       AirdropInDoubt, Expire, Goes

-----------------------------------------------------------------------------
(***************************************************************************)
(* Which key pair a run works with.                                        *)
(***************************************************************************)
LEMMA KeysStep ==
  ASSUME KeysOK, Stages, NEW q \in Runs, RunStep(q)
  PROVE  KeysOK'
<1> USE DEF KeysOK
<1>0. /\ wallet \in Keys \cup {Absent, Empty, Torn}
      /\ at \in [Runs -> {"idle"} \cup Loading \cup Funding \cup Minting \cup Ended]
      /\ key \in [Runs -> Keys \cup {Absent}]
  OBVIOUS
<1>1. CASE FindWallet(q)
  BY <1>1, Distinct DEF FindWallet, Goes, Known, Loading, Funding, Minting, Transactions, Ended
<1>2. CASE OpenWallet(q)
  BY <1>2, Distinct DEF OpenWallet, Goes, Known, Loading, Funding, Minting, Transactions, Ended
<1>3. CASE WriteWallet(q)
  BY <1>3, Distinct DEF WriteWallet, Saved, Goes, Known, Loading, Funding, Minting,
     Transactions, Ended
<1>4. CASE ReadWallet(q)
  BY <1>4, Distinct DEF ReadWallet, Parses, Goes, Known, Loading, Funding, Minting,
     Transactions, Ended
<1>5. ASSUME NEW place \in Minting \cup {"failed", "done", "airdrop"}, Goes(q, place),
             Known(q) \/ place = "failed", UNCHANGED <<wallet, key>>
      PROVE  KeysOK'
  BY <1>5, Distinct DEF Goes, Known, Loading, Funding, Minting, Transactions, Ended
<1>6. CASE UNCHANGED <<at, wallet, key>>
  BY <1>6 DEF Known
<1>7. CASE FundStep(q)
  <2>1. Known(q) /\ FirstStep(q) \in Minting
    BY <1>7, PlanFirst DEF FundStep, CheckBalance, Airdrop, Known, Funding, Minting
  <2> QED  BY <1>5, <1>7, <2>1 DEF FundStep, CheckBalance, Airdrop
<1>8. CASE MintStep(q)
  <2>1. CASE Send(q)
    BY <1>6, <2>1 DEF Send
  <2>2. CASE Confirmed(q)
    <3>1. After(at[q]) \in Minting \cup {"done"}
      BY <2>2 DEF Confirmed, After, Minting, Transactions
    <3>2. Known(q)
      BY <2>2 DEF Confirmed, Known, Minting
    <3> QED  BY <1>5, <2>2, <3>1, <3>2 DEF Confirmed
  <2>3. CASE Rejected(q) \/ GetAta(q) \/ Verify(q)
    BY <1>5, <2>3 DEF Rejected, GetAta, NoAta, Verify, Known, Minting, Transactions
  <2> QED  BY <1>8, <2>1, <2>2, <2>3 DEF MintStep
<1>9. CASE Land(q)
  BY <1>6, <1>9 DEF Land
<1>10. CASE GoesWrong(q)
  BY <1>5, <1>6, <1>10 DEF GoesWrong, Dies, AnswerLost, AirdropInDoubt, Expire, Known,
     Minting, Transactions
<1> QED
  BY <1>1, <1>2, <1>3, <1>4, <1>7, <1>8, <1>9, <1>10 DEF RunStep, Progress, LoadStep

-----------------------------------------------------------------------------
(***************************************************************************)
(* How far it came: what it made is what its transactions up to the last   *)
(* one make, and that one only if it landed.                               *)
(***************************************************************************)
LEMMA StagesOfOne ==
  ASSUME KeysOK, Stages, NEW q \in Runs, RunStep(q),
         flight' \in [Runs -> Sent \cup {Absent}], made' \in [Runs -> Made \cup {Absent}],
         StageOK(q)'
  PROVE  Stages'
<1>1. ASSUME NEW r \in Runs, r # q PROVE StageOK(r)'
  <2>1. /\ at'[r] = at[r] /\ key'[r] = key[r]
        /\ flight'[r] = flight[r] /\ made'[r] = made[r]
    BY <1>1, OneMoves
  <2>2. StageOK(r)
    BY DEF Stages
  <2> QED  BY <2>1, <2>2 DEF StageOK
<1> QED  BY <1>1 DEF Stages

\* A run that only moves on.
LEMMA MovesOn ==
  ASSUME KeysOK, Stages, NEW q \in Runs, RunStep(q), UNCHANGED <<flight, made>>,
         NEW place \in Loading \cup Funding \cup Minting \cup Ended, Goes(q, place),
         \/ place = "failed"
         \/ place \in Loading \cup Funding /\ flight[q] = Absent /\ made[q] = Absent
         \/ place = FirstStep(q) /\ flight[q] = Absent /\ made[q] = Absent
         \/ place = "get_ata" /\ at[q] = "create_ata" /\ flight[q] # Absent
         \/ place = "done" /\ at[q] = "verify"
  PROVE  Stages'
<1>1. /\ at'[q] = place /\ StageOK(q)
      /\ key[q] # Absent => key'[q] # Absent
      /\ flight' \in [Runs -> Sent \cup {Absent}] /\ made' \in [Runs -> Made \cup {Absent}]
  <2>1. at'[q] = place
    BY DEF KeysOK, Goes
  <2>2. key[q] # Absent => key'[q] # Absent
    BY KeysStep DEF KeysOK, RunStep, FindWallet, Progress, GoesWrong, LoadStep, FundStep,
       MintStep, OpenWallet, WriteWallet, ReadWallet, CheckBalance, Airdrop, Send,
       Confirmed, Rejected, GetAta, Verify, Land, Dies, AnswerLost, AirdropInDoubt, Expire
  <2> QED  BY <2>1, <2>2 DEF Stages
<1>2. StageOK(q)'
  <2>1. CASE place = "failed"
    BY <1>1, <2>1 DEF StageOK, Loading, Funding, Transactions
  <2>2. CASE place \in Loading \cup Funding /\ flight[q] = Absent /\ made[q] = Absent
    BY <1>1, <2>2 DEF StageOK, Loading, Funding, Transactions
  <2>3. CASE place = FirstStep(q) /\ flight[q] = Absent /\ made[q] = Absent
    <3>1. FirstStep(q) \in {"create_mint", "create_nft"}
      BY DEF FirstStep
    <3> QED  BY <1>1, <2>3, <3>1, PlanFirst DEF StageOK, Loading, Funding, Transactions
  <2>4. CASE place = "get_ata" /\ at[q] = "create_ata" /\ flight[q] # Absent
    <3>1. q \notin NftRuns
      BY <1>1, <2>4 DEF StageOK, Transactions, Plan
    <3> QED  BY <1>1, <2>4, <3>1 DEF StageOK, Loading, Funding, Transactions
  <2>5. CASE place = "done" /\ at[q] = "verify"
    BY <1>1, <2>5 DEF StageOK, Loading, Funding, Transactions
  <2> QED  BY <2>1, <2>2, <2>3, <2>4, <2>5
<1> QED  BY <1>1, <1>2, StagesOfOne

LEMMA SendStage ==
  ASSUME KeysOK, Stages, NEW q \in Runs, Send(q)
  PROVE  Stages'
<1> DEFINE o == [tx |-> at[q], status |-> "flying"]
<1>1. /\ at[q] \in Transactions /\ flight[q] = Absent /\ StageOK(q) /\ Known(q)
      /\ UNCHANGED <<at, key, made>> /\ flight' = [flight EXCEPT ![q] = o]
  BY DEF Send, Stages, Known, Minting
<1>2. o \in Sent /\ o # Absent /\ o.tx = at[q] /\ o.status # "landed"
  BY <1>1, AbsentAssumption DEF Sent
<1> HIDE DEF o
<1>3. flight' \in [Runs -> Sent \cup {Absent}] /\ flight'[q] = o
  BY <1>1, <1>2 DEF Stages
<1>4. key[q] # Absent
  BY <1>1 DEF KeysOK
<1>5. StageOK(q)'
  BY <1>1, <1>2, <1>3, <1>4 DEF StageOK, Loading, Funding, Transactions
<1>6. made' \in [Runs -> Made \cup {Absent}] /\ RunStep(q)
  BY <1>1 DEF Stages, RunStep, Progress, MintStep
<1> QED  BY <1>3, <1>5, <1>6, StagesOfOne

LEMMA ConfirmedStage ==
  ASSUME KeysOK, Stages, NEW q \in Runs, Confirmed(q)
  PROVE  Stages'
<1> DEFINE tx == at[q]
<1>1. /\ tx \in Transactions /\ flight[q] # Absent /\ flight[q].status = "landed"
      /\ Goes(q, After(tx)) /\ flight' = [flight EXCEPT ![q] = Absent]
      /\ UNCHANGED <<key, made>>
  BY DEF Confirmed, Answered
<1>2. StageOK(q)
  BY DEF Stages
<1>3. made[q] = Landed(tx) /\ key[q] # Absent /\ tx \in Plan(q)
  BY <1>1, <1>2 DEF StageOK
<1>4. at'[q] = After(tx) /\ flight'[q] = Absent /\ flight' \in [Runs -> Sent \cup {Absent}]
  BY <1>1 DEF KeysOK, Goes, Stages
<1>5. ASSUME tx = "create_mint" PROVE StageOK(q)'
  <2>1. After(tx) = "create_ata" /\ "create_ata" \in Plan(q)
    BY <1>3, <1>5 DEF After, Plan, Transactions
  <2> QED
    BY <1>1, <1>3, <1>4, <1>5, <2>1, Values, MadeValues DEF StageOK, Loading, Funding, Transactions
<1>6. ASSUME tx = "create_ata" PROVE StageOK(q)'
  <2>1. After(tx) = "get_ata" /\ q \notin NftRuns
    BY <1>3, <1>6 DEF After, Plan, Transactions
  <2> QED
    BY <1>1, <1>3, <1>4, <1>6, <2>1, Values, MadeValues DEF StageOK, Loading, Funding, Transactions
<1>7. ASSUME tx \in {"mint_to", "create_nft"} PROVE StageOK(q)'
  <2>1. After(tx) \in {"verify", "done"}
    BY <1>7 DEF After
  <2> QED
    BY <1>1, <1>3, <1>4, <1>7, <2>1, Values, MadeValues DEF StageOK, Loading, Funding, Transactions
<1>8. StageOK(q)'
  BY <1>1, <1>5, <1>6, <1>7 DEF Transactions
<1>9. made' \in [Runs -> Made \cup {Absent}] /\ RunStep(q)
  BY <1>1 DEF Stages, RunStep, Progress, MintStep
<1> QED  BY <1>4, <1>8, <1>9, StagesOfOne

LEMMA GetAtaStage ==
  ASSUME KeysOK, Stages, NEW q \in Runs, GetAta(q)
  PROVE  Stages'
<1>1. StageOK(q) /\ at[q] = "get_ata" /\ UNCHANGED <<key, made>> /\ RunStep(q)
  BY DEF GetAta, Stages, RunStep, Progress, MintStep
<1>2. CASE NoAta(q)
  BY <1>1, <1>2, MovesOn DEF NoAta, Ended
<1>3. CASE /\ made[q].held # Absent /\ Goes(q, "mint_to")
           /\ flight' = [flight EXCEPT ![q] = Absent]
  <2>1. at'[q] = "mint_to" /\ flight'[q] = Absent /\ flight' \in [Runs -> Sent \cup {Absent}]
    BY <1>3 DEF KeysOK, Goes, Stages
  <2>2. made[q] = MintAndAta /\ "mint_to" \in Plan(q)
    BY <1>1, <1>3, Values, MadeValues DEF StageOK, Plan, Transactions
  <2>3. StageOK(q)'
    BY <1>1, <2>1, <2>2, Values, MadeValues DEF StageOK, Loading, Funding, Transactions
  <2>4. made' \in [Runs -> Made \cup {Absent}]
    BY <1>1 DEF Stages
  <2> QED  BY <1>1, <2>1, <2>3, <2>4, StagesOfOne
<1> QED  BY <1>2, <1>3 DEF GetAta

\* What the network makes of a transaction leaves the run where it is.
LEMMA Arrives ==
  ASSUME KeysOK, Stages, NEW q \in Runs, RunStep(q), Flying(q), UNCHANGED <<at, key>>,
         NEW status \in {"landed", "expired"},
         flight' = [flight EXCEPT ![q].status = status],
         made' = IF status = "landed" THEN [made EXCEPT ![q] = Landed(flight[q].tx)] ELSE made
  PROVE  Stages'
<1> DEFINE tx == flight[q].tx
           o == [flight[q] EXCEPT !.status = status]
<1>1. /\ flight[q] \in Sent /\ flight[q] # Absent /\ StageOK(q)
      /\ flight[q].status = "flying" /\ tx \in Transactions
  BY DEF Flying, Stages, Sent
<1>2. o \in Sent /\ o # Absent /\ o.tx = tx /\ o.status = status
  BY <1>1, AbsentAssumption DEF Sent
<1>3. flight' = [flight EXCEPT ![q] = o]
  BY DEF Stages
<1> HIDE DEF o
<1>4. flight' \in [Runs -> Sent \cup {Absent}] /\ flight'[q] = o
  BY <1>2, <1>3 DEF Stages
<1>5. Landed(tx) \in {MintOnly, MintAndAta, Minted}
  BY <1>1, Values DEF Transactions
<1>6. /\ made' \in [Runs -> Made \cup {Absent}]
      /\ made'[q] = IF status = "landed" THEN Landed(tx) ELSE made[q]
  BY <1>5, MadeValues DEF Stages
<1>7. made[q] = Before(tx) /\ key[q] # Absent /\ tx \in Plan(q)
  BY <1>1 DEF StageOK
<1>8. /\ at[q] \notin {"idle", "verify", "done"} \cup Loading \cup Funding
      /\ at[q] \in Transactions => at[q] = tx
      /\ at[q] = "get_ata" => tx = "create_ata"
  BY <1>1 DEF StageOK
<1> HIDE DEF tx
<1>9. StageOK(q)'
  BY <1>1, <1>2, <1>4, <1>5, <1>6, <1>7, <1>8 DEF StageOK
<1> QED  BY <1>4, <1>6, <1>9, StagesOfOne

LEMMA LandStage ==
  ASSUME KeysOK, Stages, NEW q \in Runs, Land(q)
  PROVE  Stages'
<1> DEFINE tx == flight[q].tx
           ok == Executable(q, tx)
           status == IF ok THEN "landed" ELSE "expired"
<1>1. /\ Flying(q) /\ UNCHANGED <<at, key>> /\ RunStep(q)
      /\ flight' = [flight EXCEPT ![q].status = status]
      /\ made' = IF ok THEN [made EXCEPT ![q] = Executed(q, tx)] ELSE made
  BY DEF Land, RunStep, Progress
<1>2. Executed(q, tx) = Landed(tx)
  <2>1. tx \in Transactions /\ made[q] = Before(tx)
    BY <1>1 DEF Flying, Stages, StageOK, Sent
  <2>2. CASE tx = "create_mint"
    BY <2>2, Values DEF Executed, MintOnly
  <2>3. CASE tx = "create_ata"
    <3>1. Executed(q, tx) = [made[q] EXCEPT !.held = 0]
      BY <2>3 DEF Executed
    <3> QED  BY <2>1, <2>3, <3>1, Values DEF MintOnly, MintAndAta
  <2>4. CASE tx = "mint_to"
    <3>1. Executed(q, tx) = [issued |-> made[q].issued + 1, held |-> made[q].held + 1]
      BY <2>4 DEF Executed
    <3>2. made[q] = MintAndAta
      BY <2>1, <2>4, Values
    <3> QED  BY <2>4, <3>1, <3>2, Values, MadeValues DEF Minted
  <2>5. CASE tx = "create_nft"
    BY <2>5, Values DEF Executed, Minted
  <2> QED  BY <2>1, <2>2, <2>3, <2>4, <2>5 DEF Transactions
<1>3. status \in {"landed", "expired"} /\ (status = "landed" <=> ok)
  OBVIOUS
<1> HIDE DEF status
<1>4. made' = IF status = "landed" THEN [made EXCEPT ![q] = Landed(flight[q].tx)] ELSE made
  BY <1>1, <1>2, <1>3
<1> QED  BY <1>1, <1>3, <1>4, Arrives

LEMMA StagesStep ==
  ASSUME KeysOK, Stages, NEW q \in Runs, RunStep(q)
  PROVE  Stages'
<1>1. StageOK(q)
  BY DEF Stages
<1>2. CASE FindWallet(q) \/ LoadStep(q)
  BY <1>1, <1>2, MovesOn DEF StageOK, FindWallet, LoadStep, OpenWallet, WriteWallet,
     ReadWallet, Loading, Funding, Ended
<1>3. CASE FundStep(q) \/ AirdropInDoubt(q)
  <2>1. flight[q] = Absent /\ made[q] = Absent
    BY <1>1, <1>3 DEF StageOK, FundStep, CheckBalance, Airdrop, AirdropInDoubt, Funding
  <2>2. FirstStep(q) \in Minting
    BY PlanFirst DEF Minting
  <2> QED
    BY <1>3, <2>1, <2>2, MovesOn DEF FundStep, CheckBalance, Airdrop, AirdropInDoubt,
       Funding, Ended
<1>4. CASE Rejected(q) \/ Verify(q) \/ Dies(q) \/ AnswerLost(q)
  BY <1>4, MovesOn DEF Rejected, Verify, Dies, AnswerLost, Minting, Ended
<1>5. CASE Expire(q)
  BY <1>5, Arrives DEF Expire, RunStep, GoesWrong
<1> QED
  BY <1>2, <1>3, <1>4, <1>5, SendStage, ConfirmedStage, GetAtaStage, LandStage
     DEF RunStep, Progress, MintStep, GoesWrong

-----------------------------------------------------------------------------
(***************************************************************************)
(* What may still be paid for with a key pair.                             *)
(***************************************************************************)
Planned == {p \in Runs \X Transactions : p[2] \in Plan(p[1])}

LEMMA OwedFinite ==
  /\ IsFiniteSet(Planned) /\ Cardinality(Planned) <= MinSol /\ Cardinality(Planned) \in Nat
  /\ \A k : IsFiniteSet(Owed(k)) /\ Cardinality(Owed(k)) \in Nat
  /\ \A k : IsFiniteSet(Owed(k)') /\ Cardinality(Owed(k)') \in Nat
<1>1. IsFiniteSet(Transactions)
  <2>1. Transactions = ((({} \cup {"create_mint"}) \cup {"create_ata"}) \cup {"mint_to"})
                         \cup {"create_nft"}
    BY DEF Transactions
  <2> QED  BY <2>1, FS_EmptySet, FS_AddElement
<1>2. IsFiniteSet(Runs \X Transactions)
  BY <1>1, RunsAssumption, FS_Product
<1>3. /\ Planned \subseteq Runs \X Transactions
      /\ \A k : /\ Owed(k) \subseteq Runs \X Transactions
                /\ Owed(k)' \subseteq Runs \X Transactions
  BY DEF Planned, Owed
<1>4. /\ IsFiniteSet(Planned)
      /\ \A k : IsFiniteSet(Owed(k)) /\ IsFiniteSet(Owed(k)')
  BY <1>2, <1>3, FS_Subset
<1>5. Cardinality(Planned) <= MinSol
  BY FundsAssumption DEF Planned
<1> QED  BY <1>4, <1>5, FS_CardinalityType

\* A run owes nothing but what it planned.
OwedPlanned == \A k \in Keys : Owed(k) \subseteq Planned

LEMMA OwedIsPlanned == Stages => OwedPlanned
<1> SUFFICES ASSUME Stages, NEW r \in Runs PROVE Left(r) \subseteq Plan(r)
  BY DEF OwedPlanned, Owed, Planned
<1>1. StageOK(r)
  BY DEF Stages
<1>2. (IF Flying(r) THEN {flight[r].tx} ELSE {}) \subseteq Plan(r)
  BY <1>1 DEF StageOK, Flying
<1>3. Ahead(r) \subseteq Plan(r)
  <2>1. CASE at[r] \in Transactions
    <3>1. at[r] \in Plan(r)
      BY <1>1, <2>1 DEF StageOK
    <3>2. Later(at[r]) \subseteq Plan(r)
      BY <2>1, <3>1, Values DEF Plan, Transactions
    <3> QED  BY <2>1, <3>1, <3>2 DEF Ahead
  <2>2. CASE at[r] = "get_ata"
    BY <1>1, <2>2 DEF Ahead, StageOK, Plan, Transactions
  <2>3. CASE at[r] \notin Transactions /\ at[r] # "get_ata"
    BY <2>3 DEF Ahead
  <2> QED  BY <2>1, <2>2, <2>3
<1> QED  BY <1>2, <1>3 DEF Left

LEMMA OwedIsPlannedNext == Stages' => OwedPlanned'
BY OwedIsPlanned, PTL

LEMMA OthersOwe ==
  ASSUME KeysOK, Stages, NEW q \in Runs, RunStep(q), NEW r \in Runs, r # q
  PROVE  Left(r)' = Left(r) /\ key'[r] = key[r]
BY OneMoves DEF Left, Ahead, Flying

\* A step that leaves its run no more to pay for, and costs nothing.
LEMMA NoMore ==
  ASSUME KeysOK, Stages, Funded, NEW q \in Runs, RunStep(q),
         Left(q)' = {} \/ (key'[q] = key[q] /\ Left(q)' \subseteq Left(q)),
         sol' \in [Keys -> Nat], \A k \in Keys : sol'[k] >= sol[k]
  PROVE  Funded'
<1>1. ASSUME NEW k \in Keys PROVE Cardinality(Owed(k)') <= sol'[k]
  <2>1. Owed(k)' \subseteq Owed(k)
    <3> SUFFICES ASSUME NEW r \in Runs, NEW tx \in Transactions,
                        key'[r] = k, tx \in Left(r)'
                 PROVE  key[r] = k /\ tx \in Left(r)
      BY DEF Owed
    <3>1. CASE r = q
      BY <3>1
    <3>2. CASE r # q
      BY <3>2, OthersOwe
    <3> QED  BY <3>1, <3>2
  <2>2. Cardinality(Owed(k)') <= Cardinality(Owed(k))
    BY <2>1, OwedFinite, FS_Subset
  <2>3. Cardinality(Owed(k)) <= sol[k] /\ sol[k] \in Nat /\ sol'[k] \in Nat /\ sol'[k] >= sol[k]
    BY DEF Funded
  <2> QED  BY <2>2, <2>3, OwedFinite
<1> QED  BY <1>1 DEF Funded

\* The step to the first transaction finds enough for whatever all runs plan.
LEMMA Begins ==
  ASSUME KeysOK, Stages, Funded, NEW q \in Runs, RunStep(q), key'[q] = key[q],
         sol' \in [Keys -> Nat], \A k \in Keys : sol'[k] >= sol[k],
         sol'[key[q]] >= MinSol
  PROVE  Funded'
<1>1. ASSUME NEW k \in Keys PROVE Cardinality(Owed(k)') <= sol'[k]
  <2>1. CASE k = key[q]
    <3>1. Stages'
      BY StagesStep
    <3>2. Owed(k)' \subseteq Planned
      BY <3>1, OwedIsPlannedNext DEF OwedPlanned
    <3>3. Cardinality(Owed(k)') <= Cardinality(Planned)
      BY <3>2, OwedFinite, FS_Subset
    <3>4. sol'[k] \in Nat /\ sol'[k] >= MinSol /\ MinSol \in Nat
      BY <2>1, RunsAssumption
    <3> QED  BY <3>3, <3>4, OwedFinite
  <2>2. CASE k # key[q]
    <3>1. Owed(k)' \subseteq Owed(k)
      <4> SUFFICES ASSUME NEW r \in Runs, NEW tx \in Transactions,
                          key'[r] = k, tx \in Left(r)'
                   PROVE  key[r] = k /\ tx \in Left(r)
        BY DEF Owed
      <4>1. r # q
        BY <2>2
      <4> QED  BY <4>1, OthersOwe
    <3>2. Cardinality(Owed(k)') <= Cardinality(Owed(k))
      BY <3>1, OwedFinite, FS_Subset
    <3>3. Cardinality(Owed(k)) <= sol[k] /\ sol[k] \in Nat /\ sol'[k] \in Nat /\ sol'[k] >= sol[k]
      BY DEF Funded
    <3> QED  BY <3>2, <3>3, OwedFinite
  <2> QED  BY <2>1, <2>2
<1> QED  BY <1>1 DEF Funded

\* A transaction that lands is paid for, and owed no more.
LEMMA LandFunded ==
  ASSUME KeysOK, Stages, Funded, NEW q \in Runs, Land(q)
  PROVE  Funded'
<1> DEFINE tx == flight[q].tx
           payer == key[q]
<1>1. RunStep(q) /\ Flying(q) /\ UNCHANGED <<at, key>> /\ StageOK(q)
  BY DEF Land, RunStep, Progress, Stages
<1>2. /\ flight[q] \in Sent /\ flight[q] # Absent /\ payer \in Keys /\ tx \in Transactions
  BY <1>1 DEF Flying, Stages, Sent, StageOK, KeysOK
<1>3. Left(q) = Ahead(q) \cup {tx}
  BY <1>1 DEF Left
<1>4. tx \notin Ahead(q)
  <2>1. CASE at[q] \in Transactions
    BY <1>1, <1>2, <2>1, Values DEF StageOK, Ahead, Transactions
  <2>2. CASE at[q] \notin Transactions
    BY <1>1, <1>2, <2>2 DEF StageOK, Ahead
  <2> QED  BY <2>1, <2>2
<1>5. Left(q)' = Ahead(q)
  <2>1. flight'[q] \in {[flight[q] EXCEPT !.status = "landed"],
                        [flight[q] EXCEPT !.status = "expired"]}
    BY DEF Land, Stages
  <2>2. flight'[q] \in Sent /\ flight'[q].status # "flying"
    BY <1>2, <2>1 DEF Sent
  <2>3. flight'[q] # Absent /\ ~Flying(q)'
    BY <2>2, AbsentAssumption DEF Flying
  <2> QED  BY <1>1, <1>2, <2>3 DEF Left, Ahead
<1> HIDE DEF tx
<1>6. CASE sol' = sol
  BY <1>1, <1>3, <1>5, <1>6, NoMore DEF Funded
<1>7. CASE sol[payer] > 0 /\ sol' = [sol EXCEPT ![payer] = @ - 1]
  <2>0. sol \in [Keys -> Nat] /\ sol' \in [Keys -> Nat]
    BY <1>2, <1>7 DEF Funded
  <2>1. ASSUME NEW k \in Keys PROVE Cardinality(Owed(k)') <= sol'[k]
    <3>1. Owed(k)' \subseteq Owed(k) \ {<<q, tx>>}
      <4> SUFFICES ASSUME NEW r \in Runs, NEW t \in Transactions,
                          key'[r] = k, t \in Left(r)'
                   PROVE  key[r] = k /\ t \in Left(r) /\ <<r, t>> # <<q, tx>>
        BY DEF Owed
      <4>1. CASE r = q
        BY <1>1, <1>3, <1>4, <1>5, <4>1
      <4>2. CASE r # q
        BY <1>1, <4>2, OthersOwe
      <4> QED  BY <4>1, <4>2
    <3>2. Cardinality(Owed(k)) <= sol[k] /\ sol[k] \in Nat
      BY DEF Funded
    <3>3. CASE k = payer
      <4>1. <<q, tx>> \in Owed(k)
        BY <1>2, <1>3, <3>3 DEF Owed
      <4>2. /\ IsFiniteSet(Owed(k) \ {<<q, tx>>})
            /\ Cardinality(Owed(k) \ {<<q, tx>>}) = Cardinality(Owed(k)) - 1
        BY <4>1, OwedFinite, FS_RemoveElement
      <4>3. Cardinality(Owed(k)') <= Cardinality(Owed(k)) - 1
        BY <3>1, <4>2, FS_Subset
      <4>4. sol'[k] = sol[k] - 1
        BY <1>7, <2>0, <3>3
      <4> QED  BY <3>2, <4>3, <4>4, OwedFinite
    <3>4. CASE k # payer
      <4>1. Owed(k)' \subseteq Owed(k)
        BY <3>1
      <4>2. Cardinality(Owed(k)') <= Cardinality(Owed(k))
        BY <4>1, OwedFinite, FS_Subset
      <4>3. sol'[k] = sol[k]
        BY <1>7, <2>0, <3>4
      <4> QED  BY <3>2, <4>2, <4>3, OwedFinite
    <3> QED  BY <3>3, <3>4
  <2> QED  BY <2>0, <2>1 DEF Funded
<1> QED  BY <1>6, <1>7 DEF Land, Executable

LEMMA FundedStep ==
  ASSUME KeysOK, Stages, Funded, NEW q \in Runs, RunStep(q)
  PROVE  Funded'
<1>1. StageOK(q) /\ MinSol \in Nat
  BY RunsAssumption DEF Stages
<1>2. sol \in [Keys -> Nat] /\ at \in [Runs -> {"idle"} \cup Loading \cup Funding \cup Minting \cup Ended]
  BY DEF Funded, KeysOK
<1>3. ASSUME UNCHANGED sol, Left(q)' = {} \/ (key'[q] = key[q] /\ Left(q)' \subseteq Left(q))
      PROVE  Funded'
  <2>1. sol' \in [Keys -> Nat] /\ \A k \in Keys : sol'[k] >= sol[k]
    BY <1>2, <1>3
  <2> QED  BY <1>3, <2>1, NoMore
<1>4. ASSUME UNCHANGED <<sol, key, flight>>, NEW place, Goes(q, place),
             place \notin Transactions \cup {"get_ata"}
      PROVE  Funded'
  <2>1. at'[q] = place
    BY <1>2, <1>4 DEF Goes
  <2>2. Left(q)' \subseteq Left(q)
    BY <1>4, <2>1 DEF Left, Ahead, Flying
  <2> QED  BY <1>3, <1>4, <2>2
<1>5. CASE FindWallet(q) \/ LoadStep(q)
  <2>1. flight' = flight /\ flight[q] = Absent /\ UNCHANGED sol
    BY <1>1, <1>5 DEF StageOK, FindWallet, LoadStep, OpenWallet, WriteWallet, ReadWallet, Loading
  <2>2. at'[q] \in {"generate", "read", "write", "balance", "failed"}
    BY <1>2, <1>5 DEF FindWallet, LoadStep, OpenWallet, WriteWallet, ReadWallet, Goes
  <2>3. Left(q)' = {}
    BY <2>1, <2>2 DEF Left, Ahead, Flying, Transactions
  <2> QED  BY <1>3, <2>1, <2>3
<1>6. CASE FundStep(q) \/ AirdropInDoubt(q)
  <2>1. key' = key /\ flight' = flight /\ key[q] \in Keys
    BY <1>6 DEF FundStep, CheckBalance, Airdrop, AirdropInDoubt, KeysOK, Known, Funding
  <2>2. CASE CheckBalance(q) /\ Sufficient(sol[key[q]])
    BY <1>2, <2>1, <2>2, Begins DEF CheckBalance, Sufficient
  <2>3. CASE CheckBalance(q) /\ ~Sufficient(sol[key[q]])
    BY <1>4, <2>1, <2>3 DEF CheckBalance, Transactions
  <2>4. CASE Airdropped(key[q])
    <3> DEFINE payer == key[q]
    <3>1. sol' = [sol EXCEPT ![payer] = sol[payer] + 2 * MinSol]
      BY <2>4 DEF Airdropped
    <3> HIDE DEF payer
    <3>2. payer \in Keys
      BY <2>1 DEF payer
    <3>3. /\ sol' \in [Keys -> Nat] /\ \A k \in Keys : sol'[k] >= sol[k]
          /\ sol'[payer] >= MinSol
      BY <1>1, <1>2, <3>1, <3>2
    <3> QED  BY <2>1, <3>3, Begins DEF payer
  <2> QED  BY <1>6, <2>2, <2>3, <2>4 DEF FundStep, Airdrop, AirdropInDoubt
<1>7. CASE Send(q)
  <2>1. Left(q)' \subseteq Left(q) /\ key' = key /\ sol' = sol
    <3> DEFINE o == [tx |-> at[q], status |-> "flying"]
    <3>1. at' = at /\ at[q] \in Transactions /\ flight[q] = Absent /\ flight'[q] = o
      BY <1>7 DEF Send, Stages
    <3>2. o.tx = at[q] /\ o \in Sent /\ o # Absent
      BY <3>1, AbsentAssumption DEF Sent
    <3> HIDE DEF o
    <3> QED  BY <1>7, <3>1, <3>2 DEF Send, Left, Ahead, Flying
  <2> QED  BY <1>3, <2>1
<1>8. CASE Confirmed(q)
  <2>1. /\ at[q] \in Transactions /\ at'[q] = After(at[q]) /\ flight'[q] = Absent
        /\ flight[q] # Absent /\ UNCHANGED <<key, sol>>
    BY <1>2, <1>8 DEF Confirmed, Goes, Stages
  <2>2. Left(q)' = Ahead(q)' /\ Ahead(q) = Later(at[q])
    BY <2>1 DEF Left, Flying, Ahead
  <2>3. Ahead(q)' \subseteq Later(at[q])
    <3>1. CASE at[q] = "create_mint"
      <4>1. After(at[q]) = "create_ata"
        BY <3>1 DEF After
      <4> QED  BY <2>1, <3>1, <4>1, Values DEF Ahead, Transactions
    <3>2. CASE at[q] = "create_ata"
      <4>1. After(at[q]) = "get_ata"
        BY <3>2 DEF After
      <4> QED  BY <2>1, <3>2, <4>1, Values DEF Ahead, Transactions
    <3>3. CASE at[q] \in {"mint_to", "create_nft"}
      <4>1. After(at[q]) \in {"verify", "done"}
        BY <3>3 DEF After
      <4> QED  BY <2>1, <3>3, <4>1, Values DEF Ahead, Transactions
    <3> QED  BY <2>1, <3>1, <3>2, <3>3 DEF Transactions
  <2> QED  BY <1>3, <2>1, <2>2, <2>3 DEF Left
<1>9. CASE Rejected(q) \/ AnswerLost(q)
  <2>1. CASE at[q] = "create_ata" /\ Goes(q, "get_ata")
    <3>1. at'[q] = "get_ata" /\ UNCHANGED <<key, sol, flight>> /\ flight[q] # Absent
      BY <1>2, <1>9, <2>1 DEF Rejected, AnswerLost, Goes
    <3>2. Left(q)' \subseteq Left(q)
      BY <2>1, <3>1, Values DEF Left, Ahead, Flying, Transactions
    <3> QED  BY <1>3, <3>1, <3>2
  <2>2. CASE Goes(q, "failed")
    BY <1>4, <1>9, <2>2 DEF Rejected, AnswerLost, Transactions
  <2> QED  BY <1>9, <2>1, <2>2 DEF Rejected, AnswerLost
<1>10. CASE GetAta(q)
  <2>1. CASE NoAta(q)
    BY <1>4, <1>10, <2>1 DEF GetAta, NoAta, Transactions
  <2>2. CASE Goes(q, "mint_to") /\ flight' = [flight EXCEPT ![q] = Absent]
    <3>1. at'[q] = "mint_to" /\ at[q] = "get_ata" /\ flight'[q] = Absent /\ UNCHANGED <<key, sol>>
      BY <1>2, <1>10, <2>2 DEF GetAta, Goes, Stages
    <3>2. Left(q)' \subseteq Left(q)
      BY <3>1, Values DEF Left, Ahead, Flying, Transactions
    <3> QED  BY <1>3, <3>1, <3>2
  <2> QED  BY <1>10, <2>1, <2>2 DEF GetAta
<1>11. CASE Verify(q) \/ Dies(q)
  BY <1>4, <1>11 DEF Verify, Dies, Transactions
<1>12. CASE Expire(q)
  <2>1. UNCHANGED <<at, key, sol>> /\ flight'[q] = [flight[q] EXCEPT !.status = "expired"]
        /\ flight[q] # Absent /\ flight[q] \in Sent
    BY <1>12 DEF Expire, Flying, Stages
  <2>2. flight'[q] \in Sent /\ flight'[q].status = "expired" /\ flight'[q] # Absent
    BY <2>1, AbsentAssumption DEF Sent
  <2>3. Left(q)' \subseteq Left(q)
    BY <2>1, <2>2 DEF Left, Ahead, Flying
  <2> QED  BY <1>3, <2>1, <2>3
<1> QED
  BY <1>5, <1>6, <1>7, <1>8, <1>9, <1>10, <1>11, <1>12, LandFunded
     DEF RunStep, Progress, MintStep, GoesWrong

-----------------------------------------------------------------------------
(***************************************************************************)
(* One key pair: what runs work with, what is funded and what is minted    *)
(* belongs to the one in the file.                                         *)
(***************************************************************************)

\* Whoever has a key pair of its own keeps it.
LEMMA SoloBefore ==
  ASSUME KeysOK, Stages, NEW q \in Runs, RunStep(q), Solo'
  PROVE  Solo
<1>1. ASSUME NEW p \in Runs, key[p] = p PROVE key'[p] = p
  <2>1. CASE p # q
    BY <1>1, <2>1, OneMoves
  <2>2. CASE p = q
    <3>1. at[q] \notin {"idle", "read"}
      BY <1>1, <2>2, Distinct DEF KeysOK
    <3>2. key' = key
      BY <3>1 DEF RunStep, FindWallet, Progress, GoesWrong, LoadStep, FundStep, MintStep,
         OpenWallet, WriteWallet, ReadWallet, CheckBalance, Airdrop, Send, Confirmed,
         Rejected, GetAta, Verify, Land, Dies, AnswerLost, AirdropInDoubt, Expire
    <3> QED  BY <1>1, <2>2, <3>2
  <2> QED  BY <2>1, <2>2
<1> QED  BY <1>1 DEF Solo

\* A step of a run that works with the key pair in the file, or does nothing
\* of what needs one.
LEMMA SameWallet ==
  ASSUME KeysOK, Stages, Funded, OneWallet, Solo, NEW q \in Runs, RunStep(q),
         UNCHANGED <<wallet, key>>, Active(q)' => Active(q),
         at'[q] \notin {"generate", "write"},
         sol' \in [Keys -> Nat],
         \A k \in Keys : sol'[k] > 0 => sol[k] > 0 \/ (k = key[q] /\ Active(q))
  PROVE  OneWallet'
<1>1. ASSUME NEW r \in Runs, r # q
      PROVE  /\ Active(r)' => Active(r)
             /\ at'[r] = at[r]
  BY <1>1, OneMoves DEF Active
<1>2. /\ \A r \in Runs : Active(r) => wallet = key[r]
      /\ \A k \in Keys : sol[k] > 0 => wallet = k
      /\ \A r \in Runs : at[r] \in {"generate", "write"} => wallet \notin Keys
      /\ \A r \in Runs : at[r] = "write" => wallet = Empty
  BY DEF OneWallet
<1> QED  BY <1>1, <1>2 DEF OneWallet

LEMMA OneWalletStep ==
  ASSUME KeysOK, Stages, Funded, OneWallet, NEW q \in Runs, RunStep(q)
  PROVE  OneWallet'
<1> SUFFICES ASSUME Solo' PROVE OneWallet'
  BY DEF OneWallet
<1>1. Solo
  BY SoloBefore
<1>2. /\ \A r \in Runs : Active(r) => wallet = key[r]
      /\ \A k \in Keys : sol[k] > 0 => wallet = k
      /\ \A r \in Runs : at[r] \in {"generate", "write"} => wallet \notin Keys
      /\ \A r \in Runs : at[r] = "write" => wallet = Empty
  BY <1>1 DEF OneWallet
<1>3. /\ at \in [Runs -> {"idle"} \cup Loading \cup Funding \cup Minting \cup Ended]
      /\ key \in [Runs -> Keys \cup {Absent}] /\ sol \in [Keys -> Nat]
      /\ wallet \in Keys \cup {Absent, Empty, Torn}
  BY DEF KeysOK, Funded
<1>4. /\ \A r \in Runs : Active(r) => key[r] \in Keys
      /\ at[q] \in {"idle"} \cup Loading => ~Active(q)
  <2>1. ASSUME NEW r \in Runs, Active(r) PROVE key[r] # Absent
    <3>1. StageOK(r)
      BY DEF Stages
    <3> QED  BY <2>1, <3>1 DEF Active, StageOK, KeysOK, Known
  <2>2. StageOK(q)
    BY DEF Stages
  <2>3. at[q] \in {"idle"} \cup Loading => ~Active(q)
    BY <2>2 DEF StageOK, Active, Loading, Funding, Minting, Transactions
  <2> QED  BY <1>3, <2>1, <2>3
<1>5. ASSUME NEW r \in Runs, r # q
      PROVE  /\ Active(r)' <=> Active(r)
             /\ at'[r] = at[r] /\ key'[r] = key[r]
  BY <1>5, OneMoves DEF Active
<1>6. CASE FindWallet(q)
  <2>1. /\ UNCHANGED <<wallet, sol, flight, made>> /\ at[q] = "idle"
        /\ at'[q] = "read" \/ (at'[q] = "generate" /\ wallet = Absent)
    BY <1>3, <1>6 DEF FindWallet, Goes
  <2>2. ~Active(q)'
    BY <1>4, <2>1 DEF Active, Loading, Funding, Minting, Transactions
  <2> QED  BY <1>2, <1>5, <2>1, <2>2, Distinct DEF OneWallet
<1>7. CASE OpenWallet(q)
  <2>1. /\ UNCHANGED <<key, sol, flight, made>> /\ at[q] = "generate" /\ at'[q] = "write"
        /\ wallet' = Empty /\ wallet \notin Keys
    BY <1>2, <1>3, <1>7 DEF OpenWallet, Goes
  <2>2. ~Active(q)'
    BY <1>4, <2>1 DEF Active, Loading, Funding, Minting, Transactions
  <2>3. /\ \A r \in Runs : ~Active(r)
        /\ \A k \in Keys : ~(sol[k] > 0)
    BY <1>2, <1>4, <2>1
  <2> QED  BY <1>5, <2>1, <2>2, <2>3, Distinct DEF OneWallet
<1>8. CASE WriteWallet(q)
  <2>1. /\ UNCHANGED <<key, sol, flight, made>> /\ at[q] = "write" /\ at'[q] = "balance"
        /\ wallet' = q /\ wallet \notin Keys /\ key[q] = q
    <3>1. wallet = Empty
      BY <1>2, <1>8 DEF WriteWallet
    <3> QED
      BY <1>2, <1>3, <1>8, <3>1 DEF WriteWallet, Saved, Goes, KeysOK
  <2>2. /\ \A r \in Runs : ~Active(r)
        /\ \A k \in Keys : ~(sol[k] > 0)
    BY <1>2, <1>4, <2>1
  <2>3. ASSUME NEW r \in Runs, at'[r] \in {"generate", "write"} PROVE FALSE
    <3>1. r # q /\ at[r] \in {"generate", "write"}
      BY <1>5, <2>1, <2>3
    <3>2. key[r] = r
      BY <3>1 DEF KeysOK
    <3> QED  BY <1>1, <2>1, <3>1, <3>2 DEF Solo
  <2> QED  BY <1>5, <2>1, <2>2, <2>3 DEF OneWallet
<1>9. CASE ReadWallet(q) /\ Parses(wallet)
  <2>1. /\ UNCHANGED <<wallet, sol>> /\ at'[q] = "balance" /\ key'[q] = wallet
        /\ at[q] = "read"
    BY <1>3, <1>9 DEF ReadWallet, Goes
  <2> QED  BY <1>2, <1>5, <2>1 DEF OneWallet
<1>10. CASE ReadWallet(q) /\ ~Parses(wallet)
  <2>1. /\ UNCHANGED <<wallet, key, sol, flight, made>> /\ at'[q] = "failed" /\ at[q] = "read"
    BY <1>3, <1>10 DEF ReadWallet, Goes
  <2>2. ~Active(q)'
    BY <1>4, <2>1 DEF Active, Loading, Funding, Minting, Transactions
  <2> QED  BY <1>1, <1>3, <2>1, <2>2, SameWallet
<1>11. CASE FundStep(q) \/ AirdropInDoubt(q)
  <2>1. /\ Active(q) /\ key[q] \in Keys /\ UNCHANGED <<wallet, key, flight, made>>
        /\ at'[q] \notin {"generate", "write"}
    <3>1. /\ at[q] \in Funding /\ UNCHANGED <<wallet, key, flight, made>>
          /\ at'[q] \in {"airdrop", "failed", FirstStep(q)}
      BY <1>3, <1>11 DEF FundStep, CheckBalance, Airdrop, AirdropInDoubt, Goes, Funding
    <3>2. Active(q)
      BY <3>1 DEF Active
    <3> QED  BY <1>4, <3>1, <3>2 DEF FirstStep
  <2>2. sol' = sol \/ Airdropped(key[q])
    BY <1>11 DEF FundStep, CheckBalance, Airdrop, AirdropInDoubt
  <2>3. /\ sol' \in [Keys -> Nat]
        /\ \A k \in Keys : sol'[k] > 0 => sol[k] > 0 \/ (k = key[q] /\ Active(q))
    <3>1. CASE sol' = sol
      BY <1>3, <3>1
    <3>2. CASE Airdropped(key[q])
      <4>1. sol' = [sol EXCEPT ![key[q]] = sol[key[q]] + 2 * MinSol] /\ MinSol \in Nat
        BY <3>2, RunsAssumption DEF Airdropped
      <4> QED  BY <1>3, <2>1, <4>1
    <3> QED  BY <2>2, <3>1, <3>2
  <2> QED  BY <1>1, <2>1, <2>3, SameWallet
<1>12. CASE Land(q)
  <2>1. /\ Active(q) /\ UNCHANGED <<wallet, key, at>>
        /\ sol' = sol \/ (sol[key[q]] > 0 /\ sol' = [sol EXCEPT ![key[q]] = @ - 1])
    BY <1>12 DEF Land, Flying, Active, Executable
  <2>2. at[q] \notin {"generate", "write"}
    BY <1>4, <2>1 DEF Loading
  <2>3. /\ sol' \in [Keys -> Nat]
        /\ \A k \in Keys : sol'[k] > 0 => sol[k] > 0 \/ (k = key[q] /\ Active(q))
    <3>1. key[q] \in Keys
      BY <1>4, <2>1
    <3> QED  BY <1>3, <2>1, <3>1
  <2> QED  BY <1>1, <2>1, <2>2, <2>3, SameWallet
<1>13. CASE MintStep(q) \/ Dies(q) \/ AnswerLost(q) \/ Expire(q)
  <2>1. /\ UNCHANGED <<wallet, key, sol, made>>
        /\ at'[q] \notin {"generate", "write"}
        /\ Active(q)' => Active(q)
    <3>1. CASE Send(q) \/ Expire(q)
      <4>1. UNCHANGED <<wallet, key, sol, made, at>> /\ Active(q)
        BY <3>1 DEF Send, Expire, Flying, Active, Minting
      <4> QED  BY <1>4, <4>1 DEF Loading
    <3>2. CASE Confirmed(q)
      <4>1. /\ UNCHANGED <<wallet, key, sol, made>> /\ at[q] \in Minting
            /\ at'[q] = After(at[q]) /\ at[q] \in Transactions
        BY <1>3, <3>2 DEF Confirmed, Goes, Minting
      <4>2. After(at[q]) \notin {"generate", "write"}
        BY <4>1 DEF After, Transactions
      <4> QED  BY <4>1, <4>2 DEF Active
    <3>3. CASE Rejected(q) \/ GetAta(q) \/ Verify(q) \/ AnswerLost(q)
      <4>1. /\ UNCHANGED <<wallet, key, sol, made>> /\ at[q] \in Minting
            /\ at'[q] \in {"failed", "get_ata", "mint_to", "done"}
        BY <1>3, <3>3 DEF Rejected, GetAta, NoAta, Verify, AnswerLost, Goes, Minting, Transactions
      <4> QED  BY <4>1 DEF Active
    <3>4. CASE Dies(q)
      <4>1. UNCHANGED <<wallet, key, sol, made, flight>> /\ at'[q] = "failed"
        BY <1>3, <3>4 DEF Dies, Goes
      <4> QED  BY <4>1 DEF Active, Funding, Minting, Transactions
    <3> QED  BY <1>13, <3>1, <3>2, <3>3, <3>4 DEF MintStep
  <2> QED  BY <1>1, <1>3, <2>1, SameWallet
<1> QED
  BY <1>6, <1>7, <1>8, <1>9, <1>10, <1>11, <1>12, <1>13
     DEF RunStep, Progress, LoadStep, GoesWrong

-----------------------------------------------------------------------------
LEMMA InitInv == Init => Inv
<1> SUFFICES ASSUME Init PROVE Inv
  OBVIOUS
<1>1. KeysOK
  BY Distinct DEF Init, KeysOK, Known, Funding, Minting, Transactions
<1>2. Stages
  BY DEF Init, Stages, StageOK, Transactions
<1>3. sol \in [Keys -> Nat] /\ \A k \in Keys : sol[k] > 0 => wallet = k
  BY RunsAssumption DEF Init
<1>4. \A k \in Keys : Owed(k) = {}
  <2>1. \A r \in Runs : Left(r) = {}
    BY DEF Init, Left, Ahead, Flying, Transactions
  <2> QED  BY <2>1 DEF Owed
<1>5. Funded
  BY <1>3, <1>4, FS_EmptySet DEF Funded
<1>6. OneWallet
  BY <1>3 DEF Init, OneWallet, Active, Funding, Minting, Transactions
<1> QED  BY <1>1, <1>2, <1>5, <1>6 DEF Inv

\* The four parts of the invariant need each other's: see the lemmas of each.
THEOREM Invariance == Spec => []Inv
<1>1. Inv /\ [Next]_vars => Inv'
  <2> SUFFICES ASSUME Inv, [Next]_vars PROVE Inv'
    OBVIOUS
  <2>1. ASSUME NEW q \in Runs, RunStep(q) PROVE Inv'
    BY <2>1, KeysStep, StagesStep, FundedStep, OneWalletStep DEF Inv
  <2>2. CASE UNCHANGED vars
    BY <2>2 DEF vars, Inv, KeysOK, Known, Stages, StageOK, Funded, Owed, Left, Ahead, Flying,
       OneWallet, Solo, Active
  <2> QED  BY <2>1, <2>2 DEF Next, RunStep
<1> QED  BY <1>1, InitInv, PTL DEF Spec

(***************************************************************************)
(* MINT_AMOUNT is issued at most once for each mint, and a script that     *)
(* comes to its end has it in the account.                                 *)
(***************************************************************************)
THEOREM OnceMinted == Spec => []MintedOnce
<1>1. Inv => MintedOnce
  <2> SUFFICES ASSUME Inv, NEW r \in Runs
               PROVE  /\ made[r] # Absent => made[r].issued <= 1
                      /\ at[r] = "done" => made[r] = [issued |-> 1, held |-> 1]
    BY DEF MintedOnce
  <2>1. StageOK(r)
    BY DEF Inv, Stages
  <2> QED  BY <2>1, MadeValues DEF StageOK, Minted
<1> QED  BY <1>1, Invariance, PTL

\* Whoever pays for what is on its way owes it, and has it.
LEMMA FundsThere == Inv => StaysFunded
<1> SUFFICES ASSUME Inv, NEW r \in Runs, Flying(r) PROVE sol[key[r]] > 0
  BY DEF StaysFunded
<1>1. /\ StageOK(r) /\ flight[r] \in Sent /\ flight[r] # Absent
      /\ key[r] \in Keys
  BY DEF Inv, KeysOK, Stages, StageOK, Flying
<1> DEFINE k == key[r]
           p == <<r, flight[r].tx>>
<1>2. p \in Owed(k)
  BY <1>1 DEF Owed, Left, Sent
<1> HIDE DEF k, p
<1>3. IsFiniteSet(Owed(k)) /\ Cardinality(Owed(k)) \in Nat
  BY OwedFinite
<1>4. Owed(k) # {}
  BY <1>2
<1>5. Cardinality(Owed(k)) # 0
  BY <1>3, <1>4, FS_EmptySet
<1>6. Cardinality(Owed(k)) <= sol[k] /\ sol[k] \in Nat
  BY <1>1 DEF Inv, Funded, k
<1>7. sol[k] > 0
  BY <1>3, <1>5, <1>6
<1> QED  BY <1>7 DEF k

(***************************************************************************)
(* As long as what ensureFunded asks for covers the transactions of all    *)
(* runs, none of them is refused for want of SOL.                          *)
(***************************************************************************)
THEOREM FundsLast == Spec => []StaysFunded
BY FundsThere, Invariance, PTL

(***************************************************************************)
(* Unless two runs both found no wallet file, all SOL and everything that  *)
(* was minted belongs to the key pair in wallet.json.                      *)
(***************************************************************************)
THEOREM NothingIsStranded == Spec => []NothingStranded
<1>1. Inv => NothingStranded
  <2> DEFINE own == {r \in Runs : key[r] = r}
  <2> SUFFICES ASSUME Inv, Cardinality(own) <= 1
               PROVE  /\ \A k \in Keys : sol[k] > 0 => wallet = k
                      /\ \A r \in Runs : made[r] # Absent => wallet = key[r]
    BY DEF NothingStranded
  <2>1. Solo
    <3> SUFFICES ASSUME NEW p \in own, NEW q \in own, p # q PROVE FALSE
      BY DEF Solo
    <3>1. IsFiniteSet(own)
      BY RunsAssumption, FS_Subset
    <3> HIDE DEF own
    <3>2. /\ IsFiniteSet({p}) /\ Cardinality({p}) = 1
          /\ IsFiniteSet({p} \cup {q}) /\ Cardinality({p} \cup {q}) = 1 + 1
      <4>1. IsFiniteSet({p}) /\ Cardinality({p}) = 1 /\ q \notin {p}
        BY FS_Singleton
      <4> QED  BY <4>1, FS_AddElement
    <3>3. Cardinality({p} \cup {q}) <= Cardinality(own)
      BY <3>1, FS_Subset
    <3>4. Cardinality(own) \in Nat
      BY <3>1, FS_CardinalityType
    <3> QED  BY <3>2, <3>3, <3>4
  <2> QED  BY <2>1 DEF Inv, OneWallet, Active
<1> QED  BY <1>1, Invariance, PTL

FaultsOK == faults \in 0 .. MaxFaults

\* With the number of faults counted, the variables have their types.
THEOREM TypeCorrect == Spec => []TypeOK
<1>1. FaultsOK /\ [Next]_vars => FaultsOK'
  BY RunsAssumption DEF FaultsOK, Next, vars, FindWallet, Progress, GoesWrong, LoadStep, FundStep,
     MintStep, OpenWallet, WriteWallet, ReadWallet, CheckBalance, Airdrop, Send, Confirmed,
     Rejected, GetAta, Verify, Land, Dies, AnswerLost, AirdropInDoubt, Expire, Fault
<1>2. Init => FaultsOK
  BY RunsAssumption DEF Init, FaultsOK
<1>3. Inv /\ FaultsOK => TypeOK
  BY DEF TypeOK, FaultsOK, Inv, KeysOK, Stages, Funded
<1> QED  BY <1>1, <1>2, <1>3, Invariance, PTL DEF Spec

-----------------------------------------------------------------------------
(***************************************************************************)
(* Why every run ends: no step leads back.  A run has only so many places  *)
(* to go through, and at each of them one transaction to wait for.         *)
(***************************************************************************)
PlaceRank ==
  [idle |-> 12, generate |-> 11, write |-> 10, read |-> 10, balance |-> 9, airdrop |-> 8,
   create_mint |-> 7, create_ata |-> 6, get_ata |-> 5, mint_to |-> 4, verify |-> 3,
   create_nft |-> 3, done |-> 0, failed |-> 0]

SentRank(tx) == IF tx = Absent THEN 2 ELSE IF tx.status = "flying" THEN 1 ELSE 0

Rank(r) == 3 * PlaceRank[at[r]] + SentRank(flight[r])

LEMMA PlaceRanks ==
  /\ PlaceRank["idle"] = 12 /\ PlaceRank["generate"] = 11 /\ PlaceRank["write"] = 10
  /\ PlaceRank["read"] = 10 /\ PlaceRank["balance"] = 9 /\ PlaceRank["airdrop"] = 8
  /\ PlaceRank["create_mint"] = 7 /\ PlaceRank["create_ata"] = 6
  /\ PlaceRank["get_ata"] = 5 /\ PlaceRank["mint_to"] = 4 /\ PlaceRank["verify"] = 3
  /\ PlaceRank["create_nft"] = 3 /\ PlaceRank["done"] = 0 /\ PlaceRank["failed"] = 0
BY DEF PlaceRank

LEMMA RankNat == ASSUME Inv, NEW r \in Runs PROVE Rank(r) \in Nat /\ Rank(r) <= 38
<1>1. PlaceRank[at[r]] \in 0 .. 12
  <2>1. at[r] \in {"idle"} \cup Loading \cup Funding \cup Minting \cup Ended
    BY DEF Inv, KeysOK
  <2> QED  BY <2>1, PlaceRanks DEF Loading, Funding, Minting, Transactions, Ended
<1>2. SentRank(flight[r]) \in 0 .. 2
  BY DEF SentRank
<1> QED  BY <1>1, <1>2 DEF Rank

\* A run that goes on to a later place, whatever becomes of its transaction.
LEMMA LaterPlace ==
  ASSUME NEW p \in Int, NEW q \in Int, q < p, NEW m \in 0 .. 2, NEW n \in 0 .. 2
  PROVE  3 * q + m < 3 * p + n
OBVIOUS

LEMMA RankFalls ==
  ASSUME Inv, NEW r \in Runs, RunStep(r)
  PROVE  Rank(r)' < Rank(r)
<1> USE DEF Inv
<1>0. /\ at \in [Runs -> {"idle"} \cup Loading \cup Funding \cup Minting \cup Ended]
      /\ flight \in [Runs -> Sent \cup {Absent}]
  BY DEF KeysOK, Stages
<1>1. SentRank(flight[r]) \in 0 .. 2 /\ SentRank(flight'[r]) \in 0 .. 2
  BY DEF SentRank
<1>2. ASSUME NEW p \in Int, NEW q \in Int, PlaceRank[at[r]] = p, PlaceRank[at'[r]] = q, q < p
      PROVE  Rank(r)' < Rank(r)
  BY <1>1, <1>2, LaterPlace DEF Rank
<1>3. CASE FindWallet(r) \/ LoadStep(r)
  <2>1. \/ at[r] = "idle" /\ at'[r] \in {"generate", "read"}
        \/ at[r] = "generate" /\ at'[r] = "write"
        \/ at[r] \in {"write", "read"} /\ at'[r] \in {"balance", "failed"}
    BY <1>0, <1>3 DEF FindWallet, LoadStep, OpenWallet, WriteWallet, ReadWallet, Goes
  <2> QED  BY <1>2, <2>1, PlaceRanks
<1>4. CASE FundStep(r) \/ AirdropInDoubt(r)
  <2>1. \/ at[r] = "balance" /\ at'[r] \in {"airdrop", "create_mint", "create_nft"}
        \/ at[r] = "airdrop" /\ at'[r] \in {"create_mint", "create_nft", "failed"}
    BY <1>0, <1>4 DEF FundStep, CheckBalance, Airdrop, AirdropInDoubt, FirstStep, Goes
  <2> QED  BY <1>2, <2>1, PlaceRanks
<1>5. CASE Confirmed(r) \/ Rejected(r) \/ GetAta(r) \/ Verify(r) \/ AnswerLost(r)
  <2>1. \/ at[r] = "create_mint" /\ at'[r] \in {"create_ata", "failed"}
        \/ at[r] = "create_ata" /\ at'[r] \in {"get_ata", "failed"}
        \/ at[r] = "get_ata" /\ at'[r] \in {"mint_to", "failed"}
        \/ at[r] = "mint_to" /\ at'[r] \in {"verify", "failed"}
        \/ at[r] = "verify" /\ at'[r] = "done"
        \/ at[r] = "create_nft" /\ at'[r] \in {"done", "failed"}
    BY <1>0, <1>5 DEF Confirmed, Rejected, GetAta, NoAta, Verify, AnswerLost, After,
       Transactions, Goes
  <2> QED  BY <1>2, <2>1, PlaceRanks
<1>6. CASE Dies(r)
  <2>1. /\ at[r] \in Loading \cup Funding \cup Minting
        /\ at'[r] = "failed"
    BY <1>0, <1>6 DEF Dies, Goes
  <2>2. PlaceRank[at[r]] \in Nat /\ PlaceRank[at[r]] > 0 /\ PlaceRank[at'[r]] = 0
    BY <2>1, PlaceRanks DEF Loading, Funding, Minting, Transactions
  <2> QED  BY <1>2, <2>2
<1>7. CASE Send(r) \/ Land(r) \/ Expire(r)
  <2>1. SentRank(flight'[r]) < SentRank(flight[r])
    <3>1. CASE Send(r)
      <4>1. /\ flight[r] = Absent /\ flight'[r] = [tx |-> at[r], status |-> "flying"]
            /\ at[r] \in Transactions
        BY <1>0, <3>1 DEF Send
      <4>2. flight'[r] \in Sent
        BY <4>1 DEF Sent
      <4> QED  BY <4>1, <4>2, AbsentAssumption DEF SentRank
    <3>2. CASE Land(r) \/ Expire(r)
      <4>1. /\ Flying(r)
            /\ \E s \in {"landed", "expired"} : flight' = [flight EXCEPT ![r].status = s]
        BY <3>2 DEF Land, Expire
      <4>2. PICK s \in {"landed", "expired"} : flight' = [flight EXCEPT ![r].status = s]
        BY <4>1
      <4>3. /\ flight[r] \in Sent /\ flight[r] # Absent /\ flight[r].status = "flying"
            /\ flight'[r] = [flight[r] EXCEPT !.status = s]
        BY <1>0, <4>1, <4>2 DEF Flying
      <4>4. flight'[r] \in Sent /\ flight'[r].status = s
        BY <4>3 DEF Sent
      <4> QED  BY <4>2, <4>3, <4>4, AbsentAssumption DEF SentRank
    <3> QED  BY <1>7, <3>1, <3>2
  <2>2. at' = at
    BY <1>7 DEF Send, Land, Expire
  <2>3. 3 * PlaceRank[at[r]] \in Int
    <3>1. PlaceRank[at[r]] \in Int
      BY <1>0, PlaceRanks DEF Loading, Funding, Minting, Transactions, Ended
    <3> QED  BY <3>1
  <2> QED  BY <1>1, <2>1, <2>2, <2>3 DEF Rank
<1> QED
  BY <1>3, <1>4, <1>5, <1>6, <1>7 DEF RunStep, Progress, GoesWrong, FundStep, MintStep

(***************************************************************************)
(* Every step takes one run nearer to its end and leaves the others where  *)
(* they are, whatever goes wrong: with what they have to do, 38 steps at   *)
(* most for each run, the scripts and the network cannot go on for ever.   *)
(***************************************************************************)
StepsDown ==
  \E r \in Runs : /\ Rank(r)' < Rank(r) /\ Rank(r) \in 0 .. 38 /\ Rank(r)' \in 0 .. 38
                  /\ \A q \in Runs \ {r} : Rank(q)' = Rank(q)

\* No step of a script, of the network or of what goes wrong leads back.
THEOREM NoWayBack == Spec => [][StepsDown]_vars
<1>1. Inv /\ Inv' /\ [Next]_vars => [StepsDown]_vars
  <2> SUFFICES ASSUME Inv, Inv', NEW r \in Runs, RunStep(r) PROVE StepsDown
    BY DEF Next, RunStep
  <2>1. Rank(r)' < Rank(r)
    BY RankFalls
  <2>2. Rank(r) \in 0 .. 38
    <3>1. Rank(r) \in Nat /\ Rank(r) <= 38
      BY RankNat
    <3> QED  BY <3>1
  <2>3. Rank(r)' \in 0 .. 38
    <3>1. (Inv => Rank(r) \in Nat /\ Rank(r) <= 38)'
      BY RankNat, PTL
    <3> QED  BY <3>1
  <2>4. ASSUME NEW q \in Runs \ {r} PROVE Rank(q)' = Rank(q)
    BY <2>4, OneMoves DEF Inv, Rank
  <2> QED  BY <2>1, <2>2, <2>3, <2>4 DEF StepsDown
<1> QED  BY <1>1, Invariance, PTL DEF Spec

-----------------------------------------------------------------------------
(***************************************************************************)
(* Wherever a run has not ended, there is a step of it, or of the network  *)
(* for it, and this is where that step leads.                              *)
(***************************************************************************)
Moved(r, place) == [at EXCEPT ![r] = place]
Status(r, status) == [flight EXCEPT ![r].status = status]
NoFlight(r) == [flight EXCEPT ![r] = Absent]

\* Where a place leads that waits for no transaction.
Onward(r) ==
  CASE at[r] = "generate" -> <<Empty, Moved(r, "write"), key, flight, sol, made, faults>>
    [] at[r] = "write" -> <<r, Moved(r, "balance"), key, flight, sol, made, faults>>
    [] at[r] = "read" ->
         IF wallet \in {Empty, Torn}
           THEN <<wallet, Moved(r, "failed"), key, flight, sol, made, faults>>
           ELSE <<wallet, Moved(r, "balance"), [key EXCEPT ![r] = wallet],
                  flight, sol, made, faults>>
    [] at[r] = "balance" ->
         <<wallet, Moved(r, IF sol[key[r]] >= MinSol THEN FirstStep(r) ELSE "airdrop"),
           key, flight, sol, made, faults>>
    [] at[r] = "airdrop" ->
         <<wallet, Moved(r, FirstStep(r)), key, flight,
           [sol EXCEPT ![key[r]] = @ + 2 * MinSol], made, faults>>
    [] at[r] = "get_ata" ->
         IF made[r].held = Absent
           THEN <<wallet, Moved(r, "failed"), key, flight, sol, made, faults>>
           ELSE <<wallet, Moved(r, "mint_to"), key, NoFlight(r), sol, made, faults>>
    [] at[r] = "verify" -> <<wallet, Moved(r, "done"), key, flight, sol, made, faults>>

\* And one that does.
Awaited(r) ==
  LET tx == flight[r].tx
  IN  CASE flight[r] = Absent ->
             <<wallet, at, key, [flight EXCEPT ![r] = [tx |-> at[r], status |-> "flying"]],
               sol, made, faults>>
        [] flight[r] # Absent /\ flight[r].status = "flying" ->
             IF Executable(r, tx)
               THEN <<wallet, at, key, Status(r, "landed"), [sol EXCEPT ![key[r]] = @ - 1],
                      [made EXCEPT ![r] = Executed(r, tx)], faults>>
               ELSE <<wallet, at, key, Status(r, "expired"), sol, made, faults>>
        [] flight[r] # Absent /\ flight[r].status = "landed" ->
             <<wallet, Moved(r, After(at[r])), key, NoFlight(r), sol, made, faults>>
        [] flight[r] # Absent /\ flight[r].status = "expired" ->
             <<wallet, Moved(r, IF at[r] = "create_ata" THEN "get_ata" ELSE "failed"),
               key, flight, sol, made, faults>>

Result(r) == IF at[r] \in Transactions THEN Awaited(r) ELSE Onward(r)

(***************************************************************************)
(* No run is stuck before its end: the step to Result(r) is a step of      *)
(* Progress(r), and changes something.  With NoWayBack and the fairness of *)
(* Progress, this is why every run ends.                                   *)
(***************************************************************************)
THEOREM NeverStuck ==
  ASSUME Inv, NEW r \in Runs, at[r] \notin {"idle"} \cup Ended, vars' = Result(r)
  PROVE  Progress(r) /\ vars' # vars
<1>1. /\ at[r] \in Loading \cup Funding \cup Minting
      /\ flight \in [Runs -> Sent \cup {Absent}]
  BY DEF Inv, KeysOK, Stages
<1>2. Progress(r)
  <2>1. CASE at[r] \in Transactions
    <3>1. vars' = Awaited(r)
      BY <2>1 DEF Result
    <3>2. CASE flight[r] = Absent
      <4>1. vars' = <<wallet, at, key, [flight EXCEPT ![r] = [tx |-> at[r], status |-> "flying"]],
                      sol, made, faults>>
        BY <3>1, <3>2 DEF Awaited
      <4> QED  BY <2>1, <3>2, <4>1 DEF vars, Send, MintStep, Progress
    <3>3. CASE flight[r] # Absent /\ flight[r].status = "flying"
      <4>1. CASE Executable(r, flight[r].tx)
        <5>1. vars' = <<wallet, at, key, Status(r, "landed"), [sol EXCEPT ![key[r]] = @ - 1],
                        [made EXCEPT ![r] = Executed(r, flight[r].tx)], faults>>
          BY <3>1, <3>3, <4>1 DEF Awaited
        <5> QED  BY <3>3, <4>1, <5>1 DEF vars, Status, Land, Flying, Progress
      <4>2. CASE ~Executable(r, flight[r].tx)
        <5>1. vars' = <<wallet, at, key, Status(r, "expired"), sol, made, faults>>
          BY <3>1, <3>3, <4>2 DEF Awaited
        <5> QED  BY <3>3, <4>2, <5>1 DEF vars, Status, Land, Flying, Progress
      <4> QED  BY <4>1, <4>2
    <3>4. CASE flight[r] # Absent /\ flight[r].status = "landed"
      <4>1. vars' = <<wallet, Moved(r, After(at[r])), key, NoFlight(r), sol, made, faults>>
        BY <3>1, <3>4 DEF Awaited
      <4> QED
        BY <2>1, <3>4, <4>1 DEF vars, Moved, NoFlight, Confirmed, Answered, Goes, MintStep, Progress
    <3>5. CASE flight[r] # Absent /\ flight[r].status = "expired"
      <4>1. vars' = <<wallet, Moved(r, IF at[r] = "create_ata" THEN "get_ata" ELSE "failed"),
                      key, flight, sol, made, faults>>
        BY <3>1, <3>5 DEF Awaited
      <4> QED  BY <2>1, <3>5, <4>1 DEF vars, Moved, Rejected, Goes, MintStep, Progress
    <3>6. flight[r] # Absent => flight[r].status \in {"flying", "landed", "expired"}
      BY <1>1 DEF Sent
    <3> QED  BY <3>2, <3>3, <3>4, <3>5, <3>6
  <2>2. CASE at[r] \notin Transactions
    <3>1. vars' = Onward(r)
      BY <2>2 DEF Result
    <3>2. CASE at[r] = "generate"
      <4>1. vars' = <<Empty, Moved(r, "write"), key, flight, sol, made, faults>>
        BY <3>1, <3>2 DEF Onward
      <4> QED  BY <3>2, <4>1 DEF vars, Moved, OpenWallet, Goes, LoadStep, Progress
    <3>3. CASE at[r] = "write"
      <4>1. vars' = <<r, Moved(r, "balance"), key, flight, sol, made, faults>>
        BY <3>1, <3>3 DEF Onward
      <4> QED  BY <3>3, <4>1 DEF vars, Moved, WriteWallet, Saved, Goes, LoadStep, Progress
    <3>4. CASE at[r] = "read"
      <4>1. vars' = IF wallet \in {Empty, Torn}
                      THEN <<wallet, Moved(r, "failed"), key, flight, sol, made, faults>>
                      ELSE <<wallet, Moved(r, "balance"), [key EXCEPT ![r] = wallet],
                             flight, sol, made, faults>>
        BY <3>1, <3>4 DEF Onward
      <4> QED  BY <3>4, <4>1 DEF vars, Moved, ReadWallet, Parses, Goes, LoadStep, Progress
    <3>5. CASE at[r] = "balance"
      <4>1. vars' = <<wallet, Moved(r, IF sol[key[r]] >= MinSol THEN FirstStep(r) ELSE "airdrop"),
                      key, flight, sol, made, faults>>
        BY <3>1, <3>5 DEF Onward
      <4> QED  BY <3>5, <4>1 DEF vars, Moved, CheckBalance, Sufficient, Goes, FundStep, Progress
    <3>6. CASE at[r] = "airdrop"
      <4>1. vars' = <<wallet, Moved(r, FirstStep(r)), key, flight,
                      [sol EXCEPT ![key[r]] = @ + 2 * MinSol], made, faults>>
        BY <3>1, <3>6 DEF Onward
      <4> QED  BY <3>6, <4>1 DEF vars, Moved, Airdrop, Airdropped, Goes, FundStep, Progress
    <3>7. CASE at[r] = "get_ata"
      <4>1. vars' = IF made[r].held = Absent
                      THEN <<wallet, Moved(r, "failed"), key, flight, sol, made, faults>>
                      ELSE <<wallet, Moved(r, "mint_to"), key, NoFlight(r), sol, made, faults>>
        BY <3>1, <3>7 DEF Onward
      <4> QED  BY <3>7, <4>1 DEF vars, Moved, NoFlight, GetAta, NoAta, Goes, MintStep, Progress
    <3>8. CASE at[r] = "verify"
      <4>1. vars' = <<wallet, Moved(r, "done"), key, flight, sol, made, faults>>
        BY <3>1, <3>8 DEF Onward
      <4> QED  BY <3>8, <4>1 DEF vars, Moved, Verify, Goes, MintStep, Progress
    <3> QED
      BY <1>1, <2>2, <3>2, <3>3, <3>4, <3>5, <3>6, <3>7, <3>8
         DEF Loading, Funding, Minting
  <2> QED  BY <2>1, <2>2
<1>3. Rank(r)' < Rank(r) /\ Rank(r) \in Nat
  BY <1>2, RankFalls, RankNat DEF RunStep
<1>4. vars' # vars
  BY <1>3 DEF vars, Rank
<1> QED  BY <1>2, <1>4

-----------------------------------------------------------------------------
(***************************************************************************)
(* A run that reads a key pair that nobody is about to empty or to write   *)
(* over, and one that has come from there: it has what its next            *)
(* transaction needs.                                                      *)
(***************************************************************************)
WalletStands ==
  wallet \in Keys /\ \A q \in Runs : at[q] \notin {"generate", "write"}

OnTrack(r) ==
  \/ at[r] = "read" /\ WalletStands
  \/ at[r] \in Funding \cup {"verify", "done"}
  \/ at[r] \in Transactions /\ (flight[r] = Absent \/ flight[r].status # "expired")
  \/ at[r] = "get_ata" /\ flight[r] = Absent

\* The file is written again only by those that found none, and they are gone.
LEMMA WalletStays ==
  ASSUME KeysOK, Stages, WalletStands, NEW q \in Runs, RunStep(q)
  PROVE  WalletStands'
<1> USE DEF KeysOK
<1>1. wallet' = wallet
  BY DEF WalletStands, RunStep, FindWallet, Progress, GoesWrong, LoadStep, FundStep, MintStep,
     OpenWallet, WriteWallet, ReadWallet, CheckBalance, Airdrop, Send, Confirmed,
     Rejected, GetAta, Verify, Land, Dies, AnswerLost, AirdropInDoubt, Expire
<1>2. ASSUME NEW r \in Runs PROVE at'[r] \notin {"generate", "write"}
  <2>1. CASE r # q
    BY <2>1, OneMoves DEF WalletStands
  <2>2. CASE r = q
    <3>1. After(at[q]) \notin {"generate", "write"} \/ at[q] \notin Transactions
      BY DEF After, Transactions
    <3>2. FirstStep(q) \notin {"generate", "write"}
      BY DEF FirstStep
    <3>3. wallet # Absent /\ at[q] \notin {"generate", "write"}
      BY Distinct DEF WalletStands
    <3> QED
      BY <2>2, <3>1, <3>2, <3>3 DEF RunStep, FindWallet, Progress, GoesWrong, LoadStep, FundStep,
         MintStep, OpenWallet, WriteWallet, ReadWallet, CheckBalance, Airdrop, Send,
         Confirmed, Rejected, GetAta, NoAta, Verify, Land, Dies, AnswerLost, AirdropInDoubt,
         Expire, Goes
  <2> QED  BY <2>1, <2>2
<1> QED  BY <1>1, <1>2, Distinct DEF WalletStands

\* What is on its way can be executed.
LEMMA Executes ==
  ASSUME Inv, NEW r \in Runs, Flying(r)
  PROVE  Executable(r, flight[r].tx)
<1>1. StageOK(r) /\ flight[r] # Absent /\ flight[r].status = "flying" /\ flight[r] \in Sent
  BY DEF Flying, Inv, Stages
<1>2. made[r] = Before(flight[r].tx)
  BY <1>1 DEF StageOK
<1>3. sol[key[r]] > 0
  BY FundsThere DEF StaysFunded
<1> QED  BY <1>2, <1>3, Values, MadeValues DEF Executable

\* A step of the run itself, with nothing going wrong.
LEMMA OwnStep ==
  ASSUME Inv, NEW r \in Runs, OnTrack(r), Progress(r)
  PROVE  OnTrack(r)'
<1> USE DEF Inv
<1>0. /\ StageOK(r) /\ KeysOK /\ Stages
      /\ at \in [Runs -> {"idle"} \cup Loading \cup Funding \cup Minting \cup Ended]
      /\ flight \in [Runs -> Sent \cup {Absent}]
  BY DEF KeysOK, Stages
<1>1. CASE LoadStep(r)
  <2>1. at[r] = "read" /\ WalletStands
    BY <1>1 DEF OnTrack, LoadStep, OpenWallet, WriteWallet, ReadWallet, Funding, Transactions
  <2>2. at'[r] = "balance"
    BY <1>0, <1>1, <2>1, Distinct DEF LoadStep, OpenWallet, WriteWallet, ReadWallet, Parses,
       Goes, WalletStands
  <2> QED  BY <2>2 DEF OnTrack, Funding
<1>2. CASE FundStep(r)
  <2>1. flight'[r] = Absent /\ at'[r] \in {"airdrop", FirstStep(r)}
    BY <1>0, <1>2 DEF FundStep, CheckBalance, Airdrop, Goes, StageOK, Funding
  <2> QED  BY <2>1, PlanFirst DEF OnTrack, Funding
<1>3. CASE Send(r)
  <2> DEFINE o == [tx |-> at[r], status |-> "flying"]
  <2>1. at'[r] \in Transactions /\ flight'[r] = o
    BY <1>0, <1>3 DEF Send
  <2>2. o.status = "flying"
    OBVIOUS
  <2> QED  BY <2>1, <2>2 DEF OnTrack
<1>4. CASE Confirmed(r)
  <2>1. /\ at[r] \in Transactions /\ at'[r] = After(at[r]) /\ flight'[r] = Absent
    BY <1>0, <1>4 DEF Confirmed, Goes
  <2>2. After(at[r]) \in Transactions \cup {"get_ata", "verify", "done"}
    BY <2>1 DEF After, Transactions
  <2> QED  BY <2>1, <2>2 DEF OnTrack
<1>5. CASE Rejected(r)
  BY <1>5 DEF Rejected, OnTrack, Funding, Transactions
<1>6. CASE GetAta(r)
  <2>1. at[r] = "get_ata" /\ flight[r] = Absent
    BY <1>6 DEF GetAta, OnTrack, Funding, Transactions
  <2>2. made[r].held # Absent
    BY <1>0, <2>1, MadeValues DEF StageOK
  <2>3. at'[r] = "mint_to" /\ flight'[r] = Absent
    BY <1>0, <1>6, <2>2 DEF GetAta, NoAta, Goes
  <2> QED  BY <2>3 DEF OnTrack, Transactions
<1>7. CASE Verify(r)
  BY <1>0, <1>7 DEF Verify, Goes, OnTrack
<1>8. CASE Land(r)
  <2>1. Flying(r) /\ at' = at
    BY <1>8 DEF Land
  <2>2. Executable(r, flight[r].tx)
    BY <2>1, Executes
  <2>3. flight' = [flight EXCEPT ![r].status = "landed"]
    BY <1>8, <2>2 DEF Land
  <2>4. flight[r] \in Sent /\ flight'[r] = [flight[r] EXCEPT !.status = "landed"]
    BY <1>0, <2>1, <2>3 DEF Flying
  <2>5. flight'[r].status = "landed"
    BY <2>4 DEF Sent
  <2>6. at[r] \in Transactions
    BY <1>0, <2>1 DEF OnTrack, StageOK, Flying, Loading, Funding
  <2> QED  BY <2>1, <2>5, <2>6 DEF OnTrack
<1> QED
  BY <1>1, <1>2, <1>3, <1>4, <1>5, <1>6, <1>7, <1>8 DEF Progress, MintStep

(***************************************************************************)
(* Once nothing goes wrong any more, a run on track stays on track,        *)
(* whatever the other runs do and what earlier ones have left flying: it   *)
(* never comes to "failed".  As it ends, it ends with its mint done.       *)
(***************************************************************************)
StaysOnTrack == \A r \in Runs : faults = MaxFaults /\ OnTrack(r) => OnTrack(r)'

\* No late transaction of an earlier run, and no other run, stops a rerun.
THEOREM RerunStaysOnTrack == Spec => [][StaysOnTrack]_vars
<1>1. Inv /\ [Next]_vars => [StaysOnTrack]_vars
  <2> SUFFICES ASSUME Inv, NEW q \in Runs, RunStep(q), NEW r \in Runs,
                      faults = MaxFaults, OnTrack(r)
               PROVE  OnTrack(r)'
    BY DEF Next, RunStep, StaysOnTrack
  <2>1. ~GoesWrong(q)
    BY RunsAssumption DEF GoesWrong, Dies, AnswerLost, AirdropInDoubt, Expire, Fault
  <2>2. CASE r # q
    <3>1. at'[r] = at[r] /\ flight'[r] = flight[r]
      BY <2>2, OneMoves DEF Inv
    <3>2. WalletStands => WalletStands'
      BY WalletStays DEF Inv
    <3> QED  BY <3>1, <3>2 DEF OnTrack
  <2>3. CASE r = q
    <3>1. ~FindWallet(q)
      BY <2>3 DEF FindWallet, OnTrack, Funding, Transactions
    <3> QED  BY <2>1, <2>3, <3>1, OwnStep DEF RunStep
  <2> QED  BY <2>2, <2>3
<1> QED  BY <1>1, Invariance, PTL DEF Spec

=============================================================================
