----------------------------- MODULE MintScripts -----------------------------
(***************************************************************************)
(* The two scripts of Assignment_01, mint-spl-token and mint-nft: each     *)
(* loads or creates the key pair in wallet.json, has it funded, and sends  *)
(* one transaction after the other.  Whoever runs them may run them at the *)
(* same time, kill them and run them again; answers from the network may   *)
(* be lost, and a transaction whose sender is gone may still land.         *)
(*                                                                         *)
(* web3.js, spl-token, Umi and the Solana CLI are libraries to this        *)
(* repository: a call returns, or throws, once the network has answered or *)
(* the transaction has expired.                                            *)
(***************************************************************************)
EXTENDS Naturals, FiniteSets

CONSTANTS
  Runs,        \* the runs of the two scripts, each with a name of its own,
  NftRuns,     \*   and those of them that are of mint-nft
  Earlier,     \* the key pair that a wallet.json kept from earlier holds,
  EarlierSol,  \*   and the balances it may have,
  MinSol,      \*   in costs of a transaction, as what ensureFunded asks for
  MaxFaults,   \* bound on what goes wrong
  Absent,      \* no file, no key pair, no account, no transaction
  Empty,       \* a file that was opened for writing, and not written,
  Torn         \* or written by two runs, and holding a piece of each text

ASSUME RunsAssumption ==
  /\ NftRuns \subseteq Runs /\ IsFiniteSet(Runs)
  /\ MinSol \in Nat /\ EarlierSol \subseteq Nat /\ MaxFaults \in Nat
  /\ Earlier \notin Runs
  /\ Absent \notin Runs \cup {Earlier} /\ Empty \notin Runs \cup {Earlier, Absent}
  /\ Torn \notin Runs \cup {Earlier, Absent, Empty}

\* A key pair is named after the run that makes it.
Keys == Runs \cup {Earlier}

VARIABLES
  wallet,    \* wallet.json: the key pair in it, or what else it is
  at,        \* where each run is
  key,       \* the key pair it works with
  flight,    \* the transaction it sent last
  sol,       \* the balance of each key pair
  made,      \* what its transactions made: a mint and its token account
  faults     \* how much went wrong

vars == <<wallet, at, key, flight, sol, made, faults>>

Transactions == {"create_mint", "create_ata", "mint_to", "create_nft"}
Loading == {"generate", "write", "read"}
Funding == {"balance", "airdrop"}
Minting == Transactions \cup {"get_ata", "verify"}
Ended == {"done", "failed"}

\* What was issued of the mint, in MINT_AMOUNTs, and what the token account
\* holds of it; an MPL Core asset is issued to its owner when it is made.
Made == [issued : Nat, held : Nat \cup {Absent}]
Sent == [tx : Transactions, status : {"flying", "landed", "expired"}]

ASSUME AbsentAssumption == Absent \notin Nat \cup Made \cup Sent

\* The transactions of each run.
Plan(r) ==
  IF r \in NftRuns THEN {"create_nft"} ELSE Transactions \ {"create_nft"}

\* What ensureFunded asks for is 1 SOL, which pays for the transactions of
\* all the runs of one key pair: each costs a small fraction of it.
ASSUME FundsAssumption ==
  Cardinality({p \in Runs \X Transactions : p[2] \in Plan(p[1])}) <= MinSol

Goes(r, place) == at' = [at EXCEPT ![r] = place]

-----------------------------------------------------------------------------
(***************************************************************************)
(* loadOrCreateKeypair: the file is looked for, then opened, which empties *)
(* it, then written; or looked for, then read.                             *)
(***************************************************************************)
FindWallet(r) ==
  /\ at[r] = "idle"
  /\ IF wallet = Absent
       THEN Goes(r, "generate") /\ key' = [key EXCEPT ![r] = r]
       ELSE Goes(r, "read") /\ UNCHANGED key
  /\ UNCHANGED <<wallet, flight, sol, made, faults>>

OpenWallet(r) ==
  /\ at[r] = "generate"
  /\ wallet' = Empty
  /\ Goes(r, "write")
  /\ UNCHANGED <<key, flight, sol, made, faults>>

\* Mutant of Saved: the key pair is not written.
MutantSaved(r) == wallet

Saved(r) == r

\* Every run writes from the start of the file: where another one has written
\* since it was emptied, a longer text of that one leaves its end behind.
WriteWallet(r) ==
  /\ at[r] = "write"
  /\ wallet' \in IF wallet = Empty THEN {Saved(r)} ELSE {Saved(r), Torn}
  /\ Goes(r, "balance")
  /\ UNCHANGED <<key, flight, sol, made, faults>>

\* Mutant of Parses: whatever the file holds is taken for a key pair.
MutantParses(file) == TRUE

\* JSON.parse throws on a file that is not complete.
Parses(file) == file \notin {Empty, Torn}

ReadWallet(r) ==
  /\ at[r] = "read"
  /\ IF Parses(wallet)
       THEN Goes(r, "balance") /\ key' = [key EXCEPT ![r] = wallet]
       ELSE Goes(r, "failed") /\ UNCHANGED key
  /\ UNCHANGED <<wallet, flight, sol, made, faults>>

-----------------------------------------------------------------------------
(***************************************************************************)
(* ensureFunded: after an airdrop, the balance is read, but not compared   *)
(* again.                                                                  *)
(***************************************************************************)
FirstStep(r) == IF r \in NftRuns THEN "create_nft" ELSE "create_mint"

\* Mutant of Sufficient: any balance will do.
MutantSufficient(balance) == balance > 0

Sufficient(balance) == balance >= MinSol

CheckBalance(r) ==
  /\ at[r] = "balance"
  /\ Goes(r, IF Sufficient(sol[key[r]]) THEN FirstStep(r) ELSE "airdrop")
  /\ UNCHANGED <<wallet, key, flight, sol, made, faults>>

\* 2 SOL, where ensureFunded asks for 1.
Airdropped(k) == sol' = [sol EXCEPT ![k] = @ + 2 * MinSol]

Airdrop(r) ==
  /\ at[r] = "airdrop"
  /\ Airdropped(key[r])
  /\ Goes(r, FirstStep(r))
  /\ UNCHANGED <<wallet, key, flight, made, faults>>

-----------------------------------------------------------------------------
(***************************************************************************)
(* The minting: each transaction is sent and waited for.                   *)
(***************************************************************************)
Send(r) ==
  /\ at[r] \in Transactions /\ flight[r] = Absent
  /\ flight' = [flight EXCEPT ![r] = [tx |-> at[r], status |-> "flying"]]
  /\ UNCHANGED <<wallet, at, key, sol, made, faults>>

\* Mutant of Answered: the script does not wait for the confirmation.
MutantAnswered(r) == flight[r].status \in {"flying", "landed"}

Answered(r) == flight[r].status = "landed"

After(tx) ==
  CASE tx = "create_mint" -> "create_ata"
    [] tx = "create_ata"  -> "get_ata"
    [] tx = "mint_to"     -> "verify"
    [] tx = "create_nft"  -> "done"

Confirmed(r) ==
  /\ at[r] \in Transactions /\ flight[r] # Absent
  /\ Answered(r)
  /\ Goes(r, After(at[r]))
  /\ flight' = [flight EXCEPT ![r] = Absent]
  /\ UNCHANGED <<wallet, key, sol, made, faults>>

\* getOrCreateAssociatedTokenAccount ignores the error, any other call throws.
Rejected(r) ==
  /\ at[r] \in Transactions /\ flight[r] # Absent
  /\ flight[r].status = "expired"
  /\ Goes(r, IF at[r] = "create_ata" THEN "get_ata" ELSE "failed")
  /\ UNCHANGED <<wallet, key, flight, sol, made, faults>>

\* Mutant of NoAta: the account is read until it is there.
MutantNoAta(r) == FALSE /\ Goes(r, "failed")

\* What it reads in the end decides.
NoAta(r) == made[r].held = Absent /\ Goes(r, "failed") /\ UNCHANGED flight

GetAta(r) ==
  /\ at[r] = "get_ata"
  /\ \/ NoAta(r)
     \/ /\ made[r].held # Absent
        /\ Goes(r, "mint_to")
        /\ flight' = [flight EXCEPT ![r] = Absent]
  /\ UNCHANGED <<wallet, key, sol, made, faults>>

Verify(r) ==
  /\ at[r] = "verify"
  /\ Goes(r, "done")
  /\ UNCHANGED <<wallet, key, flight, sol, made, faults>>
-----------------------------------------------------------------------------
(***************************************************************************)
(* The network: what was sent lands, if its sender has the SOL, or expires *)
(* with its blockhash, whether or not anyone still waits for it.           *)
(***************************************************************************)
Executed(r, tx) ==
  CASE tx = "create_mint" -> [issued |-> 0, held |-> Absent]
    [] tx = "create_ata"  -> [made[r] EXCEPT !.held = 0]
    [] tx = "mint_to"     -> [issued |-> made[r].issued + 1, held |-> made[r].held + 1]
    [] tx = "create_nft"  -> [issued |-> 1, held |-> 1]

\* The accounts that a transaction names are there.
Executable(r, tx) ==
  /\ sol[key[r]] > 0
  /\ tx = "create_ata" => made[r] # Absent
  /\ tx = "mint_to" => made[r] # Absent /\ made[r].held # Absent

Flying(r) == flight[r] # Absent /\ flight[r].status = "flying"

\* It is refused when it cannot be executed.
Land(r) ==
  LET tx == flight[r].tx
      ok == Executable(r, tx)
  IN  /\ Flying(r)
      /\ made' = IF ok THEN [made EXCEPT ![r] = Executed(r, tx)] ELSE made
      /\ sol' = IF ok THEN [sol EXCEPT ![key[r]] = @ - 1] ELSE sol
      /\ flight' = [flight EXCEPT ![r].status = IF ok THEN "landed" ELSE "expired"]
      /\ UNCHANGED <<wallet, at, key, faults>>

-----------------------------------------------------------------------------
(***************************************************************************)
(* What goes wrong.                                                        *)
(***************************************************************************)
Fault == faults < MaxFaults /\ faults' = faults + 1

\* A run is killed, or a call throws and main().catch ends the script.
Dies(r) ==
  /\ at[r] \notin {"idle"} \cup Ended
  /\ Fault
  /\ Goes(r, "failed")
  /\ UNCHANGED <<wallet, key, flight, sol, made>>

\* The answer about the token account is lost, which the library ignores.
AnswerLost(r) ==
  /\ at[r] = "create_ata" /\ flight[r] # Absent
  /\ Fault
  /\ Goes(r, "get_ata")
  /\ UNCHANGED <<wallet, key, flight, sol, made>>

\* The airdrop arrives, but the CLI reports that it failed, or the balance
\* cannot be read afterwards, which is caught as if the airdrop had failed.
AirdropInDoubt(r) ==
  /\ at[r] = "airdrop"
  /\ Fault
  /\ Airdropped(key[r])
  /\ Goes(r, "failed")
  /\ UNCHANGED <<wallet, key, flight, made>>

Expire(r) ==
  /\ Flying(r)
  /\ Fault
  /\ flight' = [flight EXCEPT ![r].status = "expired"]
  /\ UNCHANGED <<wallet, at, key, sol, made>>

-----------------------------------------------------------------------------
Init ==
  /\ wallet \in {Absent, Earlier}
  /\ at = [r \in Runs |-> "idle"]
  /\ key = [r \in Runs |-> Absent]
  /\ flight = [r \in Runs |-> Absent]
  /\ \E n \in EarlierSol : sol = [k \in Keys |-> IF wallet = k THEN n ELSE 0]
  /\ made = [r \in Runs |-> Absent]
  /\ faults = 0

LoadStep(r) == OpenWallet(r) \/ WriteWallet(r) \/ ReadWallet(r)
FundStep(r) == CheckBalance(r) \/ Airdrop(r)
MintStep(r) == Send(r) \/ Confirmed(r) \/ Rejected(r) \/ GetAta(r) \/ Verify(r)

\* What a run does by itself, and what the network does about it.
Progress(r) == LoadStep(r) \/ FundStep(r) \/ MintStep(r) \/ Land(r)

GoesWrong(r) == Dies(r) \/ AnswerLost(r) \/ AirdropInDoubt(r) \/ Expire(r)

Next == \E r \in Runs : FindWallet(r) \/ Progress(r) \/ GoesWrong(r)

\* Node goes on with a script until it ends, and every call it waits for is
\* answered or expires.  Nobody has to start a run.
Spec == Init /\ [][Next]_vars /\ \A r \in Runs : WF_vars(Progress(r))

-----------------------------------------------------------------------------
TypeOK ==
  /\ wallet \in Keys \cup {Absent, Empty, Torn}
  /\ at \in [Runs -> {"idle"} \cup Loading \cup Funding \cup Minting \cup Ended]
  /\ key \in [Runs -> Keys \cup {Absent}]
  /\ flight \in [Runs -> Sent \cup {Absent}]
  /\ sol \in [Keys -> Nat]
  /\ made \in [Runs -> Made \cup {Absent}]
  /\ faults \in 0 .. MaxFaults

(***************************************************************************)
(* Unless two runs both found no wallet file, all SOL of the key pairs     *)
(* and everything that was minted belongs to the key pair in wallet.json,  *)
(* whichever runs were killed and wherever.                                *)
(***************************************************************************)
NothingStranded ==
  Cardinality({r \in Runs : key[r] = r}) <= 1 =>
    /\ \A k \in Keys : sol[k] > 0 => wallet = k
    /\ \A r \in Runs : made[r] # Absent => wallet = key[r]

(***************************************************************************)
(* MINT_AMOUNT is issued at most once for each mint, whatever answers are  *)
(* lost, and a script that comes to its end has it all in the account.     *)
(***************************************************************************)
MintedOnce ==
  \A r \in Runs :
    /\ made[r] # Absent => made[r].issued <= 1
    /\ at[r] = "done" => made[r] = [issued |-> 1, held |-> 1]

(***************************************************************************)
(* ensureFunded looks at the balance once, and other runs, and the late    *)
(* transactions of runs that are gone, spend of it afterwards: as long as  *)
(* what it asks for covers them all, none is refused for want of SOL.      *)
(***************************************************************************)
StaysFunded == \A r \in Runs : Flying(r) => sol[key[r]] > 0

(***************************************************************************)
(* Every run that is started ends, one way or the other.                   *)
(***************************************************************************)
RunsEnd == []<>(\A r \in Runs : at[r] \in {"idle"} \cup Ended)

(***************************************************************************)
(* Run again, a script does what it is for, whatever earlier runs left     *)
(* behind: when nothing goes wrong any more, and wallet.json holds a key   *)
(* pair that nobody is about to empty or to write over, a run that reads   *)
(* it ends with its mint done.                                             *)
(***************************************************************************)
RerunSucceeds ==
  \A r \in Runs :
    /\ at[r] = "read" /\ faults = MaxFaults
    /\ wallet \in Keys /\ \A q \in Runs : at[q] \notin {"generate", "write"}
    ~> at[r] = "done"

=============================================================================
