---------------------------- MODULE ClaimCounter ----------------------------
(***************************************************************************)
(* The claim counter of CCOS Pro (tools/ccos-license-server): a daemon that*)
(* holds a copy of the vault, flips a code from unclaimed to claimed for   *)
(* one machine, saves the vault and only then discloses the signed token;  *)
(* and the vendor's command line, which loads the same vault, changes an   *)
(* entry and saves it.  A save is write_durable: a step that happens or    *)
(* does not (module DurableFile).  Requests are handled one at a time; the *)
(* process may die between any two steps, a save may fail and a reply may  *)
(* be lost.  Rate limiting and malformed requests change nothing here.     *)
(*                                                                         *)
(* The names of the specification carry CC, so that the theorems about it  *)
(* can stand in one module with those about the file it saves.             *)
(***************************************************************************)
EXTENDS Naturals

CONSTANTS Codes,        \* claim codes (their hashes)
          Machines,     \* fingerprints
          Days,         \* duration of each code, Perpetual for none
          Perpetual, NoMachine, NoRequest,
          MaxNow,       \* bound: days
          MaxRearms,    \* bound: re-armings
          MaxFaults     \* bound: deaths and failed saves

ASSUME ClaimCounterAssumption ==
    /\ Days \in [Codes -> Nat \cup {Perpetual}]
    /\ Perpetual \notin Nat
    /\ NoMachine \notin Machines
    /\ NoRequest \notin [code : Codes, machine : Machines]
    /\ MaxNow \in Nat /\ MaxRearms \in Nat /\ MaxFaults \in Nat

VARIABLES file,     \* the vault on disk
          step,     \* of the daemon: down, idle, saving or replying
          vault,    \* its copy
          before,   \* the copy before the request, for the roll-back
          request,  \* the code and the machine of the request, or NoRequest
          admin,    \* the command that is running, with the vault it loaded
          now,      \* days gone by
          tokens,   \* every token disclosed
          armed,    \* history: how often each code was armed
          announced,\* history: codes the vendor was told are refused now
          sealed,   \* history: codes revoked in the file while nobody served it
          together, \* history: has a command ever worked on the vault while it was served?
          faults

daemon  == <<step, vault, before, request>>
history == <<announced, sealed, together>>
CCvars  == <<file, daemon, admin, now, tokens, armed, history, faults>>

Entry(status, machine, exp) == [status |-> status, machine |-> machine, exp |-> exp]

NoEntry   == Entry("none", NoMachine, 0)
Unclaimed == Entry("unclaimed", NoMachine, 0)

NoVault == [c \in Codes |-> NoEntry]

NoCommand == [op |-> "none"]

Expiry(c) == IF Days[c] = Perpetual THEN Perpetual ELSE now + Days[c]

-----------------------------------------------------------------------------
CCInit ==
    /\ file = NoVault
    /\ step = "down" /\ vault = NoVault /\ before = NoVault /\ request = NoRequest
    /\ admin = NoCommand
    /\ now = 0 /\ tokens = {}
    /\ armed = [c \in Codes |-> 0] /\ announced = {} /\ sealed = {} /\ together = FALSE
    /\ faults = 0

(* The daemon loads the vault once, when it starts.                        *)
Start ==
    /\ step = "down" /\ file # NoVault
    /\ step' = "idle" /\ vault' = file
    /\ together' = (together \/ admin # NoCommand)
    /\ UNCHANGED <<file, before, request, admin, now, tokens, armed, announced, sealed, faults>>

Accept(c, m) ==
    /\ step' = "saving" /\ before' = vault
    /\ request' = [code |-> c, machine |-> m]
    /\ UNCHANGED <<file, admin, now, tokens, armed, history, faults>>

(* Faulty variant: the machine of the claim is not recorded.               *)
FirstClaimUnbound(c, m) ==
    /\ step = "idle" /\ vault[c].status = "unclaimed"
    /\ vault' = [vault EXCEPT ![c] = Entry("claimed", NoMachine, Expiry(c))]
    /\ Accept(c, m)

(* `Vault::claim`: the first claim flips the code and fixes the expiry ... *)
FirstClaim(c, m) ==
    /\ step = "idle" /\ vault[c].status = "unclaimed"
    /\ vault' = [vault EXCEPT ![c] = Entry("claimed", m, Expiry(c))]
    /\ Accept(c, m)

(* Faulty variant: the status of a known machine's code is not looked at.  *)
ReissueRevoked(c, m) ==
    /\ step = "idle" /\ vault[c].machine = m
    /\ UNCHANGED vault
    /\ Accept(c, m)

(* ... and the same machine gets the same license again.  Any other claim  *)
(* is refused: unknown, taken by another machine, revoked.                 *)
Reissue(c, m) ==
    /\ step = "idle" /\ vault[c].status = "claimed" /\ vault[c].machine = m
    /\ UNCHANGED vault
    /\ Accept(c, m)

Save ==
    /\ step = "saving"
    /\ file' = vault /\ step' = "replying" /\ before' = NoVault
    /\ UNCHANGED <<vault, request, admin, now, tokens, armed, history, faults>>

(* Faulty variant: no roll-back, the token is disclosed all the same.      *)
SaveFailsUnseen ==
    /\ step = "saving" /\ faults < MaxFaults
    /\ step' = "replying" /\ before' = NoVault /\ faults' = faults + 1
    /\ UNCHANGED <<file, vault, request, admin, now, tokens, armed, history>>

(* Nothing was written: the copy is rolled back, the claim refused.        *)
SaveFails ==
    /\ step = "saving" /\ faults < MaxFaults
    /\ step' = "idle" /\ vault' = before /\ before' = NoVault
    /\ request' = NoRequest /\ faults' = faults + 1
    /\ UNCHANGED <<file, admin, now, tokens, armed, history>>

Token(r) == [code |-> r.code, machine |-> r.machine, exp |-> vault[r.code].exp,
             arming |-> armed[r.code]]

(* The token is signed and sent; the reply may be lost.                    *)
Disclose ==
    /\ step = "replying"
    /\ tokens' \in {tokens, tokens \cup {Token(request)}}
    /\ step' = "idle" /\ request' = NoRequest
    /\ UNCHANGED <<file, vault, before, admin, now, armed, history, faults>>

Down ==
    /\ step' = "down"
    /\ vault' = NoVault /\ before' = NoVault /\ request' = NoRequest
    /\ UNCHANGED <<file, admin, now, tokens, armed, history>>

Stop == step = "idle" /\ Down /\ UNCHANGED faults

Crash == step # "down" /\ faults < MaxFaults /\ Down /\ faults' = faults + 1

-----------------------------------------------------------------------------
(* The vendor: `ccos-license-admin` loads the vault, changes an entry, and *)
(* says so ...                                                             *)
Loads(op, c, entry) ==
    /\ admin = NoCommand
    /\ admin' = [op |-> op, code |-> c, vault |-> [file EXCEPT ![c] = entry]]
    /\ together' = (together \/ step # "down")
    /\ UNCHANGED <<file, daemon, now, tokens, armed, sealed, faults>>

(* A code is drawn at random: none is ever drawn twice.                    *)
New(c) ==
    file[c] = NoEntry /\ armed[c] = 0 /\ Loads("new", c, Unclaimed) /\ UNCHANGED announced

(* "the counter now refuses this code"                                     *)
Revoke(c) ==
    /\ file[c] # NoEntry
    /\ Loads("revoke", c, [file[c] EXCEPT !.status = "revoked"])
    /\ announced' = announced \cup {c}

(* "the same code can be claimed again"                                    *)
Rearm(c) ==
    /\ file[c] # NoEntry /\ armed[c] <= MaxRearms
    /\ Loads("rearm", c, Unclaimed)
    /\ announced' = announced \ {c}

(* ... and only then saves it, or dies or fails before.                    *)
AdminSaves ==
    /\ admin # NoCommand
    /\ file' = admin.vault /\ admin' = NoCommand
    /\ armed' = IF admin.op = "revoke" THEN armed ELSE [armed EXCEPT ![admin.code] = @ + 1]
    /\ sealed' = IF admin.op # "revoke" THEN sealed \ {admin.code}
                 ELSE IF step = "down" THEN sealed \cup {admin.code} ELSE sealed
    /\ UNCHANGED <<daemon, now, tokens, announced, together, faults>>

AdminFails ==
    /\ admin # NoCommand /\ faults < MaxFaults
    /\ admin' = NoCommand /\ faults' = faults + 1
    /\ UNCHANGED <<file, daemon, now, tokens, armed, history>>

Day ==
    /\ now < MaxNow /\ now' = now + 1
    /\ UNCHANGED <<file, daemon, admin, tokens, armed, history, faults>>

CCNext ==
    \/ Start \/ Save \/ SaveFails \/ Disclose \/ Stop \/ Crash
    \/ AdminSaves \/ AdminFails \/ Day
    \/ \E c \in Codes : New(c) \/ Revoke(c) \/ Rearm(c)
    \/ \E c \in Codes, m \in Machines : FirstClaim(c, m) \/ Reissue(c, m)

CCSpec == CCInit /\ [][CCNext]_CCvars

-----------------------------------------------------------------------------
Expiries == Nat \cup {Perpetual}

Entries == {NoEntry, Unclaimed} \cup
    [status : {"claimed"}, machine : Machines, exp : Expiries] \cup
    [status : {"revoked"}, machine : Machines \cup {NoMachine}, exp : Expiries]

Vaults == [Codes -> Entries]

(* Type invariant of the vault, its copies and the tokens.                 *)
CCTypeOK ==
    /\ file \in Vaults /\ vault \in Vaults /\ before \in Vaults
    /\ step \in {"down", "idle", "saving", "replying"}
    /\ request \in [code : Codes, machine : Machines] \cup {NoRequest}
    /\ admin = NoCommand
       \/ admin \in [op : {"new", "revoke", "rearm"}, code : Codes, vault : Vaults]
    /\ tokens \subseteq [code : Codes, machine : Machines, exp : Expiries, arming : Nat]
    /\ now \in 0..MaxNow /\ armed \in [Codes -> Nat] /\ faults \in 0..MaxFaults
    /\ announced \subseteq Codes /\ sealed \subseteq Codes /\ together \in BOOLEAN

(* Every code, each time it is armed, gives one license: one machine, and  *)
(* an expiry that no later claim extends.                                  *)
OneLicensePerArming ==
    \A t, u \in tokens : t.code = u.code /\ t.arming = u.arming => t = u

(* No token is out that the vault on disk does not know.                   *)
LedgerKnowsTokens ==
    \A t \in tokens : t.arming = armed[t.code] =>
        /\ file[t.code].status \in {"claimed", "revoked"}
        /\ file[t.code].machine = t.machine /\ file[t.code].exp = t.exp

(* "never hand out a token the ledger did not record", and never two for   *)
(* one arming of a code, although replies are lost, saves fail and the     *)
(* daemon dies between the flip, the save and the token.  This is said of  *)
(* a vendor who stops the daemon for every command: a command that runs    *)
(* beside it saves a vault that may be older than the last claim.          *)
TokensMatchLedger == ~together => OneLicensePerArming /\ LedgerKnowsTokens

(* Once `save_or_die` has put a revocation into the file while no counter  *)
(* serves it, no claim of the code is accepted until it is armed again:    *)
(* not by a later counter, which may be up while the vendor goes on        *)
(* working, nor after the whole-file saves of either.                      *)
SealedIsRefused ==
    [][\A c \in sealed :
          request # request' => ~(request' # NoRequest /\ request'.code = c)]_CCvars

(* What `cmd_flip` prints of a revocation, "the counter now refuses this   *)
(* code", taken at its word as soon as the command is over.                *)
AnnouncedIsRefused ==
    [][\A c \in announced :
          admin = NoCommand /\ request # request' =>
              ~(request' # NoRequest /\ request'.code = c)]_CCvars

=============================================================================
