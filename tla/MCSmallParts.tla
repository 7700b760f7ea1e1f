---------------------------- MODULE MCSmallParts ----------------------------
(* Parts that share no state, side by side: the clocks of two devices, the  *)
(* secrets of one, the timer that locks its screen, the keypad of an entry, *)
(* the migrations of the server.  A behaviour is one of the part it starts  *)
(* with.                                                                    *)
EXTENDS DeviceClock, Secrets, InactivityTimer, EntryAmount, Migrate

CONSTANTS Server1, Server2, Server3

TwoDevices == {1, 2}
BackAndForth == {0, 2}

\* What a customer may owe; below zero he has paid too much.
Owed == {-30000, -5, 250050}

\* A roll-out: a server of the old build and two of the new one.
RollOut == [s \in Server |-> IF s = Server1 THEN 2 ELSE 3]

VARIABLE part

parts == <<vars, secretsVars, timerVars, amountVars, migrateVars>>
partsVars == <<part, parts>>

PartsInit ==
    /\ part \in {"clocks", "secrets", "timer", "amount", "migrate"}
    /\ Init /\ TimerInit /\ MigrateInit
    /\ SecretsInit /\ (part = "secrets" \/ known = {CHOOSE p \in Pin : TRUE})
    /\ AmountInit /\ (part = "amount" \/ filledIn = 0)

PartsNext ==
    /\ UNCHANGED part
    /\ \/ part = "clocks" /\ Next /\ UNCHANGED <<secretsVars, timerVars, amountVars, migrateVars>>
       \/ part = "secrets" /\ SecretsNext /\ UNCHANGED <<vars, timerVars, amountVars, migrateVars>>
       \/ part = "timer" /\ TimerNext /\ UNCHANGED <<vars, secretsVars, amountVars, migrateVars>>
       \/ part = "amount" /\ AmountNext /\ UNCHANGED <<vars, secretsVars, timerVars, migrateVars>>
       \/ part = "migrate" /\ MigrateNext /\ UNCHANGED <<vars, secretsVars, timerVars, amountVars>>

PartsSpec == PartsInit /\ [][PartsNext]_partsVars /\ MigrateFairness
=============================================================================
