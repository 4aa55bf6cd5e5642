---------------------------- MODULE Ec2Metadata ----------------------------
(***************************************************************************)
(* The EC2 collector (src/guardian/collector/ec2.py) and its session token *)
(* of the instance metadata service (IMDS): it is asked for one that lives *)
(* TokenTtl and reuses it for a little less.  Of the metadata, what becomes *)
(* a label is kept here, the instance's and the account's id, and the spot *)
(* interruption notice.                                                    *)
(***************************************************************************)
EXTENDS Integers

CONSTANTS
    TokenTtl,       \* lifetime of a token at the service (21600 s)
    TokenReuse,     \* for how long the collector reuses one (21000 s)
    SpotCheck       \* collector.spot_interruption_check

ASSUME TokenAssumption ==
    TokenTtl \in Nat \ {0} /\ TokenReuse \in 0..TokenTtl /\ SpotCheck \in BOOLEAN

VARIABLES
    tokenAge,       \* age of _token
    notice,         \* the service announces a spot interruption
    metadata,       \* the snapshot: is_ec2, the ids and spot_interruption
    reached         \* history: the service was there to tell of a notice

ec2Vars == <<tokenAge, notice, metadata, reached>>

NoToken == -1
Paths == {"instance-id", "document", "spot"}

InstanceIds == {"", "i-1"}
Accounts == {"", "imds"}        \* aws_account_id, of the identity document

NotEc2 == [is_ec2 |-> FALSE, instance_id |-> "", aws_account_id |-> "", scheduled |-> FALSE]

Ec2TypeOK ==
    /\ tokenAge \in {NoToken} \cup 0..TokenTtl
    /\ notice \in BOOLEAN /\ reached \in BOOLEAN
    /\ metadata \in [is_ec2 : BOOLEAN, instance_id : InstanceIds, aws_account_id : Accounts,
                     scheduled : BOOLEAN]

Ec2Init ==
    /\ tokenAge = NoToken
    /\ notice = FALSE
    /\ metadata = NotEc2
    /\ reached = FALSE

SpotNotice == notice' = ~notice /\ UNCHANGED <<tokenAge, metadata, reached>>

TokenAges ==
    /\ tokenAge' = IF tokenAge \in {NoToken, TokenTtl} THEN tokenAge ELSE tokenAge + 1
    /\ UNCHANGED <<notice, metadata, reached>>

ReusableOnceTaken == tokenAge # NoToken     \* mutant: the expiry is not looked at

Reusable == tokenAge # NoToken /\ tokenAge < TokenReuse

(* The service answers a path or it does not; with a token that has        *)
(* expired it refuses all of them.                                         *)
Answers(age) == IF age < TokenTtl THEN SUBSET Paths ELSE {{}}

Collected(answered) ==
    [is_ec2 |-> TRUE,
     instance_id |-> IF "instance-id" \in answered THEN "i-1" ELSE "",
     aws_account_id |-> IF "document" \in answered THEN "imds" ELSE "",
     scheduled |-> SpotCheck /\ notice /\ "spot" \in answered]

CollectEc2 ==
    \E up \in BOOLEAN :
        \/ /\ Reusable \/ up
           /\ tokenAge' = IF Reusable THEN tokenAge ELSE 0
           /\ \E answered \in IF up THEN Answers(tokenAge') ELSE {{}} :
                /\ metadata' = Collected(answered)
                /\ reached' = (up /\ ("spot" \in answered \/ Answers(tokenAge') = {{}}))
           /\ UNCHANGED notice
        \/ /\ ~Reusable /\ ~up
           /\ metadata' = NotEc2
           /\ reached' = FALSE
           /\ UNCHANGED <<tokenAge, notice>>
=============================================================================
