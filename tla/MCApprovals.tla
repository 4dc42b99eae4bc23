------------------------------ MODULE MCApprovals ----------------------------
(* One run for the two ways in which several holders decide together: the  *)
(* owners of a multisig account and the voters of governance.  They share  *)
(* no state, so a behaviour uses one of them.                              *)
EXTENDS MCGovernance, MCMultisigAccount

VARIABLE family

ApprovalsInit ==
  /\ family \in {"governance", "multisig"}
  /\ GovernanceInit /\ MultisigInit
  \* The instance of governance is always the same when it is not used.
  /\ family # "governance" => ~partial.enabled

ApprovalsNext ==
  /\ UNCHANGED family
  /\ \/ family = "governance" /\ GovernanceNext /\ UNCHANGED multisigVars
     \/ family = "multisig" /\ MultisigNext /\ UNCHANGED governanceVars

ApprovalsSpec ==
  ApprovalsInit /\ [][ApprovalsNext]_<<family, governanceVars, multisigVars>>
=============================================================================
