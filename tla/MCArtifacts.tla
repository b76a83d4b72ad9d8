----------------------------- MODULE MCArtifacts -----------------------------
EXTENDS Artifacts

=============================================================================
