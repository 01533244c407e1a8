---------------------------- MODULE MCWorkloads ----------------------------
EXTENDS Workloads
MCOnlys == {Names, {"churn", "random_actions"}, {}}
MCLargeSizes == <<4, 8>>
=============================================================================
