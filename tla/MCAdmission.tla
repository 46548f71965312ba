---------------------------- MODULE MCAdmission ----------------------------
EXTENDS Admission
CONSTANTS u1, d1
=============================================================================
