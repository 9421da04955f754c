---------------------------- MODULE MCAppleSetup ----------------------------
\* The Apple installer with two companions and one crash of the desktop.
EXTENDS AppleSetup
=============================================================================
