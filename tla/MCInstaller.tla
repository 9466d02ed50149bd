----------------------------- MODULE MCInstaller -----------------------------
EXTENDS Installer
CONSTANTS v1, v2, c1, c2
=============================================================================
