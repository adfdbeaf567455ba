------------------------------ MODULE MCHotkey ------------------------------
EXTENDS HotkeyManager
=============================================================================
