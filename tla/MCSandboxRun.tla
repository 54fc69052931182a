----------------------------- MODULE MCSandboxRun -----------------------------
EXTENDS SandboxRun
===============================================================================
