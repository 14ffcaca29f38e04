------------------------------ MODULE MCLogger ------------------------------
EXTENDS Logger

MCValues == 1..MaxLogs
==============================================================================
