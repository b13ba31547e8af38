-------------------------------- MODULE MC_Otp ---------------------------------
EXTENDS Otp

===============================================================================
