SPECIFICATION Spec
CONSTANTS MaxFaults = 1
PROPERTIES PollsTimeOut
