---------------------------- MODULE MCMqttClient ----------------------------
EXTENDS MqttClient

MCValues == 1..MaxPublish
==============================================================================
